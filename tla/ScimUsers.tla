----------------------------- MODULE ScimUsers ------------------------------
(***************************************************************************)
(* One user as the SCIM server, the offboarding part of it and the MFA     *)
(* handlers change it.  PATCH takes a version first (an optimistic lock),  *)
(* then writes Keycloak, then the users row; when one of these fails it    *)
(* gives the version back and writes the old values to Keycloak.  DELETE   *)
(* and RequireMFA take no version.  Every write to Keycloak reads the      *)
(* whole user and writes the whole user back.                              *)
(*                                                                         *)
(* kc        the user in Keycloak: name, enabled, required actions         *)
(* row       the users row: name, disabled                                 *)
(* version   scim_resource_versions.version (0: no row)                    *)
(* op        per request: its kind, where it is, and its local variables   *)
(* holders   per version: PATCH requests that took it and did not give it  *)
(*           back (history)                                                *)
(* solo      no two requests have overlapped (history)                     *)
(* clean     no answer was lost, no compensation or ignored write failed,  *)
(*           no replica died in the middle of a request (history)          *)
(***************************************************************************)
EXTENDS Integers, SequencesExt

CONSTANTS Requests,     \* concurrent requests
          Names,        \* values of the profile fields
          Patches,      \* bodies of PATCH: sequences of operations
          Actions,      \* required actions of Keycloak
          MaxVersion    \* bound on the versions

ASSUME ScimAssumption == MaxVersion \in Nat \ {0, 1}

VARIABLES kc, row, version, op, holders, solo, clean

stores == <<kc, row, version>>
history == <<holders, solo, clean>>
userVars == <<stores, op, history>>

Versions == 1 .. MaxVersion

Row == [name : Names, disabled : BOOLEAN]

User == [name : Names, enabled : BOOLEAN, actions : SUBSET Actions]

NoRow == [name |-> CHOOSE n \in Names : TRUE, disabled |-> FALSE]

NoOp == [kind |-> "none", pc |-> "idle", read |-> NoRow, want |-> NoRow, seen |-> 1,
         rep |-> [name |-> NoRow.name, enabled |-> TRUE, actions |-> {}], action |-> {}]

Idle(r) == op[r].pc = "idle"

\* No request is being served.
Quiet == \A q \in Requests : op[q].pc \in {"idle", "held"}

Rest(r) == op' = [op EXCEPT ![r] = NoOp]

Goto(r, pc) == op' = [op EXCEPT ![r].pc = pc]

\* The two stores say the same of the user.
Agree == kc.name = row.name /\ kc.enabled = ~ row.disabled

UserInit ==
    /\ row \in Row
    /\ kc = [name |-> row.name, enabled |-> ~ row.disabled, actions |-> {}]
    /\ version \in {0, 1}        \* onboarded by an administrator, created by SCIM
    /\ op = [r \in Requests |-> NoOp]
    /\ holders = [v \in Versions |-> 0]
    /\ solo = TRUE /\ clean = TRUE

-----------------------------------------------------------------------------
(* The body of a PATCH.                                                    *)

\* One operation: replace and add set what the path names, an empty path merges
\* an object, remove of "active" deactivates and is ignored elsewhere.
ApplyOp(u, o) ==
    IF o.op = "remove"
    THEN [u EXCEPT !.disabled = @ \/ o.path = "active"]
    ELSE [name     |-> IF o.path \in {"name", ""} /\ o.name # "none" THEN o.name ELSE u.name,
          disabled |-> IF o.path \in {"active", ""} /\ o.active # "none" THEN o.active = "false"
                       ELSE u.disabled]

Patched(u, body) == FoldLeft(ApplyOp, u, body)

\* COALESCE(v.version, 1)
Current == IF version = 0 THEN 1 ELSE version

-----------------------------------------------------------------------------
(* The requests begin.                                                     *)

\* A client reads the user and keeps its ETag for an If-Match.
SCIMGetUser(r) ==
    /\ Idle(r)
    /\ op' = [op EXCEPT ![r] = [NoOp EXCEPT !.pc = "held", !.seen = Current]]
    /\ UNCHANGED <<stores, history>>

\* SCIMPatchUser up to the lock: the row and the version in one SELECT, the
\* If-Match of a client that holds an ETag (412 when it is stale), the
\* operations of the body.
SCIMPatchUser(r, body) ==
    /\ op[r].pc \in {"idle", "held"}
    /\ IF op[r].pc = "held" /\ op[r].seen # Current
       THEN Rest(r)
       ELSE op' = [op EXCEPT ![r] = [NoOp EXCEPT !.kind = "patch", !.pc = "bump", !.read = row,
                                        !.want = Patched(row, body), !.seen = Current]]
    /\ solo' = (solo /\ Quiet)
    /\ UNCHANGED <<stores, holders, clean>>

\* SCIMDeleteUser (deactivation) and SetRequiredAction.
SCIMDeleteUser(r) ==
    /\ Idle(r)
    /\ op' = [op EXCEPT ![r] = [NoOp EXCEPT !.kind = "delete", !.pc = "get"]]
    /\ solo' = (solo /\ Quiet)
    /\ UNCHANGED <<stores, holders, clean>>

RequireMFA(r, a) ==
    /\ Idle(r)
    /\ op' = [op EXCEPT ![r] = [NoOp EXCEPT !.kind = "mfa", !.pc = "get", !.action = {a}]]
    /\ solo' = (solo /\ Quiet)
    /\ UNCHANGED <<stores, holders, clean>>

-----------------------------------------------------------------------------
(* The version.                                                            *)

\* INSERT ... ON CONFLICT DO UPDATE ... WHERE version = the version read.
Bump(r) ==
    /\ op[r].pc = "bump" /\ op[r].seen < MaxVersion
    /\ version \in {0, op[r].seen}
    /\ version' = op[r].seen + 1
    /\ holders' = [holders EXCEPT ![op[r].seen + 1] = @ + 1]
    /\ Goto(r, "get")
    /\ UNCHANGED <<kc, row, solo, clean>>

\* No row was affected: 412, and nothing was changed.
Refused(r) ==
    /\ op[r].pc = "bump" /\ version \notin {0, op[r].seen}
    /\ Rest(r)
    /\ UNCHANGED <<stores, history>>

\* The statement fails; it may have been carried out.
BumpFails(r) ==
    /\ op[r].pc = "bump" /\ op[r].seen < MaxVersion
    /\ \/ UNCHANGED <<version, holders>>
       \/ /\ version \in {0, op[r].seen}
          /\ version' = op[r].seen + 1
          /\ holders' = [holders EXCEPT ![op[r].seen + 1] = @ + 1]
    /\ Rest(r)
    /\ UNCHANGED <<kc, row, solo, clean>>

\* Mutant: the version is taken back whatever it has become.
RestoreBlindly(r) ==
    /\ version' = op[r].seen
    /\ holders' = [holders EXCEPT ![op[r].seen + 1] = @ - 1]

\* UPDATE ... SET version = prev WHERE version = attempted; a failure (the
\* request's context may be over) is only logged.
scimRestoreVersion(r) ==
    \/ /\ version = op[r].seen + 1
       /\ version' = op[r].seen
       /\ holders' = [holders EXCEPT ![op[r].seen + 1] = @ - 1]
    \/ UNCHANGED <<version, holders>>

\* After a failed Keycloak call that is all; after a failed UPDATE Keycloak
\* has the new values and gets the old ones back.
GiveBackVersion(r) ==
    /\ op[r].pc \in {"unbump", "unbumpUndo"}
    /\ scimRestoreVersion(r)
    /\ IF op[r].pc = "unbump" THEN Rest(r) ELSE Goto(r, "undoGet")
    /\ UNCHANGED <<kc, row, solo, clean>>

-----------------------------------------------------------------------------
(* Keycloak: the user is read, changed and written back as a whole.        *)

\* What the request makes of the representation it has read.
Changed(r, u) ==
    CASE op[r].kind = "patch"  -> [u EXCEPT !.name = op[r].want.name, !.enabled = ~ op[r].want.disabled]
      [] op[r].kind = "delete" -> [u EXCEPT !.enabled = FALSE]
      [] op[r].kind = "mfa"    -> [u EXCEPT !.actions = @ \cup op[r].action]

\* GetUserByID; SetRequiredAction is over when the action is there.
KeycloakGet(r) ==
    /\ op[r].pc = "get"
    /\ IF op[r].kind = "mfa" /\ op[r].action \subseteq kc.actions
       THEN Rest(r)
       ELSE op' = [op EXCEPT ![r].rep = Changed(r, kc), ![r].pc = "put"]
    /\ UNCHANGED <<stores, history>>

\* UpdateUser with the whole representation.
KeycloakPut(r) ==
    /\ op[r].pc = "put"
    /\ kc' = op[r].rep
    /\ IF op[r].kind = "mfa" THEN Rest(r) ELSE Goto(r, "save")
    /\ UNCHANGED <<row, version, history>>

\* A failed call ends the request; PATCH gives its version back first.  A
\* write may have been carried out although its answer did not arrive.
KeycloakFails(r) ==
    /\ op[r].pc \in {"get", "put"}
    /\ \/ UNCHANGED <<kc, clean>>
       \/ op[r].pc = "put" /\ kc' = op[r].rep /\ clean' = FALSE
    /\ IF op[r].kind = "patch" THEN Goto(r, "unbump") ELSE Rest(r)
    /\ UNCHANGED <<row, version, holders, solo>>

\* scimRestoreKeycloakUser: the values loaded at the beginning, again by reading
\* and writing the whole user.
RestoreGet(r) ==
    /\ op[r].pc = "undoGet"
    /\ op' = [op EXCEPT ![r].rep = [kc EXCEPT !.name = op[r].read.name, !.enabled = ~ op[r].read.disabled],
                        ![r].pc = "undoPut"]
    /\ UNCHANGED <<stores, history>>

RestorePut(r) ==
    /\ op[r].pc = "undoPut"
    /\ kc' = op[r].rep
    /\ Rest(r)
    /\ UNCHANGED <<row, version, history>>

RestoreFails(r) ==
    /\ op[r].pc \in {"undoGet", "undoPut"}
    /\ Rest(r)
    /\ clean' = FALSE
    /\ UNCHANGED <<stores, holders, solo>>

-----------------------------------------------------------------------------
(* The users row.                                                          *)

\* PATCH writes every column it has read; DELETE only the flag.
Save(r) ==
    /\ op[r].pc = "save"
    /\ row' = IF op[r].kind = "patch" THEN op[r].want ELSE [row EXCEPT !.disabled = TRUE]
    /\ Rest(r)
    /\ UNCHANGED <<kc, version, history>>

\* Mutant: Keycloak keeps the new values when the row was not written.
SaveFailsQuietly(r) ==
    /\ op[r].pc = "save"
    /\ Rest(r)
    /\ UNCHANGED <<stores, history>>

\* A failed UPDATE of PATCH is compensated, one of DELETE is ignored.
SaveFails(r) ==
    /\ op[r].pc = "save"
    /\ IF op[r].kind = "patch"
       THEN /\ Goto(r, "unbumpUndo")
            /\ \/ UNCHANGED <<row, clean>>
               \/ row' = op[r].want /\ clean' = FALSE
       ELSE /\ Rest(r)
            /\ clean' = FALSE
            /\ UNCHANGED row
    /\ UNCHANGED <<kc, version, holders, solo>>

\* The replica dies in the middle of the request.
Crash(r) ==
    /\ op[r].pc \notin {"idle", "held"}
    /\ Rest(r)
    /\ clean' = FALSE
    /\ UNCHANGED <<stores, holders, solo>>

-----------------------------------------------------------------------------

Step(r) ==
    \/ Bump(r) \/ Refused(r) \/ BumpFails(r) \/ GiveBackVersion(r)
    \/ KeycloakGet(r) \/ KeycloakPut(r) \/ KeycloakFails(r)
    \/ Save(r) \/ SaveFails(r)
    \/ RestoreGet(r) \/ RestorePut(r) \/ RestoreFails(r)

UserNext == \E r \in Requests :
    \/ SCIMGetUser(r)
    \/ \E body \in Patches : SCIMPatchUser(r, body)
    \/ SCIMDeleteUser(r)
    \/ \E a \in Actions : RequireMFA(r, a)
    \/ Step(r) \/ Crash(r)

UserSpec == UserInit /\ [][UserNext]_userVars

-----------------------------------------------------------------------------
(* Properties.                                                             *)

UserTypeOK ==
    /\ kc \in User
    /\ row \in Row
    /\ version \in 0 .. MaxVersion
    /\ op \in [Requests -> [kind : {"none", "patch", "delete", "mfa"},
                  pc : {"idle", "held", "bump", "get", "put", "save", "unbump", "unbumpUndo",
                        "undoGet", "undoPut"},
                  read : Row, want : Row, seen : Versions, rep : User, action : SUBSET Actions]]
    /\ holders \in [Versions -> 0 .. 1]
    /\ solo \in BOOLEAN /\ clean \in BOOLEAN

\* A version is never held by two PATCH requests, whatever overlaps, fails,
\* dies or gives its version back: the ETag of one acknowledged change is not
\* the ETag of another one, and a version that is ahead of the stored one is
\* free.
OneHolderPerVersion ==
    /\ \A v \in Versions : holders[v] <= 1
    /\ \A v \in Versions : v > Current => holders[v] = 0

\* The lock of SCIMPatchUser implements the tickets: it hands out a version
\* only while nobody holds it, and takes back only the newest one.
Tickets == INSTANCE VersionTickets WITH current <- Current

LockIsATicketCounter == Tickets!TicketSpec

\* As long as no two requests overlap, and nothing but an answered failure
\* goes wrong, Keycloak and the users row agree after every request: a PATCH
\* whose UPDATE fails has put the old values back into Keycloak.
StoresAgree == solo /\ clean /\ Quiet => Agree

\* scim.go: "the loser gets 412 instead of silently overwriting the winner".
\* A PATCH that reaches its UPDATE finds the row as it has read it.
NoSilentOverwrite == \A r \in Requests :
    op[r].pc = "save" /\ op[r].kind = "patch" => row = op[r].read

=============================================================================
