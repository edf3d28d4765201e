----------------------------- MODULE AppGrants ------------------------------
(***************************************************************************)
(* One application and one user.  Access exists twice: as a client role in *)
(* Keycloak and as a row of app_assignments.  It is given by an            *)
(* administrator (AssignApp) or by the approval of the user's request, and *)
(* taken away by an access review.  Keycloak is called between, or inside, *)
(* database transactions, and what it has done is undone when the database *)
(* fails.                                                                  *)
(*                                                                         *)
(* client     the application's client in Keycloak                         *)
(* app        its row in connected_apps                                    *)
(* grant      the user's client role in Keycloak                           *)
(* assigned   the user's row in app_assignments                            *)
(* requests   the statuses of the user's access requests (UNIQUE on        *)
(*            requester, app and status)                                   *)
(* locker     the transaction that holds the pending request               *)
(* campaign   the latest review campaign: status, the decision on the      *)
(*            user's item, and whether closing it has applied a revocation *)
(* job        per request: kind, where it is, whether it locks the         *)
(*            assignment for deletion (hit)                                *)
(* sound      no answer was lost, no compensation failed or hit another    *)
(*            request's grant, no replica died, no review has revoked      *)
(*            (history)                                                    *)
(***************************************************************************)
EXTENDS Integers, FiniteSets

CONSTANTS Admins,       \* concurrent requests
          None

VARIABLES client, app, grant, assigned, requests, locker, campaign, job, sound

grantVars == <<client, app, grant, assigned, requests, locker, campaign, job, sound>>

IdleJob == [kind |-> "none", pc |-> "idle", hit |-> FALSE]

NoCampaign == [status |-> "none", item |-> "none", applied |-> FALSE]

GrantInit ==
    /\ client = FALSE /\ app = FALSE /\ grant = FALSE /\ assigned = FALSE
    /\ requests = {} /\ locker = None
    /\ campaign = NoCampaign
    /\ job = [r \in Admins |-> IdleJob]
    /\ sound = TRUE

Start(r, kind, pc) ==
    /\ job[r].pc = "idle"
    /\ job' = [job EXCEPT ![r] = [IdleJob EXCEPT !.kind = kind, !.pc = pc]]

At(r, pc) == job[r].pc = pc

Move(r, pc) == job' = [job EXCEPT ![r].pc = pc]

\* The request is over; an open transaction is rolled back or committed.
Finish(r) ==
    /\ job' = [job EXCEPT ![r] = IdleJob]
    /\ locker' = IF locker = r THEN None ELSE locker

-----------------------------------------------------------------------------
(* CreateApp and CreateAppFromTemplate: the client, then the row.          *)

CreateApp(r) ==
    /\ Start(r, "create", "client")
    /\ UNCHANGED <<client, app, grant, assigned, requests, locker, campaign, sound>>

\* It checks the fields its template asks for, and goes on the same way.
CreateAppFromTemplate(r) == CreateApp(r)

\* CreateClient fails when the client exists, or for any other reason; its
\* answer may be lost.
CreateClient(r) ==
    /\ At(r, "client")
    /\ \/ ~ client /\ client' = TRUE /\ Move(r, "store") /\ UNCHANGED <<locker, sound>>
       \/ Finish(r) /\ UNCHANGED <<client, sound>>
       \/ ~ client /\ client' = TRUE /\ Finish(r) /\ sound' = FALSE
    /\ UNCHANGED <<app, grant, assigned, requests, campaign>>

StoreApp(r) ==
    /\ At(r, "store")
    /\ \/ app' = TRUE /\ Finish(r) /\ UNCHANGED sound
       \/ Move(r, "cleanup") /\ UNCHANGED <<app, locker, sound>>
       \/ app' = TRUE /\ Move(r, "cleanup") /\ sound' = FALSE /\ UNCHANGED locker
    /\ UNCHANGED <<client, grant, assigned, requests, campaign>>

\* The deferred DeleteClient, on a context of its own.
CleanupClient(r) ==
    /\ At(r, "cleanup")
    /\ \/ client' = FALSE /\ UNCHANGED sound
       \/ sound' = FALSE /\ UNCHANGED client
    /\ Finish(r)
    /\ UNCHANGED <<app, grant, assigned, requests, campaign>>

-----------------------------------------------------------------------------
(* Access is given.                                                        *)

\* AssignApp up to the Keycloak call.
AssignApp(r) ==
    /\ app /\ Start(r, "assign", "grant")
    /\ UNCHANGED <<client, app, grant, assigned, requests, locker, campaign, sound>>

\* INSERT ... ON CONFLICT (requester_id, app_id, status) DO NOTHING; the
\* insert waits for a transaction that is deciding the pending request.
PortalRequestAccess ==
    /\ app /\ locker = None /\ "pending" \notin requests
    /\ requests' = requests \cup {"pending"}
    /\ UNCHANGED <<client, app, grant, assigned, locker, campaign, job, sound>>

\* Mutant: the status is read, but the row is not locked.
DecideUnlocked(r, decision) ==
    /\ "pending" \in requests /\ decision \notin requests
    /\ Start(r, decision, IF decision = "approved" THEN "grant" ELSE "commit")
    /\ UNCHANGED <<client, app, grant, assigned, requests, locker, campaign, sound>>

\* UPDATE ... WHERE status = 'pending' takes the row for the transaction; it
\* fails (404) when the user has another request with that status already.
AdminDecideAccessRequest(r, decision) ==
    /\ locker = None /\ "pending" \in requests /\ decision \notin requests
    /\ Start(r, decision, IF decision = "approved" THEN "grant" ELSE "commit")
    /\ locker' = r
    /\ UNCHANGED <<client, app, grant, assigned, requests, campaign, sound>>

\* AssignUserToClient; a failure ends the request and rolls back, the answer
\* may be lost.
AssignUserToClient(r) ==
    /\ At(r, "grant")
    /\ \/ grant' = TRUE /\ Move(r, "commit") /\ UNCHANGED <<locker, sound>>
       \/ Finish(r) /\ UNCHANGED <<grant, sound>>
       \/ grant' = TRUE /\ Finish(r) /\ sound' = FALSE
    /\ UNCHANGED <<client, app, assigned, requests, campaign>>

\* What the transaction writes: the assignment (ON CONFLICT DO NOTHING) and,
\* for a decision, the status.
Record(r) ==
    /\ assigned' = (assigned \/ job[r].kind \in {"assign", "approved"})
    /\ requests' = IF job[r].kind = "assign" THEN requests
                   ELSE (requests \ {"pending"}) \cup {job[r].kind}

\* The rest of the transaction.  The insert waits for a transaction that has
\* deleted the assignment; apart from that the transaction is one step, since
\* nothing else of it can be seen before its commit.
CommitGrant(r) ==
    /\ At(r, "commit")
    /\ job[r].kind \in {"assign", "approved"} => \A q \in Admins : ~ job[q].hit
    /\ Record(r)
    /\ Finish(r)
    /\ UNCHANGED <<client, app, grant, campaign, sound>>

\* The transaction fails.  What Keycloak has granted is undone, except by
\* AssignApp when the insert had found the row; a commit may have been carried
\* out although its answer was lost.
CommitFails(r) ==
    /\ At(r, "commit")
    /\ \/ UNCHANGED <<assigned, requests, sound>>
       \/ (\A q \in Admins : ~ job[q].hit) /\ Record(r) /\ sound' = FALSE
    /\ \/ job[r].kind \in {"assign", "approved"} /\ job' = [job EXCEPT ![r].pc = "undo"]
       \/ /\ job[r].kind = "rejected" \/ (job[r].kind = "assign" /\ assigned)
          /\ job' = [job EXCEPT ![r] = IdleJob]
    /\ locker' = IF locker = r THEN None ELSE locker
    /\ UNCHANGED <<client, app, grant, campaign>>

\* compensateAppAssignment: the role is taken away, whoever else has given it.
compensateAppAssignment(r) ==
    /\ At(r, "undo")
    /\ \/ /\ grant' = FALSE
          /\ sound' = (sound /\ ~ assigned /\ \A q \in Admins : ~ At(q, "commit"))
       \/ sound' = FALSE /\ UNCHANGED grant
    /\ Finish(r)
    /\ UNCHANGED <<client, app, assigned, requests, campaign>>

-----------------------------------------------------------------------------
(* Access reviews.                                                         *)

\* CreateCampaign and fireReviewSchedule: one transaction, an item per
\* assignment of the organisation.
CreateCampaign ==
    /\ campaign.status # "open"
    /\ campaign' = [status |-> "open", item |-> IF assigned THEN "undecided" ELSE "none",
                    applied |-> FALSE]
    /\ UNCHANGED <<client, app, grant, assigned, requests, locker, job, sound>>

\* One UPDATE ... WHERE decision IS NULL, whatever the status of the campaign.
DecideCampaignItem(d) ==
    /\ campaign.item = "undecided"
    /\ campaign' = [campaign EXCEPT !.item = d]
    /\ UNCHANGED <<client, app, grant, assigned, requests, locker, job, sound>>

\* CompleteCampaign: the revoked assignments are deleted ...
CompleteCampaign(r) ==
    /\ campaign.status # "none" /\ \A q \in Admins : ~ job[q].hit
    /\ job[r].pc = "idle"
    /\ job' = [job EXCEPT ![r] = [kind |-> "complete", pc |-> "close",
                                  hit |-> assigned /\ campaign.item = "revoke"]]
    /\ UNCHANGED <<client, app, grant, assigned, requests, locker, campaign, sound>>

\* ... and the campaign is closed if it is open; both become visible together,
\* or neither (404, a failure).  Keycloak is not told.
CloseCampaign(r) ==
    /\ At(r, "close")
    /\ \/ /\ campaign.status = "open"
          /\ campaign' = [campaign EXCEPT !.status = "completed", !.applied = job[r].hit]
          /\ assigned' = (assigned /\ ~ job[r].hit)
          /\ sound' = (sound /\ ~ job[r].hit)
       \/ UNCHANGED <<campaign, assigned, sound>>
    /\ Finish(r)
    /\ UNCHANGED <<client, app, grant, requests>>

-----------------------------------------------------------------------------

\* The replica dies; the database rolls its transaction back.
Dies(r) ==
    /\ job[r].pc # "idle"
    /\ Finish(r)
    /\ sound' = FALSE
    /\ UNCHANGED <<client, app, grant, assigned, requests, campaign>>

GrantNext ==
    \/ PortalRequestAccess \/ CreateCampaign
    \/ \E d \in {"confirm", "revoke"} : DecideCampaignItem(d)
    \/ \E r \in Admins :
        \/ CreateApp(r) \/ CreateAppFromTemplate(r)
        \/ CreateClient(r) \/ StoreApp(r) \/ CleanupClient(r)
        \/ AssignApp(r) \/ AssignUserToClient(r) \/ CommitGrant(r) \/ CommitFails(r)
        \/ compensateAppAssignment(r)
        \/ \E d \in {"approved", "rejected"} : AdminDecideAccessRequest(r, d)
        \/ CompleteCampaign(r) \/ CloseCampaign(r) \/ Dies(r)

-----------------------------------------------------------------------------
(* Properties.                                                             *)

\* Type invariant, with the statuses the tables' CHECK constraints allow.
GrantTypeOK ==
    /\ client \in BOOLEAN /\ app \in BOOLEAN /\ grant \in BOOLEAN /\ assigned \in BOOLEAN
    /\ requests \subseteq {"pending", "approved", "rejected"}
    /\ locker \in Admins \cup {None}
    /\ campaign \in [status : {"none", "open", "completed"},
                     item : {"none", "undecided", "confirm", "revoke"}, applied : BOOLEAN]
    /\ job \in [Admins -> [kind : {"none", "create", "assign", "approved", "rejected", "complete"},
                    pc : {"idle", "client", "store", "cleanup", "grant", "commit", "undo", "close"},
                    hit : BOOLEAN]]
    /\ sound \in BOOLEAN

\* Without a lost answer, a failed or crossing compensation, a crash or a
\* revocation, Keycloak and the database agree after every request: on the
\* application, and on the user's access to it.
AccessAgrees == sound /\ (\A r \in Admins : job[r].pc = "idle") => client = app /\ grant = assigned

\* A request is decided by one administrator at a time, and stays pending until
\* that decision is committed.
OneDecider ==
    LET Deciders == {r \in Admins : job[r].kind \in {"approved", "rejected"}
                                    /\ job[r].pc \in {"grant", "commit"}}
    IN Cardinality(Deciders) <= 1 /\ (Deciders # {} => "pending" \in requests)

\* Keycloak's roles and the tables agree, and one decision at a time makes them
\* (AssignApp, AdminDecideAccessRequest, CompleteCampaign).
GrantsAreSound == AccessAgrees /\ OneDecider

\* access_review.go: "so the campaign cannot close with unapplied revoke
\* decisions".
NoUnappliedRevoke ==
    campaign.status = "completed" /\ campaign.item = "revoke" => campaign.applied

=============================================================================
