----------------------------- MODULE Approvals ------------------------------
(***************************************************************************)
(* A request to onboard that waits for approval, and the administrators    *)
(* who decide it at the same time.  Whoever claims it runs the onboarding  *)
(* pipeline of Onboarding inside the handler (executeApprovedAction) and   *)
(* then records the outcome.                                               *)
(*                                                                         *)
(* status   approval_requests.status ("none": not submitted)               *)
(* desk     per decider: where its DecideApproval call is                  *)
(* decided  no claim or outcome of a call was left unrecorded, by a lost   *)
(*          answer, a failed UPDATE or a crash                             *)
(***************************************************************************)
EXTENDS Onboarding

CONSTANTS Deciders,    \* DecideApproval calls running at once
          Requester    \* the administrator who submitted the request

ASSUME ApprovalsAssumption ==
    Deciders \subseteq Runs /\ Deciders \cap Requests = {}

VARIABLES status, desk, decided

vars == <<account, users, nextId, run, acked, clean, status, desk, decided>>

Init ==
    /\ OnboardInit
    /\ status = "none"
    /\ desk = [d \in Deciders |-> "idle"]
    /\ decided = TRUE

-----------------------------------------------------------------------------
(* The handlers.                                                           *)

SubmitApproval ==
    /\ status = "none"
    /\ status' = "pending"
    /\ UNCHANGED <<onboardVars, desk, decided>>

\* The SELECT and the checks on what it returned: still pending, and not the
\* caller's own request.  The row is not locked.
Fetch(d) ==
    /\ desk[d] = "idle"
    /\ status = "pending"
    /\ d # Requester
    /\ desk' = [desk EXCEPT ![d] = "fetched"]
    /\ UNCHANGED <<onboardVars, status, decided>>

\* UPDATE ... SET status='rejected' WHERE status='pending'; no row is a conflict.
Reject(d) ==
    /\ desk[d] = "fetched"
    /\ status' = IF status = "pending" THEN "rejected" ELSE status
    /\ desk' = [desk EXCEPT ![d] = "idle"]
    /\ UNCHANGED <<onboardVars, decided>>

\* Mutant: the claim trusts the status that was fetched.
ClaimFetched(d) ==
    /\ desk[d] = "fetched"
    /\ status' = "executing"
    /\ desk' = [desk EXCEPT ![d] = "executing"]
    /\ Goto(d, "create", 0)
    /\ UNCHANGED <<account, users, nextId, acked, clean, decided>>

\* UPDATE ... SET status='executing' WHERE status='pending', then the pipeline
\* starts at Keycloak: this path has no lookup of the address.
Claim(d) ==
    /\ desk[d] = "fetched"
    /\ status = "pending"
    /\ status' = "executing"
    /\ desk' = [desk EXCEPT ![d] = "executing"]
    /\ Goto(d, "create", 0)
    /\ UNCHANGED <<account, users, nextId, acked, clean, decided>>

\* The UPDATE matched no row, or failed: the call ends.
ClaimRefused(d) ==
    /\ desk[d] = "fetched"
    /\ desk' = [desk EXCEPT ![d] = "idle"]
    /\ UNCHANGED <<onboardVars, status, decided>>

\* The UPDATE was applied and its answer lost: the call ends with an error.
ClaimUnanswered(d) ==
    /\ desk[d] = "fetched"
    /\ status = "pending"
    /\ status' = "executing"
    /\ desk' = [desk EXCEPT ![d] = "idle"]
    /\ decided' = FALSE
    /\ UNCHANGED onboardVars

\* Mutant: the outcome of the action is not looked at.
ApproveAnyway(d) ==
    /\ desk[d] = "executing"
    /\ run[d].pc \in {"ok", "failed"}
    /\ status' = IF status = "executing" THEN "approved" ELSE status
    /\ desk' = [desk EXCEPT ![d] = "idle"]
    /\ UNCHANGED <<onboardVars, decided>>

\* UPDATE ... SET status='approved' WHERE status='executing'.
Approve(d) ==
    /\ desk[d] = "executing"
    /\ run[d].pc = "ok"
    /\ status' = IF status = "executing" THEN "approved" ELSE status
    /\ desk' = [desk EXCEPT ![d] = "idle"]
    /\ UNCHANGED <<onboardVars, decided>>

\* The action failed: UPDATE ... SET status='pending' WHERE status='executing'.
Reset(d) ==
    /\ desk[d] = "executing"
    /\ run[d].pc = "failed"
    /\ status' = IF status = "executing" THEN "pending" ELSE status
    /\ desk' = [desk EXCEPT ![d] = "idle"]
    /\ UNCHANGED <<onboardVars, decided>>

\* Recording the outcome fails, on the request's context after a success and on
\* a fresh one after a failure; the error is logged and the call ends.
RecordFails(d) ==
    /\ desk[d] = "executing"
    /\ run[d].pc \in {"ok", "failed"}
    /\ desk' = [desk EXCEPT ![d] = "idle"]
    /\ decided' = FALSE
    /\ UNCHANGED <<onboardVars, status>>

\* The replica dies in the middle of the call.
DeskCrash(d) ==
    /\ desk[d] = "executing"
    /\ desk' = [desk EXCEPT ![d] = "idle"]
    /\ IF AtRest(d) THEN UNCHANGED onboardVars ELSE Crash(d)
    /\ decided' = FALSE
    /\ UNCHANGED status

-----------------------------------------------------------------------------

Decide(d) ==
    \/ Reject(d) \/ Claim(d) \/ ClaimRefused(d) \/ ClaimUnanswered(d)
    \/ Approve(d) \/ Reset(d) \/ RecordFails(d) \/ DeskCrash(d)

\* A step of the pipeline, for a request of its own or inside a decision.
Execute(r) == Pipeline(r) /\ UNCHANGED <<status, desk, decided>>

Next ==
    \/ SubmitApproval
    \/ \E d \in Deciders : Fetch(d) \/ Decide(d)
    \/ \E r \in Runs : Execute(r)
    \/ \E r \in Requests :
          (Onboard(r) \/ SCIMCreateUser(r) \/ Crash(r)) /\ UNCHANGED <<status, desk, decided>>

Spec == Init /\ [][Next]_vars

-----------------------------------------------------------------------------
(* Properties.                                                             *)

\* Type invariant: only a call that is executing runs the pipeline.
TypeOK ==
    /\ OnboardTypeOK
    /\ status \in {"none", "pending", "executing", "approved", "rejected"}
    /\ desk \in [Deciders -> {"idle", "fetched", "executing"}]
    /\ \A d \in Deciders : desk[d] # "executing" => AtRest(d)
    /\ decided \in BOOLEAN

\* However many administrators approve at once, one call executes the action,
\* and while it does the request is visibly claimed (DecideApproval).
OneExecution ==
    \A d \in Deciders : desk[d] = "executing" =>
       /\ status = "executing"
       /\ \A e \in Deciders : desk[e] = "executing" => e = d

\* A request is shown as approved only after its action has succeeded (the
\* comment of Migration032): the users row is the one its own execution wrote.
ApprovedMeansOnboarded ==
    status = "approved" => \E d \in Deciders : run[d].pc = "ok" /\ run[d].id = users

\* A request that is pending, also after failed attempts, or rejected has onboarded
\* nobody, however late the rejection of a second administrator arrives.
UnapprovedMeansUntouched ==
    status \in {"pending", "rejected"} => \A d \in Deciders : run[d].pc # "ok"

\* The status an administrator sees is what has happened to the two stores
\* (DecideApproval).
StatusIsTruthful == ApprovedMeansOnboarded /\ UnapprovedMeansUntouched

\* A claim without a call behind it is left only by a fault: otherwise the
\* outcome of every execution is recorded.
ClaimHasOwner ==
    decided /\ status = "executing" => \E d \in Deciders : desk[d] = "executing"

\* The inductive invariant behind the properties above.
ApprovalInv ==
    /\ TypeOK
    /\ OneExecution
    /\ ApprovedMeansOnboarded
    /\ ClaimHasOwner
    /\ UnapprovedMeansUntouched
    /\ status = "none" => \A d \in Deciders : desk[d] = "idle" /\ run[d].pc # "ok"
    /\ \A d, e \in Deciders : desk[d] = "executing" /\ run[e].pc = "ok" => d = e
    /\ \A d \in Deciders : run[d].pc = "ok" => run[d].id = users /\ users # 0

=============================================================================
