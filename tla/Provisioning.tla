---------------------------- MODULE Provisioning ----------------------------
(***************************************************************************)
(* The outbound provisioning engine (backend/internal/provisioning) for    *)
(* one pair of an app and a user: the row of provisioning_state, the       *)
(* account in the downstream application, and the workers (request and     *)
(* background goroutines of any replica) that run ProvisionUser,           *)
(* DeprovisionUser, SyncGroupMembership and ReconcileAll on it.  No        *)
(* operation holds a lock or a transaction across its remote call.         *)
(***************************************************************************)
EXTENDS Naturals, FiniteSets

CONSTANTS Workers,
          RetryBound,  \* bound of the model on retry_count
          MaxCuts      \* bound of the model on operations that end early

maxRetries == 3

ASSUME ProvisioningAssumption == RetryBound \in Nat /\ RetryBound > maxRetries /\ MaxCuts \in Nat

VARIABLES
    row,      \* provisioning_state: status, remote (remote_id is set), retry (retry_count),
              \* due (next_retry_at is NULL or past), stale (last_sync_at NULL or a day old)
    account,  \* the downstream account
    op,       \* per worker: the operation it is in and what it has read
    cuts,     \* operations that ended early so far
    clean     \* history: operations never overlapped and no answer was lost

vars == <<row, account, op, cuts, clean>>

\* An operation that has read nothing yet.
Fresh(kind, pc) == [kind |-> kind, pc |-> pc, status |-> "none", remote |-> FALSE, retry |-> 0]

NoOp == Fresh("none", "idle")

Statuses == {"none", "pending", "provisioned", "deprovisioned", "error", "permanent_error"}

Init ==
    /\ row = [status |-> "none", remote |-> FALSE, retry |-> 0, due |-> TRUE, stale |-> TRUE]
    /\ account = "absent"
    /\ op = [w \in Workers |-> NoOp]
    /\ cuts = 0
    /\ clean = TRUE

Busy == {w \in Workers : op[w].pc # "idle"}

\* An operation starts on worker w in step pc.
Begin(w, kind, pc) ==
    /\ op[w].pc = "idle"
    /\ row.retry < RetryBound
    /\ op' = [op EXCEPT ![w] = Fresh(kind, pc)]
    /\ clean' = (clean /\ Busy = {})
    /\ UNCHANGED cuts

\* ProvisionUser (onboarding, manual resync): the upsert keeps 'provisioned' and
\* turns any other status to 'pending'.
ProvisionUser(w) ==
    /\ Begin(w, "provision", "read")
    /\ row' = [row EXCEPT !.status = IF @ = "provisioned" THEN @ ELSE "pending"]
    /\ UNCHANGED account

\* Offboarding asks for the user's 'provisioned' rows and deprovisions each.
DeprovisionUser(w) ==
    /\ row.status = "provisioned"
    /\ Begin(w, "deprovision", "read")
    /\ UNCHANGED <<row, account>>

\* A change of group membership is pushed to a provisioned account.
SyncGroupMembership(w) ==
    /\ row.status = "provisioned" /\ row.remote
    /\ Begin(w, "sync", "call")
    /\ UNCHANGED <<row, account>>

\* The reconcile-all request of this app (own) or another: it makes the app's
\* error and pending rows due, then starts ReconcileAll in the background.
ReconcileAllHandler(w, own) ==
    /\ Begin(w, "reconcile", "read")
    /\ row' = [row EXCEPT !.due = @ \/ (own /\ row.status \in {"error", "pending"})]
    /\ UNCHANGED account

\* The rows ReconcileAll selects.
Selected == \/ row.status = "error" /\ row.due
            \/ row.status = "provisioned" /\ row.stale

\* The operation reads the row.  Deprovisioning an account that has no remote id
\* is recorded without a call; a row reconciliation does not select is left.
ReadState(w) ==
    LET o == op[w]
        skip == o.kind = "deprovision" /\ ~row.remote
        over == skip \/ (o.kind = "reconcile" /\ ~Selected)
    IN
    /\ o.pc = "read"
    /\ row' = IF skip THEN [row EXCEPT !.status = "deprovisioned"] ELSE row
    /\ op' = [op EXCEPT ![w] = IF over THEN NoOp
                               ELSE [o EXCEPT !.pc = "call", !.status = row.status,
                                              !.remote = row.remote, !.retry = row.retry]]
    /\ UNCHANGED <<account, cuts, clean>>

\* Which request the operation sends: PATCH active=false, a PATCH that leaves
\* the account's existence alone, or a POST that creates the account.
Request(o) ==
    IF o.kind = "deprovision" THEN "deactivate"
    ELSE IF o.kind = "sync" \/ (o.status = "provisioned" /\ (o.remote \/ o.kind = "reconcile")) THEN "update"
    ELSE "create"

\* What an application does with a request it carries out.  A POST for an
\* existing user reactivates the account where the application accepts it.
Applied(request) ==
    CASE request = "deactivate" -> "inactive"
      [] request = "create" -> "active"
      [] OTHER -> account

\* Mutant: the connector's error is swallowed.
CallIgnoresError(w, answer) ==
    /\ op[w].pc = "call"
    /\ account' = IF answer = "refused" THEN account ELSE Applied(Request(op[w]))
    /\ op' = [op EXCEPT ![w].pc = "ok"]
    /\ clean' = (clean /\ answer # "lost")
    /\ UNCHANGED <<row, cuts>>

\* The connector's request: carried out and answered, refused, or carried out
\* with the answer lost (a timeout).  reconcileOne makes no call once the
\* retries are used up.
Call(w, answer) ==
    LET o == op[w]
        giveUp == o.kind = "reconcile" /\ o.status = "error" /\ o.retry >= maxRetries
    IN
    /\ o.pc = "call"
    /\ account' = IF giveUp \/ answer = "refused" THEN account ELSE Applied(Request(o))
    /\ op' = [op EXCEPT ![w].pc = IF giveUp THEN "giveUp" ELSE IF answer = "ok" THEN "ok" ELSE "failed"]
    /\ clean' = (clean /\ answer # "lost")
    /\ UNCHANGED <<row, cuts>>

\* The operation went through: its final UPDATE, whatever the row says by now.
\* A group sync and a periodic re-sync only refresh last_sync_at.
Succeed(w) ==
    LET o == op[w]
        refresh == o.kind = "sync" \/ (o.kind = "reconcile" /\ o.status = "provisioned")
    IN
    /\ o.pc = "ok"
    /\ row' = IF refresh THEN [row EXCEPT !.stale = FALSE]
              ELSE IF o.kind = "deprovision"
              THEN [row EXCEPT !.status = "deprovisioned", !.retry = 0, !.due = TRUE, !.stale = FALSE]
              ELSE [status |-> "provisioned", remote |-> TRUE, retry |-> 0, due |-> TRUE, stale |-> FALSE]
    /\ op' = [op EXCEPT ![w] = NoOp]
    /\ UNCHANGED <<account, cuts, clean>>

\* recordError reads retry_count; reconcileOne keeps the count it selected, and
\* a failed group sync or periodic re-sync leaves the row alone.
ReadRetryCount(w) ==
    LET o == op[w] IN
    /\ o.pc = "failed"
    /\ row.retry < RetryBound
    /\ op' = [op EXCEPT ![w] = IF o.kind = "sync" \/ (o.kind = "reconcile" /\ o.status = "provisioned") THEN NoOp
                               ELSE IF o.kind = "reconcile" THEN [o EXCEPT !.pc = "record"]
                               ELSE [o EXCEPT !.pc = "record", !.retry = row.retry]]
    /\ UNCHANGED <<row, account, cuts, clean>>

\* Mutant: a failed attempt is recorded with the count it started from.
RecordErrorUncounted(w) ==
    /\ op[w].pc = "record"
    /\ row' = [row EXCEPT !.status = "error", !.retry = op[w].retry, !.due = FALSE]
    /\ op' = [op EXCEPT ![w] = NoOp]
    /\ UNCHANGED <<account, cuts, clean>>

\* The failure is recorded: 'error' with a backoff, or 'permanent_error' at
\* maxRetries.  reconcileOne's last failure leaves next_retry_at alone.
recordError(w) ==
    LET o == op[w]
        count == IF o.pc = "giveUp" THEN row.retry ELSE o.retry + 1
        over == o.pc = "giveUp" \/ count >= maxRetries
    IN
    /\ o.pc \in {"record", "giveUp"}
    /\ row' = [row EXCEPT !.status = IF over THEN "permanent_error" ELSE "error",
                          !.retry = count,
                          !.due = IF over /\ o.kind = "reconcile" THEN @ ELSE FALSE]
    /\ op' = [op EXCEPT ![w] = NoOp]
    /\ UNCHANGED <<account, cuts, clean>>

\* The operation ends early: a statement fails, its context expires, or the
\* process dies.  Nothing resumes it.
Abandon(w) ==
    /\ op[w].pc # "idle" /\ cuts < MaxCuts
    /\ op' = [op EXCEPT ![w] = NoOp]
    /\ cuts' = cuts + 1
    /\ UNCHANGED <<row, account, clean>>

\* Time passes: a backoff ends, a last_sync_at gets a day old.
TimePasses ==
    /\ row.status # "none"
    /\ row' = [row EXCEPT !.due = TRUE, !.stale = TRUE]
    /\ UNCHANGED <<account, op, cuts, clean>>

Work(w) == ReadState(w) \/ (\E a \in {"ok", "refused", "lost"} : Call(w, a))
           \/ Succeed(w) \/ ReadRetryCount(w) \/ recordError(w)

Start(w) == ProvisionUser(w) \/ DeprovisionUser(w) \/ SyncGroupMembership(w)
            \/ (\E own \in BOOLEAN : ReconcileAllHandler(w, own))

Next == TimePasses \/ \E w \in Workers : Start(w) \/ Work(w) \/ Abandon(w)

Spec == Init /\ [][Next]_vars

(***************************************************************************)
(* The workers run, operations end early only finitely often, and an       *)
(* operator keeps asking for reconciliation (nothing else calls            *)
(* ReconcileAll).                                                          *)
(***************************************************************************)
FairSpec ==
    /\ Spec
    /\ \A w \in Workers : WF_vars(Work(w)) /\ SF_vars(ReconcileAllHandler(w, TRUE))

-----------------------------------------------------------------------------
(* Properties.                                                             *)

\* Type invariant; a provisioned row always carries the remote id that
\* deprovisioning needs.
TypeOK ==
    /\ row \in [status : Statuses, remote : BOOLEAN, retry : 0 .. RetryBound, due : BOOLEAN, stale : BOOLEAN]
    /\ account \in {"absent", "active", "inactive"}
    /\ op \in [Workers -> [kind : {"none", "provision", "deprovision", "sync", "reconcile"},
                           pc : {"idle", "read", "call", "ok", "failed", "record", "giveUp"},
                           status : Statuses, remote : BOOLEAN, retry : 0 .. RetryBound]]
    /\ cuts \in 0 .. MaxCuts /\ clean \in BOOLEAN
    /\ row.status = "provisioned" => row.remote

\* A row in 'error' still has retries left, under any interleaving of the
\* read-then-write of retry_count: no row waits for a retry that ReconcileAll
\* would refuse, and no reader sees one that should be 'permanent_error'.
ErrorHasRetriesLeft == row.status = "error" => row.retry < maxRetries

\* The row tells the truth about the account while operations do not overlap and
\* none is cut short between its remote call and its UPDATE.
RowAgreesWithAccount ==
    clean /\ cuts = 0 /\ Busy = {} =>
        /\ row.status = "provisioned" => account = "active"
        /\ row.status = "deprovisioned" => account # "active"

\* Retrying ends: while reconciliation is asked for, an errored row becomes
\* provisioned or permanent_error in the end; overlapping reconciliations that
\* write back stale counters cannot keep it in 'error' for ever.
ErrorResolves == row.status = "error" ~> row.status # "error"

\* "ReconcileAllHandler triggers reconciliation for all error/pending
\* provisioning records for an app" (handlers/provisioning.go:544): a pending row
\* does not stay pending while reconciliation is asked for again and again.
PendingReconciled == row.status = "pending" ~> row.status # "pending"

-----------------------------------------------------------------------------
(* The inductive invariant.                                                *)

\* An operation o never records a count beyond the bound, and reconciliation
\* works on rows it selected.
OpOK(o) ==
    /\ o.pc = "record" => o.retry < RetryBound
    /\ o.kind = "reconcile" /\ o.pc \in {"call", "ok", "failed", "record"} =>
          (o.status = "error" /\ o.retry < maxRetries) \/ o.status = "provisioned"
    /\ o.kind = "reconcile" /\ o.pc = "record" => o.status = "error"
    /\ o.kind = "sync" => o.pc \in {"call", "ok", "failed"}
    /\ o.kind = "none" => o.pc = "idle"
    /\ o.pc # "giveUp"

Truth(status, a) ==
    /\ status = "provisioned" => a = "active"
    /\ status = "deprovisioned" => a # "active"

\* What an operation o that runs alone knows of the row's status and the account:
\* between a remote call and the UPDATE that records it, o accounts for the gap.
SoloOK(o, status, a) ==
    /\ ~(o.kind = "deprovision" /\ o.pc = "ok") => Truth(status, a)
    /\ o.kind = "deprovision" /\ o.pc \in {"read", "call"} => status = "provisioned"
    /\ o.kind = "provision" /\ o.pc \in {"read", "call"} => status \in {"pending", "provisioned"}
    /\ o.kind = "deprovision" /\ o.pc = "ok" => a = "inactive"
    /\ o.kind \in {"provision", "reconcile"} /\ o.pc = "call" => o.status = status
    /\ o.pc = "ok" /\ o.kind = "provision" => a = "active"
    /\ o.pc = "ok" /\ o.kind = "reconcile" => a = "active"

ProvInv ==
    /\ TypeOK /\ ErrorHasRetriesLeft
    /\ \A w \in Workers : OpOK(op[w]) /\ (op[w].pc = "idle" <=> op[w] = NoOp)
    /\ clean /\ cuts = 0 =>
          /\ \A v, w \in Workers : op[v].pc # "idle" /\ op[w].pc # "idle" => v = w
          /\ (\A w \in Workers : op[w].pc = "idle") => Truth(row.status, account)
          /\ \A w \in Workers : op[w].pc # "idle" => SoloOK(op[w], row.status, account)

=============================================================================
