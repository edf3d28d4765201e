------------------------- MODULE ProvisioningProofs -------------------------
(***************************************************************************)
(* Proofs about Provisioning, for any set of workers and any bounds.       *)
(***************************************************************************)
EXTENDS Provisioning, TLAPS

Rows == [status : Statuses, remote : BOOLEAN, retry : 0 .. RetryBound, due : BOOLEAN, stale : BOOLEAN]

Ops == [kind : {"none", "provision", "deprovision", "sync", "reconcile"},
        pc : {"idle", "read", "call", "ok", "failed", "record", "giveUp"},
        status : Statuses, remote : BOOLEAN, retry : 0 .. RetryBound]

Accounts == {"absent", "active", "inactive"}

\* A row that may be stored.
RowOK(x) == /\ x \in Rows
            /\ x.status = "provisioned" => x.remote
            /\ x.status = "error" => x.retry < maxRetries

\* An operation's record in any of its states.
StepOK(t) == t \in Ops /\ OpOK(t) /\ (t.pc = "idle" <=> t = NoOp)

\* While nothing has gone wrong, t runs alone and accounts for row x and account a.
AloneOK(t, x, a) == IF t.pc = "idle" THEN Truth(x.status, a) ELSE SoloOK(t, x.status, a)

Alone(w) == \A v \in Workers : v # w => op[v].pc = "idle"

\* What the invariant says about one worker's operation.
LEMMA InvAt ==
    ASSUME ProvInv, NEW w \in Workers
    PROVE  /\ RowOK(row) /\ account \in Accounts /\ StepOK(op[w])
           /\ op \in [Workers -> Ops]
           /\ clean /\ cuts = 0 /\ op[w].pc # "idle" => Alone(w) /\ SoloOK(op[w], row.status, account)
  <1>1. RowOK(row) /\ account \in Accounts /\ op \in [Workers -> Ops]
    BY DEF ProvInv, TypeOK, ErrorHasRetriesLeft, RowOK, Rows, Ops, Accounts
  <1>2. StepOK(op[w])
    BY <1>1 DEF ProvInv, StepOK
  <1>3. clean /\ cuts = 0 /\ op[w].pc # "idle" => Alone(w) /\ SoloOK(op[w], row.status, account)
    BY DEF ProvInv, Alone
  <1> QED
    BY <1>1, <1>2, <1>3

\* A step that replaces one worker's operation keeps the invariant if the new
\* row and operation are in order and, while clean, account for the account.
LEMMA StepKeeps ==
    ASSUME ProvInv, NEW w \in Workers, NEW t, StepOK(t),
           op' = [op EXCEPT ![w] = t],
           RowOK(row'), account' \in Accounts, clean' \in BOOLEAN, cuts' \in 0 .. MaxCuts,
           clean' /\ cuts' = 0 => Alone(w) /\ AloneOK(t, row', account')
    PROVE  ProvInv'
  <1>1. op \in [Workers -> Ops] /\ op' \in [Workers -> Ops]
    BY InvAt DEF StepOK
  <1>2. TypeOK' /\ ErrorHasRetriesLeft'
    BY <1>1 DEF TypeOK, ErrorHasRetriesLeft, RowOK, Rows, Ops, Accounts
  <1>3. ASSUME NEW v \in Workers PROVE op'[v] = IF v = w THEN t ELSE op[v]
    BY <1>1
  <1>4. ASSUME NEW v \in Workers PROVE OpOK(op'[v]) /\ (op'[v].pc = "idle" <=> op'[v] = NoOp)
    BY <1>3 DEF StepOK, ProvInv
  <1>5. ASSUME clean', cuts' = 0
        PROVE  /\ \A u, v \in Workers : op'[u].pc # "idle" /\ op'[v].pc # "idle" => u = v
               /\ (\A v \in Workers : op'[v].pc = "idle") => Truth(row'.status, account')
               /\ \A v \in Workers : op'[v].pc # "idle" => SoloOK(op'[v], row'.status, account')
    <2>1. Alone(w) /\ AloneOK(t, row', account')
      BY <1>5
    <2>2. \A v \in Workers : op'[v].pc # "idle" => v = w
      BY <1>3, <2>1 DEF Alone
    <2>3. op'[w] = t
      BY <1>3
    <2> QED
      BY <2>1, <2>2, <2>3 DEF AloneOK
  <1>6. \A v \in Workers : (OpOK(op[v]) /\ (op[v].pc = "idle" <=> op[v] = NoOp))'
    BY <1>4 DEF OpOK, NoOp, Fresh
  <1>7. (clean /\ cuts = 0 =>
          /\ \A v, u \in Workers : op[v].pc # "idle" /\ op[u].pc # "idle" => v = u
          /\ (\A v \in Workers : op[v].pc = "idle") => Truth(row.status, account)
          /\ \A v \in Workers : op[v].pc # "idle" => SoloOK(op[v], row.status, account))'
    BY <1>5 DEF SoloOK, Truth
  <1> QED
    BY <1>2, <1>6, <1>7 DEF ProvInv

\* The initial state.
LEMMA ProvInit == Init => ProvInv
  BY ProvisioningAssumption
  DEF Init, ProvInv, TypeOK, ErrorHasRetriesLeft, OpOK, Truth, SoloOK, NoOp, Fresh, Statuses, maxRetries

\* Starting an operation: it is alone only if nothing else was running, and then
\* the row was telling the truth.
LEMMA BeginOK ==
    ASSUME ProvInv, NEW w \in Workers, NEW kind, NEW pc, Begin(w, kind, pc)
    PROVE  /\ op' = [op EXCEPT ![w] = Fresh(kind, pc)]
           /\ clean' \in BOOLEAN /\ cuts' = cuts /\ cuts' \in 0 .. MaxCuts
           /\ clean' /\ cuts' = 0 => Alone(w) /\ Truth(row.status, account)
  <1>1. clean \in BOOLEAN /\ cuts \in 0 .. MaxCuts
    BY DEF ProvInv, TypeOK
  <1>2. Busy = {} => \A v \in Workers : op[v].pc = "idle"
    BY DEF Busy
  <1> QED
    BY <1>1, <1>2 DEF Begin, ProvInv, Alone

\* So a step that begins an operation keeps the invariant if the operation, seen
\* on its own, accounts for the row it leaves.
LEMMA BeginKeeps ==
    ASSUME ProvInv, NEW w \in Workers, NEW kind, NEW pc, Begin(w, kind, pc), pc # "idle",
           StepOK(Fresh(kind, pc)), RowOK(row'), account' = account,
           Truth(row.status, account) => SoloOK(Fresh(kind, pc), row'.status, account)
    PROVE  ProvInv'
  <1>1. Fresh(kind, pc).pc # "idle"
    BY DEF Fresh
  <1>2. account' \in Accounts
    BY InvAt
  <1> QED
    BY <1>1, <1>2, BeginOK, StepKeeps DEF AloneOK

LEMMA FreshOK ==
    ASSUME NEW kind \in {"provision", "deprovision", "reconcile"}
    PROVE  StepOK(Fresh(kind, "read"))
  <1> DEFINE t == Fresh(kind, "read")
  <1>1. t.kind = kind /\ t.pc = "read"
    BY DEF Fresh
  <1>2. t \in Ops
    BY ProvisioningAssumption DEF Fresh, Ops, Statuses, maxRetries
  <1>3. OpOK(t)
    BY <1>1 DEF OpOK
  <1>4. t # NoOp
    BY <1>1 DEF NoOp, Fresh
  <1> QED
    BY <1>1, <1>2, <1>3, <1>4 DEF StepOK

LEMMA FreshSyncOK == StepOK(Fresh("sync", "call"))
  <1> DEFINE t == Fresh("sync", "call")
  <1>1. t.kind = "sync" /\ t.pc = "call"
    BY DEF Fresh
  <1>2. t \in Ops
    BY ProvisioningAssumption DEF Fresh, Ops, Statuses, maxRetries
  <1>3. OpOK(t)
    BY <1>1 DEF OpOK
  <1>4. t # NoOp
    BY <1>1 DEF NoOp, Fresh
  <1> QED
    BY <1>1, <1>2, <1>3, <1>4 DEF StepOK

LEMMA StartStep ==
    ASSUME ProvInv, NEW w \in Workers, Start(w)
    PROVE  ProvInv'
  <1>1. RowOK(row) /\ account \in Accounts
    BY InvAt
  <1>3. CASE ProvisionUser(w)
    <2>1. Begin(w, "provision", "read")
      BY <1>3 DEF ProvisionUser
    <2>2. RowOK(row') /\ account' = account
      BY <1>1, <1>3 DEF ProvisionUser, RowOK, Rows, Statuses
    <2>3. Truth(row.status, account) => SoloOK(Fresh("provision", "read"), row'.status, account)
      BY <1>1, <1>3 DEF ProvisionUser, RowOK, Rows, SoloOK, Truth, Fresh
    <2> QED
      BY <2>1, <2>2, <2>3, FreshOK, BeginKeeps
  <1>4. CASE DeprovisionUser(w)
    <2>1. Begin(w, "deprovision", "read") /\ row' = row /\ account' = account /\ row.status = "provisioned"
      BY <1>4 DEF DeprovisionUser
    <2>2. Truth(row.status, account) => SoloOK(Fresh("deprovision", "read"), row'.status, account)
      BY <2>1 DEF SoloOK, Truth, Fresh
    <2> QED
      BY <1>1, <2>1, <2>2, FreshOK, BeginKeeps
  <1>5. CASE SyncGroupMembership(w)
    <2>1. Begin(w, "sync", "call") /\ row' = row /\ account' = account
      BY <1>5 DEF SyncGroupMembership
    <2>2. Truth(row.status, account) => SoloOK(Fresh("sync", "call"), row'.status, account)
      BY <2>1 DEF SoloOK, Truth, Fresh
    <2> QED
      BY <1>1, <2>1, <2>2, FreshSyncOK, BeginKeeps
  <1>6. ASSUME NEW own \in BOOLEAN, ReconcileAllHandler(w, own) PROVE ProvInv'
    <2>1. Begin(w, "reconcile", "read")
      BY <1>6 DEF ReconcileAllHandler
    <2>2. RowOK(row') /\ row'.status = row.status /\ account' = account
      BY <1>1, <1>6 DEF ReconcileAllHandler, RowOK, Rows
    <2>3. Truth(row.status, account) => SoloOK(Fresh("reconcile", "read"), row'.status, account)
      BY <2>2 DEF SoloOK, Truth, Fresh
    <2> QED
      BY <2>1, <2>2, <2>3, FreshOK, BeginKeeps
  <1> QED
    BY <1>3, <1>4, <1>5, <1>6 DEF Start

\* The steps of a running operation: the new record t, and the row.
LEMMA WorkStep ==
    ASSUME ProvInv, NEW w \in Workers, Work(w)
    PROVE  ProvInv'
  <1> DEFINE o == op[w]
  <1>1. /\ RowOK(row) /\ account \in Accounts /\ StepOK(o) /\ op \in [Workers -> Ops]
        /\ clean /\ cuts = 0 /\ o.pc # "idle" => Alone(w) /\ SoloOK(o, row.status, account)
    BY InvAt
  <1>2. clean \in BOOLEAN /\ cuts \in 0 .. MaxCuts
    BY DEF ProvInv, TypeOK
  <1>3. StepOK(NoOp) /\ NoOp.pc = "idle"
    BY ProvisioningAssumption DEF StepOK, Ops, OpOK, NoOp, Fresh, Statuses, maxRetries
  <1>4. CASE ReadState(w)
    <2>1. o.pc = "read" /\ account' = account /\ cuts' = cuts /\ clean' = clean
      BY <1>4 DEF ReadState
    <2>2. CASE o.kind = "deprovision" /\ ~row.remote
      <3>1. row' = [row EXCEPT !.status = "deprovisioned"] /\ op' = [op EXCEPT ![w] = NoOp]
        BY <1>4, <2>2 DEF ReadState
      <3>2. RowOK(row')
        BY <1>1, <3>1 DEF RowOK, Rows, Statuses
      <3>3. ~(clean /\ cuts = 0)
        BY <1>1, <2>1, <2>2 DEF SoloOK, RowOK
      <3> QED
        BY <1>1, <1>2, <1>3, <2>1, <3>1, <3>2, <3>3, StepKeeps
    <2>3. CASE o.kind = "reconcile" /\ ~Selected
      <3>1. row' = row /\ op' = [op EXCEPT ![w] = NoOp]
        BY <1>4, <2>3 DEF ReadState
      <3>2. clean /\ cuts = 0 => Truth(row.status, account)
        BY <1>1, <2>1 DEF SoloOK
      <3> QED
        BY <1>1, <1>2, <1>3, <2>1, <3>1, <3>2, StepKeeps DEF AloneOK
    <2>4. CASE ~(o.kind = "deprovision" /\ ~row.remote) /\ ~(o.kind = "reconcile" /\ ~Selected)
      <3> DEFINE t == [o EXCEPT !.pc = "call", !.status = row.status, !.remote = row.remote, !.retry = row.retry]
      <3>1. row' = row /\ op' = [op EXCEPT ![w] = t]
        BY <1>4, <2>4 DEF ReadState
      <3>2. t \in Ops /\ t.pc = "call" /\ t.kind = o.kind /\ t.status = row.status /\ t.retry = row.retry
        BY <1>1 DEF StepOK, Ops, RowOK, Rows
      <3>3. StepOK(t)
        BY <1>1, <2>1, <2>4, <3>2 DEF StepOK, OpOK, NoOp, Fresh, Selected, RowOK
      <3>4. clean /\ cuts = 0 => SoloOK(t, row.status, account)
        BY <1>1, <2>1, <3>2 DEF SoloOK
      <3> HIDE DEF t
      <3> QED
        BY <1>1, <1>2, <2>1, <3>1, <3>2, <3>3, <3>4, StepKeeps DEF AloneOK
    <2> QED
      BY <2>2, <2>3, <2>4
  <1>5. ASSUME NEW answer \in {"ok", "refused", "lost"}, Call(w, answer) PROVE ProvInv'
    <2> DEFINE t == [o EXCEPT !.pc = IF answer = "ok" THEN "ok" ELSE "failed"]
    <2>1. o.pc = "call" /\ row' = row /\ cuts' = cuts /\ clean' = (clean /\ answer # "lost")
      BY <1>5 DEF Call
    <2>2. ~(o.kind = "reconcile" /\ o.status = "error" /\ o.retry >= maxRetries)
      BY <1>1, <2>1, ProvisioningAssumption DEF StepOK, Ops, OpOK, maxRetries
    <2>3. op' = [op EXCEPT ![w] = t]
      BY <1>1, <1>5, <2>2 DEF Call
    <2>4. account' = IF answer = "refused" THEN account ELSE Applied(Request(o))
      BY <1>5, <2>2 DEF Call
    <2>5. account' \in Accounts
      BY <1>1, <2>4 DEF Applied, Accounts
    <2>6. t \in Ops /\ t.kind = o.kind /\ t.status = o.status /\ t.retry = o.retry
          /\ t.pc = (IF answer = "ok" THEN "ok" ELSE "failed")
      BY <1>1 DEF StepOK, Ops
    <2>7. StepOK(t)
      BY <1>1, <2>1, <2>6 DEF StepOK, OpOK, NoOp, Fresh
    <2>8. ASSUME clean', cuts' = 0 PROVE SoloOK(t, row.status, account')
      <3>1. answer # "lost" /\ SoloOK(o, row.status, account)
        BY <1>1, <2>1, <2>8
      <3>2. CASE answer = "refused"
        BY <2>1, <2>4, <2>6, <3>1, <3>2 DEF SoloOK
      <3>3. CASE answer = "ok"
        <4>1. account' = Applied(Request(o)) /\ t.pc = "ok"
          BY <2>4, <2>6, <3>3
        <4>2. CASE o.kind = "deprovision"
          BY <2>6, <4>1, <4>2 DEF SoloOK, Request, Applied
        <4>3. CASE o.kind = "sync"
          BY <2>1, <2>6, <3>1, <4>1, <4>3 DEF SoloOK, Request, Applied
        <4>4. CASE o.kind \in {"provision", "reconcile"}
          <5>1. o.status = row.status /\ Truth(row.status, account)
            BY <2>1, <3>1, <4>4 DEF SoloOK
          <5>2. o.kind = "reconcile" => o.status \in {"error", "provisioned"}
            BY <1>1, <2>1 DEF StepOK, OpOK
          <5>3. account' = "active"
            BY <4>1, <4>4, <5>1, <5>2 DEF Request, Applied, Truth
          <5>4. row.status # "deprovisioned"
            BY <2>1, <3>1, <4>4, <5>1, <5>2 DEF SoloOK
          <5> QED
            BY <2>6, <4>1, <4>4, <5>3, <5>4 DEF SoloOK, Truth
        <4>5. o.kind # "none"
          BY <1>1, <2>1 DEF StepOK, Ops, OpOK
        <4> QED
          BY <1>1, <4>2, <4>3, <4>4, <4>5 DEF StepOK, Ops
      <3> QED
        BY <3>1, <3>2, <3>3, <1>5
    <2> HIDE DEF t
    <2>9. t.pc # "idle"
      BY <2>6
    <2> QED
      BY <1>1, <1>2, <2>1, <2>3, <2>5, <2>7, <2>8, <2>9, StepKeeps DEF AloneOK
  <1>6. CASE Succeed(w)
    <2> DEFINE refresh == o.kind = "sync" \/ (o.kind = "reconcile" /\ o.status = "provisioned")
    <2>1. o.pc = "ok" /\ account' = account /\ cuts' = cuts /\ clean' = clean /\ op' = [op EXCEPT ![w] = NoOp]
      BY <1>6 DEF Succeed
    <2>2. row' = IF refresh THEN [row EXCEPT !.stale = FALSE]
                 ELSE IF o.kind = "deprovision"
                 THEN [row EXCEPT !.status = "deprovisioned", !.retry = 0, !.due = TRUE, !.stale = FALSE]
                 ELSE [status |-> "provisioned", remote |-> TRUE, retry |-> 0, due |-> TRUE, stale |-> FALSE]
      BY <1>6 DEF Succeed
    <2>3. RowOK(row') /\ row'.status = (IF refresh THEN row.status
                                        ELSE IF o.kind = "deprovision" THEN "deprovisioned" ELSE "provisioned")
      <3>1. 0 \in 0 .. RetryBound /\ row \in Rows
        BY <1>1, ProvisioningAssumption DEF RowOK, maxRetries
      <3>2. CASE refresh
        BY <1>1, <2>2, <3>1, <3>2 DEF RowOK, Rows
      <3>3. CASE ~refresh /\ o.kind = "deprovision"
        BY <2>2, <3>1, <3>3 DEF RowOK, Rows, Statuses
      <3>4. CASE ~refresh /\ o.kind # "deprovision"
        BY <2>2, <3>1, <3>4 DEF RowOK, Rows, Statuses
      <3> QED
        BY <3>2, <3>3, <3>4
    <2>4. ASSUME clean, cuts = 0 PROVE Truth(row'.status, account)
      <3>1. SoloOK(o, row.status, account)
        BY <1>1, <2>1, <2>4
      <3>2. o.kind \in {"provision", "deprovision", "sync", "reconcile"}
        BY <1>1, <2>1 DEF StepOK, Ops, OpOK
      <3> QED
        BY <2>1, <2>3, <3>1, <3>2 DEF SoloOK, Truth
    <2> QED
      BY <1>1, <1>2, <1>3, <2>1, <2>3, <2>4, StepKeeps DEF AloneOK
  <1>7. CASE ReadRetryCount(w)
    <2> DEFINE drop == o.kind = "sync" \/ (o.kind = "reconcile" /\ o.status = "provisioned")
               t == [o EXCEPT !.pc = "record", !.retry = IF o.kind = "reconcile" THEN o.retry ELSE row.retry]
    <2>1. /\ o.pc = "failed" /\ row.retry < RetryBound
          /\ row' = row /\ account' = account /\ cuts' = cuts /\ clean' = clean
      BY <1>7 DEF ReadRetryCount
    <2>2. clean /\ cuts = 0 => Truth(row.status, account)
      BY <1>1, <2>1 DEF SoloOK
    <2>3. CASE drop
      <3>1. op' = [op EXCEPT ![w] = NoOp]
        BY <1>7, <2>3 DEF ReadRetryCount
      <3> QED
        BY <1>1, <1>2, <1>3, <2>1, <2>2, <3>1, StepKeeps DEF AloneOK
    <2>4. CASE ~drop
      <3>1. o \in Ops
        BY <1>1 DEF StepOK
      <3>2. [o EXCEPT !.pc = "record"] = [o EXCEPT !.pc = "record", !.retry = o.retry]
        BY <3>1 DEF Ops
      <3>3. op' = [op EXCEPT ![w] = t]
        BY <1>7, <2>4, <3>2 DEF ReadRetryCount
      <3>4. t \in Ops /\ t.pc = "record" /\ t.kind = o.kind /\ t.status = o.status
            /\ t.retry = (IF o.kind = "reconcile" THEN o.retry ELSE row.retry)
        BY <1>1, <3>1 DEF Ops, RowOK, Rows
      <3>5. o.kind = "reconcile" => o.status = "error" /\ o.retry < maxRetries
        BY <1>1, <2>1, <2>4 DEF StepOK, OpOK
      <3>6. o.retry \in Nat /\ row.retry \in Nat
        BY <1>1, <3>1, ProvisioningAssumption DEF Ops, RowOK, Rows, maxRetries
      <3>7. t.retry < RetryBound
        BY <2>1, <3>4, <3>5, <3>6, ProvisioningAssumption DEF maxRetries
      <3>8. o.kind # "sync" /\ o.kind # "none"
        BY <1>1, <2>1, <2>4 DEF StepOK, OpOK
      <3>9. t # NoOp
        BY <3>4 DEF NoOp, Fresh
      <3> HIDE DEF t
      <3>10. StepOK(t)
        BY <3>4, <3>5, <3>7, <3>8, <3>9 DEF StepOK, OpOK
      <3>11. clean /\ cuts = 0 => SoloOK(t, row.status, account)
        BY <2>2, <3>4 DEF SoloOK
      <3> QED
        BY <1>1, <1>2, <2>1, <3>3, <3>4, <3>10, <3>11, StepKeeps DEF AloneOK
    <2> QED
      BY <2>3, <2>4
  <1>8. CASE recordError(w)
    <2> DEFINE count == o.retry + 1
    <2>1. /\ o.pc \in {"record", "giveUp"}
          /\ account' = account /\ cuts' = cuts /\ clean' = clean /\ op' = [op EXCEPT ![w] = NoOp]
      BY <1>8 DEF recordError
    <2>2. o.pc = "record"
      BY <1>1, <2>1 DEF StepOK, OpOK
    <2>3. row' = [row EXCEPT !.status = IF count >= maxRetries THEN "permanent_error" ELSE "error",
                             !.retry = count,
                             !.due = IF count >= maxRetries /\ o.kind = "reconcile" THEN @ ELSE FALSE]
      BY <1>8, <2>2 DEF recordError
    <2>4. count \in 0 .. RetryBound
      BY <1>1, <2>2, ProvisioningAssumption DEF StepOK, Ops, OpOK
    <2>5. RowOK(row') /\ row'.status \in {"permanent_error", "error"}
      <3> HIDE DEF count
      <3>1. row \in Rows
        BY <1>1 DEF RowOK
      <3>2. CASE count >= maxRetries
        BY <2>3, <2>4, <3>1, <3>2 DEF RowOK, Rows, Statuses
      <3>3. CASE ~(count >= maxRetries)
        <4>1. row' = [row EXCEPT !.status = "error", !.retry = count, !.due = FALSE]
          BY <2>3, <3>3
        <4>2. row' \in Rows /\ row'.status = "error" /\ row'.retry = count
          BY <2>4, <3>1, <4>1 DEF Rows, Statuses
        <4>3. count < maxRetries
          BY <2>4, <3>3, ProvisioningAssumption DEF maxRetries
        <4> QED
          BY <4>2, <4>3 DEF RowOK
      <3> QED
        BY <3>2, <3>3
    <2>6. Truth(row'.status, account)
      BY <2>5 DEF Truth
    <2> QED
      BY <1>1, <1>2, <1>3, <2>1, <2>5, <2>6, <2>2, StepKeeps DEF AloneOK
  <1> QED
    BY <1>4, <1>5, <1>6, <1>7, <1>8 DEF Work

\* Ending early is never clean, and time does not touch what the invariant reads.
LEMMA OtherStep ==
    ASSUME ProvInv, TimePasses \/ \E w \in Workers : Abandon(w)
    PROVE  ProvInv'
  <1>1. CASE TimePasses
    <2>1. row \in Rows
      BY <1>1 DEF ProvInv, TypeOK, Rows
    <2>2. /\ row' \in Rows /\ row'.status = row.status /\ row'.remote = row.remote /\ row'.retry = row.retry
          /\ UNCHANGED <<account, op, cuts, clean>>
      BY <1>1, <2>1 DEF TimePasses, Rows
    <2> QED
      BY <2>1, <2>2 DEF ProvInv, TypeOK, ErrorHasRetriesLeft, Rows, OpOK, NoOp, Fresh, SoloOK, Truth
  <1>2. ASSUME NEW w \in Workers, Abandon(w) PROVE ProvInv'
    <2>1. RowOK(row) /\ account \in Accounts
      BY InvAt
    <2>2. StepOK(NoOp)
      BY ProvisioningAssumption DEF StepOK, Ops, OpOK, NoOp, Fresh, Statuses, maxRetries
    <2>3. clean \in BOOLEAN /\ cuts \in 0 .. MaxCuts
      BY DEF ProvInv, TypeOK
    <2>4. op' = [op EXCEPT ![w] = NoOp] /\ row' = row /\ account' = account /\ clean' = clean
      BY <1>2 DEF Abandon
    <2>5. cuts' \in 0 .. MaxCuts /\ cuts' # 0
      BY <1>2, <2>3, ProvisioningAssumption DEF Abandon
    <2> QED
      BY <2>1, <2>2, <2>3, <2>4, <2>5, StepKeeps
  <1> QED
    BY <1>1, <1>2

LEMMA ProvInvHolds == Spec => []ProvInv
  <1>1. ProvInv /\ [Next]_vars => ProvInv'
    <2> SUFFICES ASSUME ProvInv, [Next]_vars PROVE ProvInv'
      OBVIOUS
    <2>1. CASE UNCHANGED vars
      BY <2>1 DEF vars, ProvInv, TypeOK, ErrorHasRetriesLeft, OpOK, NoOp, Fresh, SoloOK, Truth
    <2>2. CASE Next
      BY <2>2, StartStep, WorkStep, OtherStep DEF Next
    <2> QED
      BY <2>1, <2>2
  <1> QED
    BY ProvInit, <1>1, PTL DEF Spec

\* The engine's rows keep their types, and a provisioned row has its remote id.
THEOREM TypeCorrect == Spec => []TypeOK
  <1>1. ProvInv => TypeOK
    BY DEF ProvInv
  <1> QED
    BY <1>1, ProvInvHolds, PTL

\* No interleaving of the read-then-write of retry_count leaves a row in 'error'
\* with its retries used up.
THEOREM ErrorIsRetryable == Spec => []ErrorHasRetriesLeft
  <1>1. ProvInv => ErrorHasRetriesLeft
    BY DEF ProvInv
  <1> QED
    BY <1>1, ProvInvHolds, PTL

\* Without overlap, lost answers or cuts, row and account agree at rest.
THEOREM RowTellsTheTruth == Spec => []RowAgreesWithAccount
  <1>1. ProvInv => RowAgreesWithAccount
    BY DEF ProvInv, RowAgreesWithAccount, Truth, Busy
  <1> QED
    BY <1>1, ProvInvHolds, PTL

=============================================================================
