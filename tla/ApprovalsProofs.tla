--------------------------- MODULE ApprovalsProofs --------------------------
(***************************************************************************)
(* Proofs about Onboarding and Approvals, for any number of requests and   *)
(* deciders.                                                               *)
(***************************************************************************)
EXTENDS Approvals, TLAPS

USE OnboardingAssumption, ApprovalsAssumption

-----------------------------------------------------------------------------
(* Onboarding: the two stores.                                             *)

\* The empty stores satisfy the invariant of the pipeline.
LEMMA OnboardInitInv == OnboardInit => OnboardInv
BY DEF OnboardInit, OnboardInv, OnboardTypeOK, HolderOwns, Accounted, RowHasAccount, Holds, NoRun

\* A run that ends or has not begun may be moved to any state in which it holds
\* no Keycloak user.
LEMMA RestKeepsInv ==
    ASSUME OnboardInv, NEW r \in Runs, ~ Holds(r),
           NEW pc \in {"idle", "create", "ok", "failed"}, Goto(r, pc, 0),
           UNCHANGED <<account, users, nextId, acked, clean>>
    PROVE  OnboardInv'
<1>1. OnboardTypeOK' /\ \A q \in Runs : Holds(q)' <=> Holds(q)
  BY DEF OnboardInv, OnboardTypeOK, Goto, Holds
<1>2. \A q \in Runs : Holds(q) => run'[q] = run[q]
  BY DEF OnboardInv, OnboardTypeOK, Goto
<1> QED BY <1>1, <1>2 DEF OnboardInv, HolderOwns, Accounted, RowHasAccount

\* A new Keycloak user exists only while nobody holds one, because Keycloak
\* refuses an address that is taken.
LEMMA CreateKeepsInv ==
    ASSUME OnboardInv, NEW r \in Runs, CreateUser(r)
    PROVE  OnboardInv'
<1>1. OnboardTypeOK' /\ run'[r].id = nextId /\ account' = nextId /\ users # nextId
  BY DEF OnboardInv, OnboardTypeOK, CreateUser, Goto, Holds
<1>2. \A q \in Runs : ~ Holds(q)
  BY DEF OnboardInv, OnboardTypeOK, HolderOwns, CreateUser
<1>3. \A q \in Runs : Holds(q)' <=> q = r
  BY <1>2 DEF OnboardInv, OnboardTypeOK, CreateUser, Goto, Holds
<1>4. acked => users = 0
  BY DEF OnboardInv, RowHasAccount, CreateUser
<1> QED BY <1>1, <1>3, <1>4 DEF OnboardInv, HolderOwns, Accounted, RowHasAccount, CreateUser

\* Nor does the user whose creation went unanswered belong to anybody.
LEMMA UnansweredKeepsInv ==
    ASSUME OnboardInv, NEW r \in Runs, CreateUnanswered(r)
    PROVE  OnboardInv'
<1>0. clean' \in BOOLEAN /\ acked' \in BOOLEAN
  BY Zenon DEF OnboardInv, OnboardTypeOK, CreateUnanswered
<1>1. OnboardTypeOK'
  BY <1>0 DEF OnboardInv, OnboardTypeOK, CreateUnanswered, Goto, Holds
<1>2. \A q \in Runs : ~ Holds(q)
  BY DEF OnboardInv, OnboardTypeOK, HolderOwns, CreateUnanswered
<1>3. \A q \in Runs : ~ Holds(q)'
  BY <1>2 DEF OnboardInv, OnboardTypeOK, CreateUnanswered, Goto, Holds
<1>4. acked => users = 0
  BY DEF OnboardInv, RowHasAccount, CreateUnanswered
<1> QED BY <1>1, <1>3, <1>4 DEF OnboardInv, HolderOwns, Accounted, RowHasAccount, CreateUnanswered

\* The holder moves on and keeps its user.
LEMMA HolderMovesKeepsInv ==
    ASSUME OnboardInv, NEW r \in Runs, Holds(r),
           NEW pc \in {"persist", "rollback"}, Goto(r, pc, run[r].id),
           UNCHANGED <<account, users, nextId, acked, clean>>
    PROVE  OnboardInv'
<1>1. OnboardTypeOK' /\ \A q \in Runs : Holds(q)' <=> Holds(q)
  BY DEF OnboardInv, OnboardTypeOK, Goto, Holds
<1>2. \A q \in Runs : run'[q].id = run[q].id
  BY DEF OnboardInv, OnboardTypeOK, Goto
<1> QED BY <1>1, <1>2 DEF OnboardInv, HolderOwns, Accounted, RowHasAccount

\* The holder leaves its user behind, which is a fault.
LEMMA HolderLeavesKeepsInv ==
    ASSUME OnboardInv, NEW r \in Runs, Holds(r),
           NEW pc \in {"idle", "failed"}, Goto(r, pc, 0), clean' = FALSE,
           UNCHANGED <<account, users, nextId, acked>>
    PROVE  OnboardInv'
<1>0. clean' \in BOOLEAN /\ acked' \in BOOLEAN
  BY Zenon DEF OnboardInv, OnboardTypeOK
<1>1. OnboardTypeOK' /\ \A q \in Runs : Holds(q)' <=> Holds(q) /\ q # r
  BY <1>0 DEF OnboardInv, OnboardTypeOK, Goto, Holds
<1>2. \A q \in Runs : q # r => run'[q] = run[q]
  BY DEF OnboardInv, OnboardTypeOK, Goto
<1> QED BY <1>1, <1>2 DEF OnboardInv, HolderOwns, Accounted, RowHasAccount

\* The row is written for the user the run holds.
LEMMA PersistKeepsInv ==
    ASSUME OnboardInv, NEW r \in Runs, persistOnboard(r) \/ CommitUnanswered(r)
    PROVE  OnboardInv'
<1>1. Holds(r) /\ account = run[r].id /\ users' = account /\ account' = account
  BY DEF OnboardInv, HolderOwns, Holds, persistOnboard, CommitUnanswered
<1>0. clean' \in BOOLEAN /\ acked' \in BOOLEAN
  BY Zenon DEF OnboardInv, OnboardTypeOK, persistOnboard, CommitUnanswered
<1>2. OnboardTypeOK'
  BY <1>0, <1>1 DEF OnboardInv, OnboardTypeOK, persistOnboard, CommitUnanswered, Goto, Holds
<1>3. \A q \in Runs : q # r => ~ Holds(q) /\ ~ Holds(q)'
  BY <1>1 DEF OnboardInv, OnboardTypeOK, persistOnboard, CommitUnanswered, Goto, Holds
<1>4. CASE persistOnboard(r)
  <2>1. ~ Holds(r)'
    BY <1>4 DEF OnboardInv, OnboardTypeOK, persistOnboard, Goto, Holds
  <2> QED BY <1>1, <1>2, <1>3, <1>4, <2>1
          DEF OnboardInv, HolderOwns, Accounted, RowHasAccount, persistOnboard
<1>5. CASE CommitUnanswered(r)
  <2>1. run'[r].id = run[r].id
    BY <1>5 DEF OnboardInv, OnboardTypeOK, CommitUnanswered, Goto
  <2> QED BY <1>1, <1>2, <1>3, <1>5, <2>1
          DEF OnboardInv, HolderOwns, Accounted, RowHasAccount, CommitUnanswered
<1> QED BY <1>4, <1>5

\* The compensation removes the user its run holds, which no row has.
LEMMA RollbackKeepsInv ==
    ASSUME OnboardInv, NEW r \in Runs, Rollback(r)
    PROVE  OnboardInv'
<1>1. Holds(r) /\ account = run[r].id /\ account' = 0
  BY DEF OnboardInv, HolderOwns, Holds, Rollback
<1>2. OnboardTypeOK'
  BY <1>1 DEF OnboardInv, OnboardTypeOK, Rollback, Goto, Holds
<1>3. \A q \in Runs : ~ Holds(q)'
  BY <1>1 DEF OnboardInv, OnboardTypeOK, Rollback, Goto, Holds
<1>4. acked => users = 0
  BY <1>1 DEF OnboardInv, OnboardTypeOK, HolderOwns, RowHasAccount
<1> QED BY <1>1, <1>2, <1>3, <1>4 DEF OnboardInv, HolderOwns, Accounted, RowHasAccount, Rollback

\* Every step of the pipeline keeps the invariant.
LEMMA PipelineKeepsInv ==
    ASSUME OnboardInv, NEW r \in Runs, Pipeline(r)
    PROVE  OnboardInv'
<1>1. CASE CreateUser(r)        BY <1>1, CreateKeepsInv
<1>2. CASE CreateRefused(r)     BY <1>2, RestKeepsInv DEF CreateRefused, Holds
<1>3. CASE CreateUnanswered(r)  BY <1>3, UnansweredKeepsInv
<1>4. CASE SetPassword(r)       BY <1>4, HolderMovesKeepsInv DEF SetPassword, Holds
<1>5. CASE SetPasswordFails(r)  BY <1>5, HolderLeavesKeepsInv DEF SetPasswordFails, Holds
<1>6. CASE persistOnboard(r)    BY <1>6, PersistKeepsInv
<1>7. CASE PersistFails(r)      BY <1>7, HolderMovesKeepsInv DEF PersistFails, Holds
<1>8. CASE CommitUnanswered(r)  BY <1>8, PersistKeepsInv
<1>9. CASE Rollback(r)          BY <1>9, RollbackKeepsInv
<1>10. CASE RollbackFails(r)    BY <1>10, HolderLeavesKeepsInv DEF RollbackFails, Holds
<1> QED BY <1>1, <1>2, <1>3, <1>4, <1>5, <1>6, <1>7, <1>8, <1>9, <1>10 DEF Pipeline

\* A crash loses the user a run holds, or nothing.
LEMMA CrashKeepsInv ==
    ASSUME OnboardInv, NEW r \in Runs, Crash(r)
    PROVE  OnboardInv'
<1>1. CASE Holds(r)    BY <1>1, HolderLeavesKeepsInv DEF Crash
<1>2. CASE ~ Holds(r)
  <2>1. clean' = clean
    BY <1>2 DEF OnboardInv, OnboardTypeOK, Crash
  <2> QED BY <1>2, <2>1, RestKeepsInv DEF Crash
<1> QED BY <1>1, <1>2

\* The start of a request.
LEMMA OnboardKeepsInv ==
    ASSUME OnboardInv, NEW r \in Runs, Onboard(r)
    PROVE  OnboardInv'
<1>1. ~ Holds(r)
  BY DEF Onboard, AtRest, Holds
<1>2. CASE users # 0  BY <1>1, <1>2, RestKeepsInv DEF Onboard
<1>3. CASE users = 0  BY <1>1, <1>3, RestKeepsInv DEF Onboard
<1> QED BY <1>2, <1>3

\* The start of a SCIM request.
LEMMA ScimCreateKeepsInv ==
    ASSUME OnboardInv, NEW r \in Runs, SCIMCreateUser(r)
    PROVE  OnboardInv'
<1>1. ~ Holds(r)
  BY DEF SCIMCreateUser, AtRest, Holds
<1>2. CASE Goto(r, "create", 0)  BY <1>1, <1>2, RestKeepsInv DEF SCIMCreateUser
<1>3. CASE Goto(r, "failed", 0)  BY <1>1, <1>3, RestKeepsInv DEF SCIMCreateUser
<1> QED BY <1>2, <1>3 DEF SCIMCreateUser

\* Whatever onboard, bulk-onboard and SCIM requests race for one address, the store
\* invariant holds (Onboard, onboardOne, SCIMCreateUser, CreateUser, persistOnboard).
LEMMA OnboardingInvariant == OnboardSpec => []OnboardInv
<1>1. OnboardInv /\ [OnboardNext]_onboardVars => OnboardInv'
  <2> SUFFICES ASSUME OnboardInv, [OnboardNext]_onboardVars PROVE OnboardInv'
    OBVIOUS
  <2>1. CASE UNCHANGED onboardVars
    BY <2>1 DEF onboardVars, OnboardInv, OnboardTypeOK, HolderOwns, Accounted, RowHasAccount, Holds
  <2>2. ASSUME NEW r \in Requests, Onboard(r) \/ SCIMCreateUser(r) PROVE OnboardInv'
    BY <2>2, OnboardKeepsInv, ScimCreateKeepsInv, OnboardingAssumption
  <2>3. ASSUME NEW r \in Runs, Pipeline(r) \/ Crash(r) PROVE OnboardInv'
    BY <2>3, PipelineKeepsInv, CrashKeepsInv
  <2> QED BY <2>1, <2>2, <2>3 DEF OnboardNext
<1> QED BY <1>1, OnboardInitInv, PTL DEF OnboardSpec

\* The deferred DeleteUser of one request never takes away the Keycloak user of
\* another request's row: a row has its user unless a COMMIT went unanswered.
LEMMA RequestsKeepAccount == OnboardSpec => []RowHasAccount
<1>1. OnboardInv => RowHasAccount
  BY DEF OnboardInv
<1> QED BY <1>1, OnboardingInvariant, PTL

\* Once the requests are over, the two stores agree if no fault was met.
LEMMA RequestsAgree == OnboardSpec => []NoOrphanAtRest
<1>1. OnboardInv => NoOrphanAtRest
  BY DEF OnboardInv, Accounted, NoOrphanAtRest, AtRest, Holds
<1> QED BY <1>1, OnboardingInvariant, PTL

-----------------------------------------------------------------------------
(* Approvals.                                                              *)

\* What the pipeline does to the run of a decider, for the invariant of the
\* approval: other runs stay, and "ok" is reached by writing the row.
LEMMA PipelineRun ==
    ASSUME OnboardInv, NEW r \in Runs, Pipeline(r)
    PROVE  /\ ~ AtRest(r)
           /\ \A q \in Runs : q # r => run'[q] = run[q]
           /\ users # 0 => users' = users
           /\ run'[r].pc = "ok" => run'[r].id = users' /\ users' # 0
<1> USE DEF OnboardInv, OnboardTypeOK, Goto, AtRest, Holds
<1>1. CASE CreateUser(r)        BY <1>1 DEF CreateUser
<1>2. CASE CreateRefused(r)     BY <1>2 DEF CreateRefused
<1>3. CASE CreateUnanswered(r)  BY <1>3 DEF CreateUnanswered
<1>4. CASE SetPassword(r)       BY <1>4 DEF SetPassword
<1>5. CASE SetPasswordFails(r)  BY <1>5 DEF SetPasswordFails
<1>6. CASE persistOnboard(r)    BY <1>6 DEF persistOnboard
<1>7. CASE PersistFails(r)      BY <1>7 DEF PersistFails
<1>8. CASE CommitUnanswered(r)  BY <1>8 DEF CommitUnanswered
<1>9. CASE Rollback(r)          BY <1>9 DEF Rollback
<1>10. CASE RollbackFails(r)    BY <1>10 DEF RollbackFails
<1> QED BY <1>1, <1>2, <1>3, <1>4, <1>5, <1>6, <1>7, <1>8, <1>9, <1>10 DEF Pipeline

\* The stores and the claim together.
Inv == OnboardInv /\ ApprovalInv

\* The stores under the steps of the deciders.
LEMMA StoresKept == Inv /\ [Next]_vars => OnboardInv'
<1> SUFFICES ASSUME Inv, [Next]_vars PROVE OnboardInv'
  OBVIOUS
<1>1. CASE UNCHANGED onboardVars
  BY <1>1 DEF Inv, onboardVars, OnboardInv, OnboardTypeOK, HolderOwns, Accounted, RowHasAccount, Holds
<1>2. ASSUME NEW r \in Requests, Onboard(r) \/ SCIMCreateUser(r) \/ Crash(r) PROVE OnboardInv'
  BY <1>2, OnboardKeepsInv, ScimCreateKeepsInv, CrashKeepsInv, OnboardingAssumption DEF Inv
<1>3. ASSUME NEW r \in Runs, Execute(r) PROVE OnboardInv'
  BY <1>3, PipelineKeepsInv DEF Inv, Execute
<1>4. ASSUME NEW d \in Deciders, Claim(d) PROVE OnboardInv'
  <2>1. d \in Runs /\ ~ Holds(d)
    BY <1>4 DEF Inv, ApprovalInv, TypeOK, AtRest, Holds, Claim
  <2> QED BY <1>4, <2>1, RestKeepsInv DEF Inv, Claim
<1>5. ASSUME NEW d \in Deciders, DeskCrash(d) PROVE OnboardInv'
  <2>1. CASE Crash(d)  BY <2>1, CrashKeepsInv DEF Inv
  <2> QED BY <1>1, <1>5, <2>1 DEF DeskCrash
<1>6. ASSUME NEW d \in Deciders, Fetch(d) \/ Decide(d), ~ Claim(d), ~ DeskCrash(d)
      PROVE  UNCHANGED onboardVars
  BY <1>6 DEF Decide, Fetch, Reject, ClaimRefused, ClaimUnanswered, Approve, Reset, RecordFails
<1>7. CASE SubmitApproval
  BY <1>1, <1>7 DEF SubmitApproval
<1>8. CASE UNCHANGED vars
  BY <1>1, <1>8 DEF vars, onboardVars
<1> QED BY <1>1, <1>2, <1>3, <1>4, <1>5, <1>6, <1>7, <1>8 DEF Next

\* The claim under every step: one step per action of Next.
LEMMA ClaimKept == Inv /\ [Next]_vars => ApprovalInv'
<1> SUFFICES ASSUME Inv, [Next]_vars PROVE ApprovalInv'
  OBVIOUS
<1>0. OnboardTypeOK /\ OnboardTypeOK'
  BY StoresKept DEF Inv, OnboardInv
<1>1. decided' \in BOOLEAN
  BY Zenon DEF Inv, ApprovalInv, TypeOK, Next, vars, SubmitApproval, Fetch, Decide, Reject, Claim,
     ClaimRefused, ClaimUnanswered, Approve, Reset, RecordFails, DeskCrash, Execute
<1> USE DEF ApprovalInv, TypeOK, OneExecution, ApprovedMeansOnboarded,
        UnapprovedMeansUntouched, ClaimHasOwner
<1>2. CASE UNCHANGED vars
  BY <1>0, <1>1, <1>2 DEF Inv, vars, AtRest
<1>3. CASE SubmitApproval
  BY <1>0, <1>1, <1>3 DEF Inv, SubmitApproval, onboardVars, AtRest
<1>4. ASSUME NEW d \in Deciders, Fetch(d) PROVE ApprovalInv'
  BY <1>0, <1>1, <1>4 DEF Inv, Fetch, onboardVars, AtRest
<1>5. ASSUME NEW d \in Deciders, Reject(d) PROVE ApprovalInv'
  BY <1>0, <1>1, <1>5 DEF Inv, Reject, onboardVars, AtRest
<1>6. ASSUME NEW d \in Deciders, Claim(d) PROVE ApprovalInv'
  <2>1. \A e \in Deciders : desk[e] # "executing" /\ run[e].pc # "ok"
    BY <1>6 DEF Inv, Claim
  <2>2. /\ run'[d].pc = "create" /\ \A e \in Deciders : e # d => run'[e] = run[e]
        /\ status' = "executing" /\ desk'[d] = "executing"
        /\ \A e \in Deciders : e # d => desk'[e] = desk[e]
    BY <1>0, <1>6 DEF Inv, Claim, Goto, OnboardTypeOK
  <2>3. desk' \in [Deciders -> {"idle", "fetched", "executing"}]
    BY <1>6 DEF Inv, Claim
  <2> QED BY <1>0, <1>1, <2>1, <2>2, <2>3 DEF Inv, AtRest
<1>7. ASSUME NEW d \in Deciders, ClaimRefused(d) PROVE ApprovalInv'
  BY <1>0, <1>1, <1>7 DEF Inv, ClaimRefused, onboardVars, AtRest
<1>8. ASSUME NEW d \in Deciders, ClaimUnanswered(d) PROVE ApprovalInv'
  <2>1. decided' = FALSE
    BY <1>8 DEF ClaimUnanswered
  <2> QED BY <1>0, <1>1, <1>8, <2>1 DEF Inv, ClaimUnanswered, onboardVars, AtRest
<1>9. ASSUME NEW d \in Deciders, Approve(d) PROVE ApprovalInv'
  BY <1>0, <1>1, <1>9 DEF Inv, Approve, onboardVars, AtRest
<1>10. ASSUME NEW d \in Deciders, Reset(d) PROVE ApprovalInv'
  BY <1>0, <1>1, <1>10 DEF Inv, Reset, onboardVars, AtRest
<1>11. ASSUME NEW d \in Deciders, RecordFails(d) PROVE ApprovalInv'
  <2>1. decided' = FALSE
    BY <1>11 DEF RecordFails
  <2> QED BY <1>0, <1>1, <1>11, <2>1 DEF Inv, RecordFails, onboardVars, AtRest
<1>12. ASSUME NEW d \in Deciders, DeskCrash(d) PROVE ApprovalInv'
  <2>1. decided' = FALSE /\ status' = status /\ status = "executing" /\ users' = users
    BY <1>12 DEF Inv, DeskCrash, Crash, onboardVars
  <2>2. /\ \A e \in Deciders : run'[e] = run[e] \/ run'[e].pc = "idle"
        /\ AtRest(d)' /\ \A e \in Deciders : e # d => run'[e] = run[e]
    BY <1>0, <1>12 DEF DeskCrash, Crash, Goto, AtRest, OnboardTypeOK, onboardVars
  <2>3. /\ desk'[d] = "idle" /\ \A e \in Deciders : e # d => desk'[e] = desk[e]
        /\ desk' \in [Deciders -> {"idle", "fetched", "executing"}]
    BY <1>12 DEF Inv, DeskCrash
  <2> QED BY <1>0, <1>1, <2>1, <2>2, <2>3 DEF Inv, AtRest
<1>13. ASSUME NEW r \in Runs, Execute(r) PROVE ApprovalInv'
  <2>1. /\ ~ AtRest(r) /\ \A q \in Runs : q # r => run'[q] = run[q]
        /\ users # 0 => users' = users
        /\ run'[r].pc = "ok" => run'[r].id = users' /\ users' # 0
    BY <1>13, PipelineRun DEF Inv, Execute
  <2>2. UNCHANGED <<status, desk, decided>> /\ run[r].pc # "ok"
    BY <1>13, <2>1 DEF Execute, AtRest
  <2>3. r \in Deciders => desk[r] = "executing" /\ status = "executing"
    BY <2>1 DEF Inv
  <2> QED BY <1>0, <1>1, <2>1, <2>2, <2>3 DEF Inv, AtRest
<1>14. ASSUME NEW r \in Requests, Onboard(r) \/ SCIMCreateUser(r) \/ Crash(r),
              UNCHANGED <<status, desk, decided>>
       PROVE  ApprovalInv'
  <2>1. users' = users /\ \A d \in Deciders : run'[d] = run[d]
    BY <1>0, <1>14 DEF Onboard, SCIMCreateUser, Crash, Goto, OnboardTypeOK
  <2> QED BY <1>0, <1>1, <1>14, <2>1 DEF Inv, AtRest
<1> HIDE DEF ApprovalInv, TypeOK, OneExecution, ApprovedMeansOnboarded,
        UnapprovedMeansUntouched, ClaimHasOwner
<1> QED BY <1>2, <1>3, <1>4, <1>5, <1>6, <1>7, <1>8, <1>9, <1>10, <1>11, <1>12, <1>13, <1>14
        DEF Next, Decide

\* The stores and the claim hold in every behaviour of the composed system.
LEMMA Invariance == Spec => []Inv
<1>1. Init => Inv
  BY OnboardInitInv DEF Init, Inv, ApprovalInv, TypeOK, OneExecution, ApprovedMeansOnboarded,
     UnapprovedMeansUntouched, ClaimHasOwner, OnboardInit, OnboardInv, AtRest, NoRun
<1>2. Inv /\ [Next]_vars => Inv'
  BY StoresKept, ClaimKept DEF Inv
<1> QED BY <1>1, <1>2, PTL DEF Spec

\* Type correctness of the composed specification.
THEOREM TypeCorrect == Spec => []TypeOK
BY Invariance, PTL DEF Inv, ApprovalInv

\* A users row keeps its Keycloak user while requests and executions of the
\* approved action race for one address, unless a COMMIT went unanswered.
LEMMA RowKeepsItsAccount == Spec => []RowHasAccount
<1>1. Inv => RowHasAccount
  BY DEF Inv, OnboardInv
<1> QED BY <1>1, Invariance, PTL

\* Once requests and executions are over, the two stores agree if no fault was
\* met.
LEMMA StoresAgreeAtRest == Spec => []NoOrphanAtRest
<1>1. Inv => NoOrphanAtRest
  BY DEF Inv, OnboardInv, Accounted, NoOrphanAtRest, AtRest, Holds
<1> QED BY <1>1, Invariance, PTL

\* Onboard, SCIMCreateUser and the approved action keep Keycloak and the users
\* table consistent, however many of them race for one address.
THEOREM StoresAgree == Spec => []StoresConsistent
BY RowKeepsItsAccount, StoresAgreeAtRest, PTL DEF StoresConsistent

\* Any number of concurrent approvals execute the action once at a time.
THEOREM ApprovalExecutesOnce == Spec => []OneExecution
BY Invariance, PTL DEF Inv, ApprovalInv

\* An approved request shows the row its own execution wrote, whoever else
\* onboards the same address; a pending or rejected one has onboarded nobody.
THEOREM ApprovalIsTruthful == Spec => []StatusIsTruthful
BY Invariance, PTL DEF Inv, ApprovalInv, StatusIsTruthful

\* A claim is abandoned only through a fault that left its outcome unrecorded.
THEOREM ClaimIsOwned == Spec => []ClaimHasOwner
BY Invariance, PTL DEF Inv, ApprovalInv

=============================================================================
