-------------------------- MODULE ScimUsersProofs ---------------------------
(***************************************************************************)
(* Proofs about the optimistic lock of SCIMPatchUser, for any number of    *)
(* requests, any bodies and any bound on the versions.                     *)
(*                                                                         *)
(* OneHolderPerVersion is not inductive: that a version can be given back  *)
(* only by the request that took it needs to know which requests hold one. *)
(* LockInv says so: a PATCH between its Bump and its end holds the version *)
(* after the one it has read, and no two of them the same.  What the       *)
(* requests write to Keycloak and to the row is of no concern to the lock, *)
(* so the local variables are not typed: Shaped only says which there are. *)
(***************************************************************************)
EXTENDS ScimUsers, TLAPS

Locals == {"kind", "pc", "read", "want", "seen", "rep", "action"}

Shaped(o) == o = [f \in Locals |-> o[f]]

\* o is a PATCH that has taken the version after the one it has read.
Holds(o) == o.kind = "patch" /\ o.pc \in {"get", "put", "save", "unbump", "unbumpUndo"}

\* Only a PATCH takes a version or gives one back.
OpInv(o) ==
    /\ Shaped(o)
    /\ o.seen \in Versions
    /\ o.pc \in {"bump", "unbump", "unbumpUndo"} => o.kind = "patch"

OpsInv ==
    /\ op = [r \in Requests |-> op[r]]
    /\ \A r \in Requests : OpInv(op[r])

\* v, h, o: the version, the holders and the requests
FreeAhead(v, h) == \A w \in Versions : w > v /\ w > 1 => h[w] = 0

HoldersInv(h, o) ==
    /\ \A r \in Requests : Holds(o[r]) => o[r].seen + 1 \in Versions /\ h[o[r].seen + 1] = 1
    /\ \A r, q \in Requests : Holds(o[r]) /\ Holds(o[q]) /\ r # q => o[r].seen # o[q].seen

LockInv ==
    /\ version \in 0 .. MaxVersion
    /\ holders \in [Versions -> {0, 1}]
    /\ OpsInv
    /\ version = 0 => \A r \in Requests : op[r].seen = 1
    /\ FreeAhead(version, holders)
    /\ HoldersInv(holders, op)

-----------------------------------------------------------------------------

LEMMA NoOpFacts == OpInv(NoOp) /\ ~ Holds(NoOp) /\ NoOp.seen = 1
  <1>1. NoOp.seen = 1 /\ NoOp.pc = "idle"
    BY DEF NoOp
  <1>2. Shaped(NoOp)
    <2> DEFINE rep == [name |-> NoRow.name, enabled |-> TRUE, actions |-> {}]
    <2>1. NoOp = [kind |-> "none", pc |-> "idle", read |-> NoRow, want |-> NoRow, seen |-> 1,
                  rep |-> rep, action |-> {}]
      BY DEF NoOp
    <2> HIDE DEF rep
    <2> QED BY <2>1 DEF Shaped, Locals
  <1> QED BY <1>1, <1>2, ScimAssumption DEF OpInv, Holds, Versions

LEMMA GotoFacts ==
    ASSUME NEW o, Shaped(o), NEW pc
    PROVE  LET n == [o EXCEPT !.pc = pc]
           IN Shaped(n) /\ n.kind = o.kind /\ n.pc = pc /\ n.seen = o.seen
  BY DEF Shaped, Locals

-----------------------------------------------------------------------------
(* The three things a step can do to the lock.                             *)

\* It moves a request, which takes no version by it.
LEMMA Moves ==
    ASSUME LockInv, NEW r \in Requests, NEW n, OpInv(n),
           op' = [op EXCEPT ![r] = n], version' = version, holders' = holders,
           Holds(n) => Holds(op[r]) /\ n.seen = op[r].seen,
           version = 0 => n.seen = 1
    PROVE  LockInv' /\ Current' = Current
  <1>1. \A q \in Requests : op'[q] = IF q = r THEN n ELSE op[q]
    BY DEF LockInv, OpsInv
  <1>2. OpsInv'
    BY <1>1 DEF LockInv, OpsInv
  <1>3. HoldersInv(holders', op')
    BY <1>1 DEF LockInv, HoldersInv
  <1>4. version' = 0 => \A q \in Requests : op'[q].seen = 1
    BY <1>1 DEF LockInv
  <1> QED BY <1>2, <1>3, <1>4 DEF LockInv, Current

\* It takes the version after the one that the request has read.
LEMMA Takes ==
    ASSUME LockInv, NEW r \in Requests, NEW n, OpInv(n), Holds(n) => n.seen = op[r].seen,
           op[r].seen < MaxVersion, version \in {0, op[r].seen}, ~ Holds(op[r]),
           op' = [op EXCEPT ![r] = n], version' = op[r].seen + 1,
           holders' = [holders EXCEPT ![op[r].seen + 1] = @ + 1]
    PROVE  LockInv' /\ Tickets!Grant
  <1> DEFINE w == op[r].seen + 1
  <1>1. \A q \in Requests : op'[q] = IF q = r THEN n ELSE op[q]
    BY DEF LockInv, OpsInv
  <1>2. op[r].seen \in Versions /\ w \in Versions /\ w > 1 /\ w > version
    BY ScimAssumption DEF LockInv, OpsInv, OpInv, Versions
  <1>3. holders[w] = 0 /\ Current + 1 = w
    BY <1>2, ScimAssumption DEF LockInv, FreeAhead, Current, Versions
  <1>4. holders' = [holders EXCEPT ![w] = 1] /\ holders' \in [Versions -> {0, 1}]
    BY <1>2, <1>3 DEF LockInv
  <1>5. OpsInv'
    BY <1>1 DEF LockInv, OpsInv
  <1>6. FreeAhead(version', holders')
    BY <1>2, <1>4, ScimAssumption DEF LockInv, FreeAhead, Versions
  <1>7. \A q \in Requests : Holds(op[q]) => op[q].seen # op[r].seen
    BY <1>3 DEF LockInv, HoldersInv
  <1>8. HoldersInv(holders', op')
    <2>1. \A q \in Requests : Holds(op'[q]) =>
              op'[q].seen + 1 \in Versions /\ holders'[op'[q].seen + 1] = 1
      BY <1>1, <1>2, <1>4 DEF LockInv, HoldersInv
    <2>2. \A p, q \in Requests : Holds(op'[p]) /\ Holds(op'[q]) /\ p # q => op'[p].seen # op'[q].seen
      BY <1>1, <1>7 DEF LockInv, HoldersInv
    <2> QED BY <2>1, <2>2 DEF HoldersInv
  <1>9. version' \in 1 .. MaxVersion
    BY <1>2, ScimAssumption DEF Versions
  <1>10. LockInv'
    BY <1>4, <1>5, <1>6, <1>8, <1>9 DEF LockInv
  <1>11. Current' = w
    BY <1>9 DEF Current
  <1>12. Tickets!Grant
    BY <1>2, <1>3, <1>4, <1>11 DEF Tickets!Grant
  <1> QED BY <1>10, <1>12

\* It gives back the version that the request has taken, if it is the newest.
LEMMA GivesBack ==
    ASSUME LockInv, NEW r \in Requests, NEW n, OpInv(n),
           Holds(op[r]), ~ Holds(n), version = op[r].seen + 1,
           op' = [op EXCEPT ![r] = n], version' = op[r].seen,
           holders' = [holders EXCEPT ![op[r].seen + 1] = @ - 1]
    PROVE  LockInv' /\ Tickets!GiveBack
  <1> DEFINE w == op[r].seen + 1
  <1>1. \A q \in Requests : op'[q] = IF q = r THEN n ELSE op[q]
    BY DEF LockInv, OpsInv
  <1>2. op[r].seen \in Versions /\ w \in Versions /\ holders[w] = 1 /\ Current = w
    BY ScimAssumption DEF LockInv, OpsInv, OpInv, HoldersInv, Versions, Current
  <1>3. holders' = [holders EXCEPT ![w] = 0] /\ holders' \in [Versions -> {0, 1}]
    BY <1>2 DEF LockInv
  <1>4. OpsInv'
    BY <1>1 DEF LockInv, OpsInv
  <1>5. FreeAhead(version', holders')
    BY <1>2, <1>3, ScimAssumption DEF LockInv, FreeAhead, Versions
  <1>6. \A q \in Requests : q # r /\ Holds(op[q]) => op[q].seen # op[r].seen /\ op[q].seen \in Versions
    BY DEF LockInv, HoldersInv, OpsInv, OpInv
  <1>7. HoldersInv(holders', op')
    <2>1. \A q \in Requests : Holds(op'[q]) =>
              op'[q].seen + 1 \in Versions /\ holders'[op'[q].seen + 1] = 1
      BY <1>1, <1>2, <1>3, <1>6, ScimAssumption DEF LockInv, HoldersInv, Versions
    <2>2. \A p, q \in Requests : Holds(op'[p]) /\ Holds(op'[q]) /\ p # q => op'[p].seen # op'[q].seen
      BY <1>1 DEF LockInv, HoldersInv
    <2> QED BY <2>1, <2>2 DEF HoldersInv
  <1>8. version' \in 1 .. MaxVersion
    BY <1>2 DEF Versions
  <1>9. LockInv'
    BY <1>3, <1>4, <1>5, <1>7, <1>8 DEF LockInv
  <1>10. Current' = op[r].seen /\ Current - 1 = op[r].seen
    BY <1>2, <1>8 DEF Current, Versions
  <1>11. Tickets!GiveBack
    BY <1>2, <1>3, <1>10 DEF Tickets!GiveBack
  <1> QED BY <1>9, <1>11

-----------------------------------------------------------------------------
(* Every step does one of the three.                                       *)

TicketStep == Tickets!Grant \/ Tickets!GiveBack \/ (Current' = Current /\ holders' = holders)

LEMMA RestIs ==
    ASSUME NEW r \in Requests, Rest(r)
    PROVE  op' = [op EXCEPT ![r] = NoOp]
  BY DEF Rest

LEMMA GotoIs ==
    ASSUME OpsInv, NEW r \in Requests, NEW pc, Goto(r, pc),
           pc \in {"bump", "unbump", "unbumpUndo"} => op[r].kind = "patch"
    PROVE  LET n == [op[r] EXCEPT !.pc = pc]
           IN op' = [op EXCEPT ![r] = n] /\ OpInv(n)
              /\ n.kind = op[r].kind /\ n.pc = pc /\ n.seen = op[r].seen
  <1>1. OpInv(op[r])
    BY DEF OpsInv
  <1>2. op' = [op EXCEPT ![r] = [op[r] EXCEPT !.pc = pc]]
    BY DEF Goto
  <1> QED BY <1>1, <1>2, GotoFacts DEF OpInv

LEMMA Rests ==
    ASSUME LockInv, NEW r \in Requests, Rest(r), version' = version, holders' = holders
    PROVE  LockInv' /\ TicketStep
  BY RestIs, NoOpFacts, Moves DEF TicketStep

LEMMA Goes ==
    ASSUME LockInv, NEW r \in Requests, NEW pc, Goto(r, pc),
           pc \in {"bump", "unbump", "unbumpUndo"} => op[r].kind = "patch",
           Holds(op[r]) \/ op[r].kind # "patch" \/ pc \in {"undoGet", "undoPut"},
           version' = version, holders' = holders
    PROVE  LockInv' /\ TicketStep
  <1> DEFINE n == [op[r] EXCEPT !.pc = pc]
  <1>1. op' = [op EXCEPT ![r] = n] /\ OpInv(n) /\ n.kind = op[r].kind /\ n.pc = pc /\ n.seen = op[r].seen
    BY GotoIs DEF LockInv
  <1>2. (Holds(n) => Holds(op[r])) /\ (version = 0 => n.seen = 1)
    BY <1>1 DEF Holds, LockInv
  <1> HIDE DEF n
  <1> QED BY <1>1, <1>2, Moves DEF TicketStep

LEMMA BeginStep ==
    ASSUME LockInv, NEW r \in Requests,
           \/ SCIMGetUser(r) \/ SCIMDeleteUser(r)
           \/ \E body \in Patches : SCIMPatchUser(r, body)
           \/ \E a \in Actions : RequireMFA(r, a)
    PROVE  LockInv' /\ TicketStep
  <1> USE NoOpFacts
  <1>1. Shaped(NoOp) /\ Current \in Versions /\ (version = 0 => Current = 1)
    BY ScimAssumption DEF OpInv, Current, Versions, LockInv
  <1>2. CASE SCIMGetUser(r)
    <2> DEFINE n == [NoOp EXCEPT !.pc = "held", !.seen = Current]
    <2>1. Shaped(n) /\ n.pc = "held" /\ n.seen = Current
      BY <1>1 DEF Shaped, Locals
    <2>2. OpInv(n) /\ ~ Holds(n)
      BY <1>1, <2>1 DEF OpInv, Holds
    <2>3. op' = [op EXCEPT ![r] = n] /\ version' = version /\ holders' = holders
      BY <1>2 DEF SCIMGetUser, stores, history
    <2> HIDE DEF n
    <2> QED BY <1>1, <2>1, <2>2, <2>3, Moves DEF TicketStep
  <1>3. CASE SCIMDeleteUser(r)
    <2> DEFINE n == [NoOp EXCEPT !.kind = "delete", !.pc = "get"]
    <2>1. Shaped(n) /\ n.kind = "delete" /\ n.pc = "get" /\ n.seen = 1
      BY <1>1 DEF Shaped, Locals
    <2>2. OpInv(n) /\ ~ Holds(n)
      BY <2>1, ScimAssumption DEF OpInv, Holds, Versions
    <2>3. op' = [op EXCEPT ![r] = n] /\ version' = version /\ holders' = holders
      BY <1>3 DEF SCIMDeleteUser, stores
    <2> HIDE DEF n
    <2> QED BY <2>1, <2>2, <2>3, Moves DEF TicketStep
  <1>4. ASSUME NEW a \in Actions, RequireMFA(r, a) PROVE LockInv' /\ TicketStep
    <2> DEFINE n == [NoOp EXCEPT !.kind = "mfa", !.pc = "get", !.action = {a}]
    <2>1. Shaped(n) /\ n.kind = "mfa" /\ n.pc = "get" /\ n.seen = 1
      BY <1>1 DEF Shaped, Locals
    <2>2. OpInv(n) /\ ~ Holds(n)
      BY <2>1, ScimAssumption DEF OpInv, Holds, Versions
    <2>3. op' = [op EXCEPT ![r] = n] /\ version' = version /\ holders' = holders
      BY <1>4 DEF RequireMFA, stores
    <2> HIDE DEF n
    <2> QED BY <2>1, <2>2, <2>3, Moves DEF TicketStep
  <1>5. ASSUME NEW body \in Patches, SCIMPatchUser(r, body) PROVE LockInv' /\ TicketStep
    <2> DEFINE n == [NoOp EXCEPT !.kind = "patch", !.pc = "bump", !.read = row,
                                 !.want = Patched(row, body), !.seen = Current]
    <2>1. Shaped(n) /\ n.kind = "patch" /\ n.pc = "bump" /\ n.seen = Current
      BY <1>1 DEF Shaped, Locals
    <2>2. OpInv(n) /\ ~ Holds(n)
      BY <1>1, <2>1 DEF OpInv, Holds
    <2>3. (Rest(r) \/ op' = [op EXCEPT ![r] = n]) /\ version' = version /\ holders' = holders
      BY <1>5 DEF SCIMPatchUser, stores
    <2> HIDE DEF n
    <2> QED BY <1>1, <2>1, <2>2, <2>3, Moves, Rests DEF TicketStep
  <1> QED BY <1>2, <1>3, <1>4, <1>5

LEMMA VersionStep ==
    ASSUME LockInv, NEW r \in Requests,
           Bump(r) \/ Refused(r) \/ BumpFails(r) \/ GiveBackVersion(r)
    PROVE  LockInv' /\ TicketStep
  <1> USE NoOpFacts
  <1>1. OpInv(op[r]) /\ OpsInv /\ (op[r].pc = "bump" => op[r].kind = "patch" /\ ~ Holds(op[r]))
    BY DEF LockInv, OpsInv, OpInv, Holds
  <1>2. CASE Bump(r)
    <2> DEFINE n == [op[r] EXCEPT !.pc = "get"]
    <2>1. op' = [op EXCEPT ![r] = n] /\ OpInv(n) /\ n.seen = op[r].seen
      BY <1>1, <1>2, GotoIs DEF Bump
    <2> HIDE DEF n
    <2> QED BY <1>1, <1>2, <2>1, Takes DEF Bump, TicketStep
  <1>3. CASE Refused(r)
    BY <1>3, Rests DEF Refused, stores, history
  <1>4. CASE BumpFails(r)
    <2>1. CASE version' = version /\ holders' = holders
      BY <1>4, <2>1, Rests DEF BumpFails
    <2>2. CASE ~ (version' = version /\ holders' = holders)
      BY <1>1, <1>4, <2>2, RestIs, Takes DEF BumpFails, TicketStep
    <2> QED BY <2>1, <2>2
  <1>5. CASE GiveBackVersion(r)
    <2> DEFINE m == [op[r] EXCEPT !.pc = "undoGet"]
    <2>1. Holds(op[r])
      BY <1>1, <1>5 DEF GiveBackVersion, OpInv, Holds
    <2>2. Goto(r, "undoGet") => op' = [op EXCEPT ![r] = m] /\ OpInv(m) /\ ~ Holds(m)
      BY <1>1, GotoIs DEF Holds
    <2> HIDE DEF m
    <2>3. PICK n : op' = [op EXCEPT ![r] = n] /\ OpInv(n) /\ ~ Holds(n)
      BY <1>5, <2>2, RestIs DEF GiveBackVersion
    <2>4. CASE version = op[r].seen + 1 /\ version' = op[r].seen
               /\ holders' = [holders EXCEPT ![op[r].seen + 1] = @ - 1]
      BY <2>1, <2>3, <2>4, GivesBack DEF TicketStep
    <2>5. CASE version' = version /\ holders' = holders
      BY <1>5, <2>1, <2>5, Rests, Goes DEF GiveBackVersion
    <2> QED BY <1>5, <2>4, <2>5 DEF GiveBackVersion, scimRestoreVersion
  <1> QED BY <1>2, <1>3, <1>4, <1>5

\* A request reads a representation and will write it.
LEMMA Reads ==
    ASSUME LockInv, NEW r \in Requests, NEW rep, NEW pc, pc \in {"put", "undoPut"},
           pc = "put" => op[r].pc = "get",
           op' = [op EXCEPT ![r].rep = rep, ![r].pc = pc],
           version' = version, holders' = holders
    PROVE  LockInv' /\ TicketStep
  <1> DEFINE n == [op[r] EXCEPT !.rep = rep, !.pc = pc]
  <1>1. OpInv(op[r]) /\ (version = 0 => op[r].seen = 1)
    BY DEF LockInv, OpsInv
  <1>2. Shaped(n) /\ n.kind = op[r].kind /\ n.pc = pc /\ n.seen = op[r].seen
    BY <1>1 DEF OpInv, Shaped, Locals
  <1>3. op' = [op EXCEPT ![r] = n]
    BY DEF LockInv, OpsInv
  <1> HIDE DEF n
  <1>4. OpInv(n) /\ (Holds(n) => Holds(op[r]))
    BY <1>1, <1>2 DEF OpInv, Holds
  <1> QED BY <1>1, <1>2, <1>3, <1>4, Moves DEF TicketStep

LEMMA StoreStep ==
    ASSUME LockInv, NEW r \in Requests,
           \/ KeycloakGet(r) \/ KeycloakPut(r) \/ KeycloakFails(r)
           \/ Save(r) \/ SaveFails(r)
           \/ RestoreGet(r) \/ RestorePut(r) \/ RestoreFails(r) \/ Crash(r)
    PROVE  LockInv' /\ TicketStep
  <1>1. version' = version /\ holders' = holders
    BY DEF KeycloakGet, KeycloakPut, KeycloakFails, Save, SaveFails, RestoreGet, RestorePut,
           RestoreFails, Crash, stores, history
  <1>2. CASE Rest(r)
    BY <1>1, <1>2, Rests
  <1>3. CASE KeycloakGet(r) /\ ~ Rest(r)
    BY <1>1, <1>3, Reads DEF KeycloakGet
  <1>4. CASE RestoreGet(r)
    BY <1>1, <1>4, Reads DEF RestoreGet
  <1>5. CASE (KeycloakPut(r) \/ KeycloakFails(r)) /\ ~ Rest(r)
    BY <1>1, <1>5, Goes DEF KeycloakPut, KeycloakFails, Holds
  <1>6. CASE SaveFails(r) /\ ~ Rest(r)
    BY <1>1, <1>6, Goes DEF SaveFails, Holds
  <1> QED BY <1>2, <1>3, <1>4, <1>5, <1>6 DEF Save, RestorePut, RestoreFails, Crash

LEMMA LockStep ==
    ASSUME LockInv, [UserNext]_userVars
    PROVE  LockInv' /\ TicketStep
  <1>1. CASE UserNext
    BY <1>1, BeginStep, VersionStep, StoreStep DEF UserNext, Step
  <1>2. CASE UNCHANGED userVars
    BY <1>2 DEF userVars, stores, history, LockInv, OpsInv, FreeAhead, HoldersInv, TicketStep, Current
  <1> QED BY <1>1, <1>2

LEMMA LockInit ==
    ASSUME UserInit
    PROVE  LockInv /\ Current = 1 /\ holders = [v \in Versions |-> 0]
  <1>1. \A r \in Requests : op[r] = NoOp
    BY DEF UserInit
  <1>2. OpsInv
    BY <1>1, NoOpFacts DEF UserInit, OpsInv
  <1>3. HoldersInv(holders, op) /\ \A r \in Requests : op[r].seen = 1
    BY <1>1, NoOpFacts DEF HoldersInv
  <1> QED BY <1>2, <1>3, ScimAssumption DEF UserInit, LockInv, FreeAhead, Current

LEMMA LockInvHolds == UserSpec => []LockInv
  BY LockInit, LockStep, PTL DEF UserSpec

\* Whatever PATCH, DELETE and MFA requests overlap, fail, die or give their
\* version back, no version of the user is held by two PATCH requests and no
\* version ahead of the stored one is held (scim.go SCIMPatchUser,
\* scimRestoreVersion).
THEOREM OneHolder == UserSpec => []OneHolderPerVersion
  <1>1. LockInv => OneHolderPerVersion
    BY ScimAssumption DEF LockInv, FreeAhead, OneHolderPerVersion, Current, Versions
  <1> QED BY <1>1, LockInvHolds, PTL

\* The conditional UPSERT of SCIMPatchUser and the conditional UPDATE of
\* scimRestoreVersion implement the ticket counter: every step hands out the
\* next version while it is free, takes back the newest, or does neither.
THEOREM LockImplementsTickets == UserSpec => LockIsATicketCounter
  <1>1. UserInit => Tickets!TicketInit
    BY LockInit, ScimAssumption DEF Tickets!TicketInit, Versions
  <1>2. LockInv /\ [UserNext]_userVars
        => [Tickets!Grant \/ Tickets!GiveBack]_(Tickets!ticketVars)
    BY LockStep DEF TicketStep, Tickets!ticketVars
  <1> QED BY <1>1, <1>2, LockInvHolds, PTL DEF UserSpec, LockIsATicketCounter, Tickets!TicketSpec
=============================================================================
