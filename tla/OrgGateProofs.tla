--------------------------- MODULE OrgGateProofs ---------------------------
(***************************************************************************)
(* Proofs about the organisation gate, for any numbers of people,          *)
(* organisations, tokens and requests.                                     *)
(*                                                                         *)
(* What a request was granted when it was resolved may be gone when its    *)
(* handler runs, so the properties speak of what its principal had "at     *)
(* some moment since it arrived".  The inductive invariant says that the   *)
(* histories never fall behind: they hold at least what the principal has  *)
(* now (UpToDate), and what the request was resolved to is among them      *)
(* (Resolved).  That a membership is one of an organisation that exists    *)
(* needs MembersAreAtHome.                                                 *)
(***************************************************************************)
EXTENDS OrgGate, TLAPS

Roles == {"none", "member", "org-admin"}

TokenRows == [org : Orgs, super : BOOLEAN, state : {"none", "live", "expired", "revoked"}]

(* A token is never remade, so a request keeps the token row it came with.   *)
Known(q) == q.who \in People \/ (q.who \in ApiTokens /\ token[q.who].state # "none")

System(q) == q.who \in Supers \/ (q.who \in ApiTokens /\ token[q.who].super)

RowsInv ==
  /\ orgs \subseteq Orgs /\ DefaultOrg \in orgs
  /\ home \in [People -> SUBSET orgs]
  /\ member \in [People -> [Orgs -> Roles]]
  /\ token \in [ApiTokens -> TokenRows]
  /\ \A t \in ApiTokens : token[t].org \in orgs
  /\ MembersAreAtHome

UpToDate(r) ==
  /\ Right(req[r].who, member, orgs) \subseteq standing[r]
  /\ Administers(req[r].who, member, orgs) \subseteq admin[r]

Resolved(r) ==
  /\ req[r].org \in standing[r] \cap orgs
  /\ req[r].role = "org-admin" => req[r].org \in admin[r]

RequestInv(r) ==
  req[r] # NoReq =>
    /\ req[r].pc \in {"resolve", "ready"}
    /\ req[r].pc = "resolve" => req[r].who \in People
    /\ Known(req[r]) /\ (req[r].super => System(req[r]))
    /\ UpToDate(r)
    /\ req[r].pc = "ready" => Resolved(r)

RequestsInv ==
  /\ req = [r \in Gated |-> req[r]]
  /\ standing \in [Gated -> SUBSET Orgs] /\ admin \in [Gated -> SUBSET Orgs]
  /\ \A r \in Gated : RequestInv(r)

GateInv == RowsInv /\ RequestsInv

-----------------------------------------------------------------------------
(* The histories.                                                            *)

LEMMA RightIsOrgs ==
  ASSUME RowsInv, NEW who, NEW m, NEW os, os \subseteq Orgs
  PROVE  Right(who, m, os) \subseteq Orgs /\ Administers(who, m, os) \subseteq Orgs
  BY DEF RowsInv, Right, Administers

(* Members or organisations change; the requests in flight remember it.      *)
LEMMA RememberKeeps ==
  ASSUME GateInv, RowsInv', orgs \subseteq orgs',
         Remember(member', orgs'), UNCHANGED <<token, req>>
  PROVE  RequestsInv'
  <1>1. orgs' \subseteq Orgs
    BY DEF RowsInv
  <1>2. ASSUME NEW r \in Gated, req[r] # NoReq
        PROVE  /\ standing'[r] = standing[r] \cup Right(req[r].who, member', orgs')
               /\ admin'[r] = admin[r] \cup Administers(req[r].who, member', orgs')
    BY <1>2 DEF Remember
  <1>3. standing' \in [Gated -> SUBSET Orgs] /\ admin' \in [Gated -> SUBSET Orgs]
    BY <1>1, RightIsOrgs DEF Remember, GateInv, RequestsInv
  <1>4. ASSUME NEW r \in Gated, req[r] # NoReq PROVE UpToDate(r)'
    BY <1>2, <1>4 DEF UpToDate, Right, Administers
  <1>5. ASSUME NEW r \in Gated, req[r] # NoReq, req[r].pc = "ready" PROVE Resolved(r)'
    BY <1>2, <1>5 DEF Resolved, GateInv, RequestsInv, RequestInv
  <1>6. ASSUME NEW r \in Gated PROVE RequestInv(r)'
    BY <1>4, <1>5 DEF RequestInv, GateInv, RequestsInv, Known, System
  <1> QED BY <1>3, <1>6 DEF RequestsInv, GateInv

(* A request arrives, and its histories begin with what it has.              *)
LEMMA StartKeeps ==
  ASSUME GateInv, NEW r \in Gated, NEW q, Start(r, q),
         UNCHANGED <<orgs, home, member, token>>,
         q.pc \in {"resolve", "ready"}, q.pc = "resolve" => q.who \in People,
         Known(q), q.super => System(q),
         q.pc = "ready" => /\ q.org \in Right(q.who, member, orgs) \cap orgs
                           /\ q.role = "org-admin" => q.org \in Administers(q.who, member, orgs)
  PROVE  GateInv'
  <1>1. RowsInv'
    BY DEF GateInv, RowsInv, MembersAreAtHome
  <1>2. /\ req' = [req EXCEPT ![r] = q]
        /\ standing' = [standing EXCEPT ![r] = Right(q.who, member, orgs)]
        /\ admin' = [admin EXCEPT ![r] = Administers(q.who, member, orgs)]
    BY DEF Start
  <1>3. standing' \in [Gated -> SUBSET Orgs] /\ admin' \in [Gated -> SUBSET Orgs]
    BY <1>2, RightIsOrgs DEF GateInv, RequestsInv, RowsInv
  <1>4. req' = [p \in Gated |-> req'[p]]
    BY <1>2 DEF GateInv, RequestsInv
  <1>5. /\ req'[r] = q /\ standing'[r] = Right(q.who, member, orgs)
        /\ admin'[r] = Administers(q.who, member, orgs)
    BY <1>2 DEF GateInv, RequestsInv
  <1>6. RequestInv(r)'
    BY <1>5 DEF RequestInv, Known, System, UpToDate, Resolved, Right, Administers
  <1>7. ASSUME NEW p \in Gated, p # r PROVE RequestInv(p)'
    <2>1. req'[p] = req[p] /\ standing'[p] = standing[p] /\ admin'[p] = admin[p]
      BY <1>2, <1>7 DEF GateInv, RequestsInv
    <2> QED BY <2>1 DEF GateInv, RequestsInv, RequestInv, Known, System, UpToDate, Resolved, Right, Administers
  <1> QED BY <1>1, <1>3, <1>4, <1>6, <1>7 DEF GateInv, RequestsInv

(* Only the request of r changes, to one the invariant allows.               *)
LEMMA OthersKeep ==
  ASSUME GateInv, NEW r \in Gated, UNCHANGED <<orgs, home, member, token>>,
         \A p \in Gated \ {r} :
            req'[p] = req[p] /\ standing'[p] = standing[p] /\ admin'[p] = admin[p],
         req' = [p \in Gated |-> req'[p]],
         standing' \in [Gated -> SUBSET Orgs], admin' \in [Gated -> SUBSET Orgs],
         RequestInv(r)'
  PROVE  GateInv'
  <1>1. RowsInv'
    BY DEF GateInv, RowsInv, MembersAreAtHome
  <1>2. ASSUME NEW p \in Gated, p # r PROVE RequestInv(p)'
    BY <1>2 DEF GateInv, RequestsInv, RequestInv, Known, System, UpToDate, Resolved, Right, Administers
  <1> QED BY <1>1, <1>2 DEF GateInv, RequestsInv

LEMMA FinishKeeps ==
  ASSUME GateInv, NEW r \in Gated, Finish(r), UNCHANGED <<orgs, home, member, token>>
  PROVE  GateInv'
  <1>1. \A p \in Gated \ {r} :
            req'[p] = req[p] /\ standing'[p] = standing[p] /\ admin'[p] = admin[p]
    BY DEF Finish, GateInv, RequestsInv
  <1>2. req' = [p \in Gated |-> req'[p]] /\ req'[r] = NoReq
        /\ standing' \in [Gated -> SUBSET Orgs] /\ admin' \in [Gated -> SUBSET Orgs]
    BY DEF Finish, GateInv, RequestsInv
  <1>3. RequestInv(r)'
    BY <1>2 DEF RequestInv, NoReq
  <1> QED BY <1>1, <1>2, <1>3, OthersKeep

(* A request is given an organisation that its principal has a right to.     *)
LEMMA BecomeKeeps ==
  ASSUME GateInv, NEW r \in Gated, NEW o, NEW role, Become(r, o, role), req[r] # NoReq,
         UNCHANGED <<orgs, home, member, token>>,
         o \in Right(req[r].who, member, orgs) \cap orgs,
         role = "org-admin" => o \in Administers(req[r].who, member, orgs)
  PROVE  GateInv'
  <1> DEFINE q == [pc |-> "ready", who |-> req[r].who, super |-> req[r].super, org |-> o, role |-> role]
  <1>1. req' = [req EXCEPT ![r] = q] /\ standing' = standing /\ admin' = admin
    BY DEF Become
  <1>2. /\ q.pc = "ready" /\ q.who = req[r].who /\ q.super = req[r].super
        /\ q.org = o /\ q.role = role
    OBVIOUS
  <1> HIDE DEF q
  <1>3. req'[r] = q /\ req' = [p \in Gated |-> req'[p]]
    BY <1>1 DEF GateInv, RequestsInv
  <1>4. \A p \in Gated \ {r} : req'[p] = req[p]
    BY <1>1 DEF GateInv, RequestsInv
  <1>5. RequestInv(r)
    BY DEF GateInv, RequestsInv
  <1>6. UpToDate(r)'
    BY <1>1, <1>2, <1>3, <1>5 DEF RequestInv, UpToDate, Right, Administers
  <1>7. Resolved(r)'
    BY <1>1, <1>2, <1>3, <1>5 DEF RequestInv, UpToDate, Resolved
  <1>8. Known(req[r])' /\ (req'[r].super => System(req[r])')
    BY <1>2, <1>3, <1>5 DEF RequestInv, Known, System
  <1>9. RequestInv(r)'
    BY <1>2, <1>3, <1>6, <1>7, <1>8 DEF RequestInv
  <1> QED BY <1>1, <1>3, <1>4, <1>9, OthersKeep DEF GateInv, RequestsInv

-----------------------------------------------------------------------------
(* The steps.                                                                *)

LEMMA ArriveStep ==
  ASSUME GateInv, NEW r \in Gated,
         (\E p \in People : AuthenticateJWT(r, p)) \/ (\E t \in ApiTokens : handleAPIToken(r, t))
  PROVE  GateInv'
  <1>1. ASSUME NEW p \in People, AuthenticateJWT(r, p) PROVE GateInv'
    <2> DEFINE q == [pc |-> "resolve", who |-> p, super |-> p \in Supers]
    <2>1. q.pc = "resolve" /\ q.who = p
      OBVIOUS
    <2>2. q.super => p \in Supers
      OBVIOUS
    <2>3. Start(r, q) /\ UNCHANGED <<orgs, home, member, token>>
      BY <1>1 DEF AuthenticateJWT
    <2> HIDE DEF q
    <2> QED BY <2>1, <2>2, <2>3, StartKeeps DEF Known, System
  <1>2. ASSUME NEW t \in ApiTokens, handleAPIToken(r, t) PROVE GateInv'
    <2> DEFINE q == [pc |-> "ready", who |-> t, super |-> token[t].super, org |-> token[t].org,
                     role |-> IF token[t].super THEN "org-admin" ELSE "none"]
    <2>1. q.pc = "ready" /\ q.who = t /\ q.super = token[t].super /\ q.org = token[t].org
      OBVIOUS
    <2>2. q.role = "org-admin" => token[t].super
      OBVIOUS
    <2>3. Start(r, q) /\ UNCHANGED <<orgs, home, member, token>> /\ token[t].state = "live"
      BY <1>2 DEF handleAPIToken
    <2> HIDE DEF q
    <2>4. token[t].org \in orgs
      BY DEF GateInv, RowsInv
    <2>5. q.org \in Right(t, member, orgs) /\ (token[t].super => q.org \in Administers(t, member, orgs))
      BY <2>1, <2>4 DEF Right, Administers
    <2> QED BY <2>1, <2>2, <2>3, <2>4, <2>5, StartKeeps DEF Known, System
  <1> QED BY <1>1, <1>2

LEMMA ResolveStep ==
  ASSUME GateInv, NEW r \in Gated, NEW header, OrgContextMiddleware(r, header)
  PROVE  GateInv'
  <1> DEFINE mine == Memberships(req[r].who)
  <1>1. /\ req[r] # NoReq /\ req[r].pc = "resolve" /\ RequestInv(r)
        /\ UNCHANGED <<orgs, home, member, token>>
    BY DEF OrgContextMiddleware, GateInv, RequestsInv
  <1>2. req[r].who \in People /\ req[r].who \notin ApiTokens /\ (req[r].super => req[r].who \in Supers)
    BY <1>1, OrgAssumption DEF RequestInv, System
  <1>3. ASSUME NEW o \in mine
        PROVE  /\ o \in Right(req[r].who, member, orgs) \cap orgs
               /\ member[req[r].who][o] = "org-admin" => o \in Administers(req[r].who, member, orgs)
    BY <1>2 DEF Memberships, Right, Administers, GateInv, RowsInv, MembersAreAtHome
  <1>4. ASSUME req[r].super, NEW o \in orgs
        PROVE  o \in Right(req[r].who, member, orgs) \cap orgs /\ o \in Administers(req[r].who, member, orgs)
    BY <1>2, <1>4 DEF Right, Administers
  <1>5. DefaultOrg \in orgs
    BY DEF GateInv, RowsInv
  <1>6. \/ Finish(r)
        \/ \E o \in mine : Become(r, o, member[req[r].who][o])
        \/ \E o \in orgs : req[r].super /\ Become(r, o, "org-admin")
    BY <1>5 DEF OrgContextMiddleware
  <1>7. CASE Finish(r)
    BY <1>1, <1>7, FinishKeeps
  <1>8. ASSUME NEW o \in mine, Become(r, o, member[req[r].who][o]) PROVE GateInv'
    BY <1>1, <1>3, <1>8, BecomeKeeps
  <1>9. ASSUME NEW o \in orgs, req[r].super, Become(r, o, "org-admin") PROVE GateInv'
    BY <1>1, <1>4, <1>9, BecomeKeeps
  <1> QED BY <1>6, <1>7, <1>8, <1>9

(* What the handlers of the members' pages rely on.                          *)
LEMMA CallerAdministers ==
  ASSUME GateInv, NEW r \in Gated, Ready(r), NEW o \in orgs, OwnOrgOrSystemAdmin(r, o)
  PROVE  o \in admin[r]
  <1>1. req[r] # NoReq /\ req[r].pc = "ready" /\ RequestInv(r)
    BY DEF Ready, GateInv, RequestsInv
  <1>2. CASE req[r].super
    <2>1. System(req[r]) /\ UpToDate(r)
      BY <1>1, <1>2 DEF RequestInv
    <2>2. o \in Administers(req[r].who, member, orgs)
      BY <2>1, OrgAssumption DEF System, Administers
    <2> QED BY <2>1, <2>2 DEF UpToDate
  <1>3. CASE req[r].role = "org-admin" /\ req[r].org = o
    BY <1>1, <1>3 DEF RequestInv, Resolved
  <1> QED BY <1>2, <1>3 DEF OwnOrgOrSystemAdmin

LEMMA CreateOrgStep ==
  ASSUME GateInv, NEW r \in Gated, NEW o \in Orgs, CreateOrg(r, o)
  PROVE  GateInv'
  <1>1. RowsInv'
    BY DEF CreateOrg, GateInv, RowsInv, MembersAreAtHome
  <1>2. orgs \subseteq orgs' /\ Remember(member', orgs') /\ UNCHANGED <<token, req>>
    BY DEF CreateOrg
  <1> QED BY <1>1, <1>2, RememberKeeps DEF GateInv

LEMMA MemberStep ==
  ASSUME GateInv, NEW r \in Gated, NEW p \in People, NEW o \in Orgs,
         \/ OnboardPerson(r, p) \/ RemoveOrgMember(r, o, p)
         \/ \E role \in {"member", "org-admin"} : AddOrgMember(r, o, p, role)
  PROVE  GateInv'
  <1>1. CASE OnboardPerson(r, p)
    <2>1. req[r].org \in orgs
      BY <1>1 DEF OnboardPerson, Ready, GateInv, RequestsInv, RequestInv, Resolved
    <2>2. RowsInv'
      BY <1>1, <2>1 DEF OnboardPerson, GateInv, RowsInv, MembersAreAtHome, Roles
    <2>3. orgs' = orgs /\ Remember(member', orgs') /\ UNCHANGED <<token, req>>
      BY <1>1 DEF OnboardPerson
    <2> QED BY <2>2, <2>3, RememberKeeps DEF GateInv
  <1>2. CASE RemoveOrgMember(r, o, p)
    <2>1. RowsInv'
      BY <1>2 DEF RemoveOrgMember, GateInv, RowsInv, MembersAreAtHome, Roles
    <2>2. orgs' = orgs /\ Remember(member', orgs') /\ UNCHANGED <<token, req>>
      BY <1>2 DEF RemoveOrgMember
    <2> QED BY <2>1, <2>2, RememberKeeps DEF GateInv
  <1>3. ASSUME NEW role \in {"member", "org-admin"}, AddOrgMember(r, o, p, role) PROVE GateInv'
    <2>1. RowsInv'
      BY <1>3 DEF AddOrgMember, GateInv, RowsInv, MembersAreAtHome, Roles
    <2>2. orgs' = orgs /\ Remember(member', orgs') /\ UNCHANGED <<token, req>>
      BY <1>3 DEF AddOrgMember
    <2> QED BY <2>1, <2>2, RememberKeeps DEF GateInv
  <1> QED BY <1>1, <1>2, <1>3

(* A token that a request came with keeps its organisation and its role.     *)
LEMMA TokenStep ==
  ASSUME GateInv, NEW t \in ApiTokens,
         \/ ExpireToken(t)
         \/ \E r \in Gated : RevokeAPIToken(r, t) \/ \E super \in BOOLEAN : CreateAPIToken(r, t, super)
  PROVE  GateInv'
  <1>1. UNCHANGED <<orgs, home, member, req, standing, admin>>
    BY DEF ExpireToken, RevokeAPIToken, CreateAPIToken
  <1>2. /\ token' \in [ApiTokens -> TokenRows]
        /\ \A u \in ApiTokens : /\ token'[u].org \in orgs
                                /\ token[u].state # "none" =>
                                     /\ token'[u].state # "none" /\ token'[u].org = token[u].org
                                     /\ token'[u].super = token[u].super
    <2>1. CASE ExpireToken(t)
      BY <2>1 DEF ExpireToken, GateInv, RowsInv, TokenRows
    <2>2. CASE \E r \in Gated : RevokeAPIToken(r, t)
      BY <2>2 DEF RevokeAPIToken, GateInv, RowsInv, TokenRows
    <2>3. ASSUME NEW r \in Gated, NEW super \in BOOLEAN, CreateAPIToken(r, t, super)
          PROVE  <1>2!1 /\ <1>2!2
      <3>1. req[r].org \in orgs
        BY <2>3 DEF CreateAPIToken, Ready, GateInv, RequestsInv, RequestInv, Resolved
      <3> QED BY <2>3, <3>1 DEF CreateAPIToken, GateInv, RowsInv, TokenRows
    <2> QED BY <2>1, <2>2, <2>3
  <1>3. RowsInv'
    BY <1>1, <1>2 DEF GateInv, RowsInv, MembersAreAtHome
  <1>4. ASSUME NEW r \in Gated PROVE RequestInv(r)'
    BY <1>1, <1>2, OrgAssumption
       DEF GateInv, RequestsInv, RequestInv, Known, System, UpToDate, Resolved, Right, Administers
  <1> QED BY <1>1, <1>3, <1>4 DEF GateInv, RequestsInv

LEMMA GateStep == GateInv /\ [OrgNext]_orgVars => GateInv'
  <1> SUFFICES ASSUME GateInv, [OrgNext]_orgVars PROVE GateInv'
    OBVIOUS
  <1>1. CASE UNCHANGED orgVars
    BY <1>1 DEF orgVars, GateInv, RowsInv, MembersAreAtHome, RequestsInv, RequestInv, Known,
                System, UpToDate, Resolved, Right, Administers
  <1>2. ASSUME NEW r \in Gated, Respond(r) PROVE GateInv'
    BY <1>2, FinishKeeps DEF Respond
  <1>3. ASSUME NEW r \in Gated, NEW o \in Orgs, NEW p \in People,
               RemoveOrgMember(r, o, p) \/ \E role \in {"member", "org-admin"} : AddOrgMember(r, o, p, role)
        PROVE  GateInv'
    BY <1>3, MemberStep
  <1>4. ASSUME NEW r \in Gated, NEW p \in People, OnboardPerson(r, p) PROVE GateInv'
    BY <1>4, OrgAssumption, MemberStep
  <1>5. ASSUME NEW r \in Gated, NEW h, OrgContextMiddleware(r, h) PROVE GateInv'
    BY <1>5, ResolveStep
  <1>6. CASE OrgNext
    BY <1>2, <1>3, <1>4, <1>5, <1>6, ArriveStep, CreateOrgStep, TokenStep DEF OrgNext
  <1> QED BY <1>1, <1>6

LEMMA GateInit == OrgInit => GateInv
  <1> SUFFICES ASSUME OrgInit PROVE GateInv
    OBVIOUS
  <1>1. orgs = {DefaultOrg} /\ home \in [People -> SUBSET orgs]
    BY DEF OrgInit
  <1>2. token \in [ApiTokens -> TokenRows] /\ \A t \in ApiTokens : token[t].org \in orgs
    BY OrgAssumption DEF OrgInit, NoToken, TokenRows
  <1>3. RowsInv
    BY <1>1, <1>2, OrgAssumption DEF OrgInit, RowsInv, MembersAreAtHome, Roles
  <1>4. RequestsInv
    BY DEF OrgInit, RequestsInv, RequestInv
  <1> QED BY <1>3, <1>4 DEF GateInv

LEMMA GateInvHolds == OrgSpec => []GateInv
  BY GateInit, GateStep, PTL DEF OrgSpec

(* A request acts in an organisation only if, at some moment since it        *)
(* arrived, its principal had a right to it (OrgContextMiddleware,           *)
(* handleAPIToken), however members, tokens and organisations change.        *)
THEOREM RequestsActWhereTheyStand == OrgSpec => []ActsWhereItStands
  <1>1. GateInv => ActsWhereItStands
    BY DEF GateInv, RequestsInv, RequestInv, Resolved, Ready, ActsWhereItStands
  <1> QED BY <1>1, GateInvHolds, PTL

(* No order of AddOrgMember, RemoveOrgMember, onboarding and CreateOrg binds *)
(* a user to an organisation that is not their own.                          *)
THEOREM MembersStayAtHome == OrgSpec => []MembersAreAtHome
  <1>1. GateInv => MembersAreAtHome
    BY DEF GateInv, RowsInv
  <1> QED BY <1>1, GateInvHolds, PTL

(* A membership is changed only by a request whose principal administered    *)
(* that organisation at some moment since it arrived                         *)
(* (requireOwnOrgOrSystemAdmin), or when the person is first onboarded.      *)
THEOREM AdminsChangeMembers == OrgSpec => OnlyAdminsChangeMembers
  <1>1. ASSUME GateInv, OrgNext PROVE MembershipStep
    <2> SUFFICES ASSUME NEW p \in People, NEW o \in Orgs, member'[p][o] # member[p][o]
                 PROVE  home'[p] # home[p] \/ \E r \in Gated : Ready(r) /\ o \in admin[r]
      BY DEF MembershipStep
    <2>1. ASSUME NEW r \in Gated, NEW x \in People, OnboardPerson(r, x) PROVE home'[p] # home[p]
      <3>1. x = p
        BY <1>1, <2>1 DEF OnboardPerson, GateInv, RowsInv
      <3> QED BY <1>1, <2>1, <3>1 DEF OnboardPerson, GateInv, RowsInv
    <2>2. ASSUME NEW r \in Gated, NEW y \in Orgs, NEW x \in People,
                 \/ RemoveOrgMember(r, y, x)
                 \/ \E role \in {"member", "org-admin"} : AddOrgMember(r, y, x, role)
          PROVE  Ready(r) /\ o \in admin[r]
      <3>1. x = p /\ y = o /\ Ready(r) /\ OwnOrgOrSystemAdmin(r, o)
        BY <1>1, <2>2 DEF RemoveOrgMember, AddOrgMember, GateInv, RowsInv
      <3>2. o \in orgs
        BY <1>1, <2>2, <3>1 DEF RemoveOrgMember, AddOrgMember, GateInv, RowsInv, MembersAreAtHome
      <3> QED BY <1>1, <3>1, <3>2, CallerAdministers
    <2>3. CASE member' = member
      BY <2>3
    <2> QED
      BY <1>1, <2>1, <2>2, <2>3
         DEF OrgNext, AuthenticateJWT, handleAPIToken, RevokeAPIToken, CreateAPIToken,
             OrgContextMiddleware, CreateOrg, Respond, ExpireToken
  <1>2. GateInv /\ [OrgNext]_orgVars => [MembershipStep]_orgVars
    BY <1>1
  <1> QED BY <1>2, GateInvHolds, PTL DEF OrgSpec, OnlyAdminsChangeMembers
=============================================================================
