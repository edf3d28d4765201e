------------------------------ MODULE OrgGate ------------------------------
(* Whose data a request may touch: API tokens (middleware/auth.go,           *)
(* handlers/api_tokens.go), organisations and their members                  *)
(* (handlers/orgs.go), the resolution of the active organisation             *)
(* (middleware/org.go) and the per-resource check (orgscope, org_scope.go).  *)
(* A request is authenticated, given an organisation and then reaches its    *)
(* handler; memberships and tokens change between any two of these steps.    *)
EXTENDS Naturals, FiniteSets

CONSTANTS People, Supers, Orgs, DefaultOrg, ApiTokens, Gated

(* the requests in flight are model values; DefaultOrg is the migrated one   *)
ASSUME OrgAssumption ==
  Supers \subseteq People /\ People \cap ApiTokens = {} /\ DefaultOrg \in Orgs

VARIABLES
  orgs,     \* the rows of organizations
  home,     \* users.org_id, {} for a person without a users row
  member,   \* org_memberships: person -> org -> "none", "member", "org-admin"
  token,    \* api_tokens: [org, super, state]
  req,      \* request -> its principal, claims and organisation context
  standing, \* history: request -> the orgs its principal had a right to
  admin     \* history: request -> the orgs its principal was an admin of

orgVars == <<orgs, home, member, token, req, standing, admin>>

NoToken == [org |-> DefaultOrg, super |-> FALSE, state |-> "none"]
NoReq == [pc |-> "idle"]

(* Migration 43 made every existing user an admin of the default             *)
(* organisation; onboarding makes later ones members of the caller's.        *)
OrgInit ==
  /\ orgs = {DefaultOrg}
  /\ \E known \in SUBSET (People \ Supers) :
       home = [p \in People |-> IF p \in known THEN {DefaultOrg} ELSE {}]
  /\ member = [p \in People |-> [o \in Orgs |->
                 IF o \in home[p] THEN "org-admin" ELSE "none"]]
  /\ token = [t \in ApiTokens |-> NoToken]
  /\ req = [r \in Gated |-> NoReq]
  /\ standing = [r \in Gated |-> {}]
  /\ admin = [r \in Gated |-> {}]

(* the organisations a principal has a right to, and those it administers    *)
Right(who, m, os) ==
  IF who \in ApiTokens THEN {token[who].org}
  ELSE {o \in os : m[who][o] # "none" \/ who \in Supers}

Administers(who, m, os) ==
  IF who \in ApiTokens
  THEN IF token[who].super THEN os ELSE {}
  ELSE {o \in os : m[who][o] = "org-admin" \/ who \in Supers}

(* histories of the requests in flight after members or organisations change *)
Remember(m, os) ==
  /\ standing' = [r \in Gated |-> IF req[r] = NoReq THEN {}
                    ELSE standing[r] \cup Right(req[r].who, m, os)]
  /\ admin' = [r \in Gated |-> IF req[r] = NoReq THEN {}
                 ELSE admin[r] \cup Administers(req[r].who, m, os)]

Start(r, q) ==
  /\ req[r] = NoReq
  /\ req' = [req EXCEPT ![r] = q]
  /\ standing' = [standing EXCEPT ![r] = Right(q.who, member, orgs)]
  /\ admin' = [admin EXCEPT ![r] = Administers(q.who, member, orgs)]

(* A JWT carries the global role; its organisation is still to be resolved.  *)
AuthenticateJWT(r, p) ==
  /\ Start(r, [pc |-> "resolve", who |-> p, super |-> p \in Supers])
  /\ UNCHANGED <<orgs, home, member, token>>

(* handleAPIToken: a live token comes with the organisation it was made in.  *)
handleAPIToken(r, t) ==
  /\ token[t].state = "live"
  /\ Start(r, [pc |-> "ready", who |-> t, super |-> token[t].super,
               org |-> token[t].org,
               role |-> IF token[t].super THEN "org-admin" ELSE "none"])
  /\ UNCHANGED <<orgs, home, member, token>>

Finish(r) ==
  /\ req' = [req EXCEPT ![r] = NoReq]
  /\ standing' = [standing EXCEPT ![r] = {}]
  /\ admin' = [admin EXCEPT ![r] = {}]

Become(r, o, role) ==
  /\ req' = [req EXCEPT ![r] =
       [pc |-> "ready", who |-> @.who, super |-> @.super, org |-> o, role |-> role]]
  /\ UNCHANGED <<standing, admin>>

Memberships(p) == {o \in Orgs : member[p][o] # "none"}

(* Mutant: without a header, any membership will do.                         *)
ResolveGuessing(r, header) ==
  /\ req[r] # NoReq /\ req[r].pc = "resolve"
  /\ \E o \in orgs : Become(r, o, "member")
  /\ UNCHANGED <<orgs, home, member, token>>

(* OrgContextMiddleware: the requested organisation if the caller is in it   *)
(* (or is a system admin and it exists), else the only membership, else the  *)
(* default organisation for a system admin; anything else is refused.        *)
OrgContextMiddleware(r, header) ==
  /\ req[r] # NoReq /\ req[r].pc = "resolve"
  /\ LET mine == Memberships(req[r].who) IN
     \/ \E o \in header : o \in mine /\ Become(r, o, member[req[r].who][o])
     \/ \E o \in header :
          /\ o \notin mine /\ req[r].super /\ o \in orgs
          /\ Become(r, o, "org-admin")
     \/ \E o \in header : o \notin mine /\ ~(req[r].super /\ o \in orgs) /\ Finish(r)
     \/ header = {} /\ Cardinality(mine) = 1
        /\ \E o \in mine : Become(r, o, member[req[r].who][o])
     \/ header = {} /\ Cardinality(mine) > 1 /\ Finish(r)
     \/ header = {} /\ mine = {} /\ req[r].super /\ Become(r, DefaultOrg, "org-admin")
     \/ header = {} /\ mine = {} /\ ~req[r].super /\ Finish(r)
  /\ UNCHANGED <<orgs, home, member, token>>

Ready(r) == req[r] # NoReq /\ req[r].pc = "ready"

(* Mutant: an admin of any organisation passes.                              *)
AnyOrgAdmin(r, o) == req[r].super \/ req[r].role = "org-admin"

(* RequireOrgAdminOrSystemAdmin, then requireOwnOrgOrSystemAdmin.            *)
OwnOrgOrSystemAdmin(r, o) ==
  req[r].super \/ (req[r].role = "org-admin" /\ req[r].org = o)

(* CreateOrg needs the manage:orgs permission, which only super-admins have. *)
CreateOrg(r, o) ==
  /\ Ready(r) /\ req[r].super /\ o \notin orgs
  /\ orgs' = orgs \cup {o}
  /\ Remember(member, orgs')
  /\ UNCHANGED <<home, member, token, req>>

(* A person is onboarded into the organisation of the caller.                *)
OnboardPerson(r, p) ==
  /\ Ready(r) /\ req[r].super /\ home[p] = {} /\ p \notin Supers
  /\ home' = [home EXCEPT ![p] = {req[r].org}]
  /\ member' = [member EXCEPT ![p][req[r].org] = "member"]
  /\ Remember(member', orgs)
  /\ UNCHANGED <<orgs, token, req>>

(* AddOrgMember: only a user whose own organisation it is, new or with a new *)
(* role.                                                                     *)
AddOrgMember(r, o, p, role) ==
  /\ Ready(r) /\ OwnOrgOrSystemAdmin(r, o) /\ o \in home[p]
  /\ member' = [member EXCEPT ![p][o] = role]
  /\ Remember(member', orgs)
  /\ UNCHANGED <<orgs, home, token, req>>

RemoveOrgMember(r, o, p) ==
  /\ Ready(r) /\ OwnOrgOrSystemAdmin(r, o) /\ member[p][o] # "none"
  /\ member' = [member EXCEPT ![p][o] = "none"]
  /\ Remember(member', orgs)
  /\ UNCHANGED <<orgs, home, token, req>>

(* CreateAPIToken needs manage:api-tokens (super-admins); the token belongs  *)
(* to the organisation of the request that made it.                          *)
CreateAPIToken(r, t, super) ==
  /\ Ready(r) /\ req[r].super /\ token[t].state = "none"
  /\ token' = [token EXCEPT ![t] =
                 [org |-> req[r].org, super |-> super, state |-> "live"]]
  /\ UNCHANGED <<orgs, home, member, req, standing, admin>>

(* RevokeAPIToken reaches only tokens of the caller's organisation.          *)
RevokeAPIToken(r, t) ==
  /\ Ready(r) /\ req[r].super
  /\ token[t].org = req[r].org /\ token[t].state \in {"live", "expired"}
  /\ token' = [token EXCEPT ![t].state = "revoked"]
  /\ UNCHANGED <<orgs, home, member, req, standing, admin>>

ExpireToken(t) ==
  /\ token[t].state = "live"
  /\ token' = [token EXCEPT ![t].state = "expired"]
  /\ UNCHANGED <<orgs, home, member, req, standing, admin>>

(* RequireResourceInCallerOrg: a resource of another organisation is "not    *)
(* found", so a request works on its own organisation's resources or ends.   *)
Respond(r) ==
  /\ Ready(r) /\ Finish(r)
  /\ UNCHANGED <<orgs, home, member, token>>

OrgNext ==
  \/ \E r \in Gated :
       \/ \E p \in People : AuthenticateJWT(r, p) \/ OnboardPerson(r, p)
       \/ \E t \in ApiTokens :
            \/ handleAPIToken(r, t) \/ RevokeAPIToken(r, t)
            \/ \E super \in BOOLEAN : CreateAPIToken(r, t, super)
       \/ \E header \in {{}} \cup {{o} : o \in Orgs} : OrgContextMiddleware(r, header)
       \/ \E o \in Orgs : \/ CreateOrg(r, o)
                          \/ \E p \in People :
                               \/ RemoveOrgMember(r, o, p)
                               \/ \E role \in {"member", "org-admin"} :
                                    AddOrgMember(r, o, p, role)
       \/ Respond(r)
  \/ \E t \in ApiTokens : ExpireToken(t)

OrgSpec == OrgInit /\ [][OrgNext]_orgVars

(* A request acts in an organisation only if at some moment since it arrived *)
(* its principal had a right to it: as a member, as a system admin of an     *)
(* organisation that exists, or as a token made in it.                       *)
ActsWhereItStands ==
  \A r \in Gated : Ready(r) => req[r].org \in standing[r] \cap orgs

(* Members are people of the organisation: no order of adding, removing and  *)
(* creating binds a user to an organisation that is not their own.           *)
MembersAreAtHome ==
  \A p \in People, o \in Orgs : member[p][o] # "none" => o \in home[p]

MembershipStep ==
  \A p \in People, o \in Orgs :
     member'[p][o] # member[p][o] =>
       \/ home'[p] # home[p]
       \/ \E r \in Gated : Ready(r) /\ o \in admin[r]

(* A person's membership changes only through a request whose principal was  *)
(* an admin of that organisation, or a system admin, at some moment since    *)
(* the request arrived (or when the person is first onboarded).              *)
OnlyAdminsChangeMembers == [][MembershipStep]_orgVars
=============================================================================
