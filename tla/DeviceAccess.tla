---------------------------- MODULE DeviceAccess ----------------------------
(* From an enrollment token to a login that depends on the device.  Fleet's  *)
(* callback consumes a token and links a device to its owner; a used token   *)
(* buys the browser a short-lived device cookie; at login the Keycloak       *)
(* authenticator has the backend evaluate the user, the device or devices,   *)
(* their posture as Fleet reports it, and the app's policy.                  *)
(*                                                                           *)
(* Fleet is external: what it answers about a host is any answer it can      *)
(* give.  One login or device check runs at a time, against enrollments,     *)
(* policy changes and disabled users that interleave with its queries.       *)
EXTENDS Clock, FiniteSets, Sequences

CONSTANTS Users, Tokens, Hosts, None,
          TokenTTL,            \* lifetime of the token onboarding issues
          TestTokenTTL,        \* lifetime of the token the APP_ENV=test route issues
          CookieTTL,           \* deviceCookieTTL
          Day,                 \* ticks in a day
          Policies,            \* the policies an administrator may set
          MaxSoftwarePerHost,  \* packages of a host the client keeps
          Bodies,              \* software lists Fleet may answer: flags, TRUE for vulnerable
          MaxChanges           \* bound on changes of the policy and of disabled flags

VARIABLES token,    \* enrollment_tokens
          mapped,   \* users_devices_mapping
          enabled,  \* users rows with disabled = false
          policy,   \* the app's row of app_access_policies
          cookie,   \* the browser's freecloud-device-id cookie
          req,      \* the evaluation in progress
          session,  \* what the step just taken let through, and on what evidence
          changes
deviceVars == <<token, mapped, enabled, policy, cookie, req, session, changes>>

NoWindow == <<>>
NoPolicy == [window |-> NoWindow, restricted |-> FALSE]
Idle == [pc |-> "idle"]

Granting == {"user", "devices", "policy", "details", "software", "conditions", "answer"}

DeviceTypeOK ==
  /\ token \in [Tokens -> {None} \cup [owner : Users, expires : Nat, host : Hosts \cup {None}]]
  /\ mapped \subseteq Users \X Hosts /\ enabled \subseteq Users
  /\ policy \in Policies \cup {NoPolicy}
  /\ cookie \in {None} \cup [host : Hosts, exp : Nat, by : Tokens]
  /\ req.pc \in Granting \cup {"idle"}
  /\ session \in {None} \cup [kind : {"login", "check"}, user : Users, cookie : {None} \cup
        [host : Hosts, exp : Nat, by : Tokens], began : Times, window : Seq(0..Day - 1),
        judged : Times, enrolled : SUBSET Hosts, complete : BOOLEAN, good : SUBSET Hosts, enabledSince : BOOLEAN]

DeviceInit ==
  /\ token = [t \in Tokens |-> None]
  /\ mapped = {} /\ enabled = {} /\ policy = NoPolicy /\ cookie = None
  /\ req = Idle /\ session = None /\ changes = 0

------------------------------------------------------------------------------
(* Enrollment and the device cookie *)

Issue(t, u, ttl) == token' = [token EXCEPT ![t] = [owner |-> u, expires |-> now + ttl, host |-> None]]

(* persistOnboard: the user's row and token commit together                  *)
OnboardWithToken(t, u) ==
  /\ token[t] = None /\ \A s \in Tokens : token[s] # None => token[s].owner # u
  /\ u \notin enabled
  /\ Issue(t, u, TokenTTL)
  /\ enabled' = enabled \cup {u}
  /\ UNCHANGED <<now, mapped, policy, cookie, req, changes>> /\ session' = None

(* the route registered under APP_ENV=test gives an existing user another    *)
E2ECreateEnrollmentToken(t, u) ==
  /\ token[t] = None /\ \E s \in Tokens : token[s] # None /\ token[s].owner = u
  /\ Issue(t, u, TestTokenTTL)
  /\ UNCHANGED <<now, mapped, enabled, policy, cookie, req, changes>> /\ session' = None

(* used_at IS NULL AND expires_at > NOW()                                    *)
Consumable(t) == token[t] # None /\ token[t].host = None /\ token[t].expires > now

(* FleetEnrollmentCallback: token, device and mapping in one transaction.    *)
(* A callback that finds the token not consumable, or whose transaction      *)
(* fails, changes nothing.                                                   *)
FleetEnrollmentCallback(t, h) ==
  /\ Consumable(t)
  /\ token' = [token EXCEPT ![t].host = h]
  /\ mapped' = mapped \cup {<<token[t].owner, h>>}
  /\ UNCHANGED <<now, enabled, policy, cookie, req, changes>> /\ session' = None

(* SetDeviceIdentityCookie: a used token that has not expired                *)
SetDeviceIdentityCookie(t) ==
  /\ token[t] # None /\ token[t].host # None /\ token[t].expires > now
  /\ cookie' = [host |-> token[t].host, exp |-> now + CookieTTL, by |-> t]
  /\ UNCHANGED <<now, token, mapped, enabled, policy, req, changes>> /\ session' = None

(* the browser drops a cookie at its Max-Age, or the user clears it          *)
DropCookie ==
  /\ cookie # None /\ cookie' = None
  /\ UNCHANGED <<now, token, mapped, enabled, policy, req, changes>> /\ session' = None

(* Disable and enable a user, by offboarding, SCIM or the admin route        *)
SetDisabled(u) ==
  /\ changes < MaxChanges /\ changes' = changes + 1
  /\ \E t \in Tokens : token[t] # None /\ token[t].owner = u
  /\ enabled' = IF u \in enabled THEN enabled \ {u} ELSE enabled \cup {u}
  /\ req' = IF req.pc # "idle" /\ u \notin enabled /\ u = req.user
            THEN [req EXCEPT !.enabledSince = TRUE] ELSE req
  /\ UNCHANGED <<now, token, mapped, policy, cookie>> /\ session' = None

(* UpsertAppAccessPolicy: a window needs both bounds                         *)
UpsertAppAccessPolicy(p) ==
  /\ changes < MaxChanges /\ changes' = changes + 1
  /\ policy' = p
  /\ UNCHANGED <<now, token, mapped, enabled, cookie, req>> /\ session' = None

------------------------------------------------------------------------------
(* The evaluation *)

Finish == req' = Idle
Goto(pc) == req' = [req EXCEPT !.pc = pc]
DeviceRest == UNCHANGED <<now, token, mapped, enabled, policy, cookie, changes>>

(* ParseAndVerifyDeviceCookie: the signature holds, only the age is tested   *)
ParseAndVerifyDeviceCookie(c) == now <= c.exp

Begin(kind, u, c, pc) ==
  req' = [pc |-> pc, kind |-> kind, user |-> u, cookie |-> c,
          began |-> now, enabledSince |-> u \in enabled, policy |-> NoPolicy,
          todo |-> {}, enrolled |-> {}, complete |-> TRUE, good |-> {}, at |-> None, judged |-> now,
          reasons |-> FALSE]

(* PostureCheckAuthenticator.authenticate sends the user, the app, the       *)
(* client's address and the cookie if the browser has one; an invalid or     *)
(* expired cookie is refused before any query.                               *)
Authenticate(u) ==
  /\ req.pc = "idle" /\ session' = None
  /\ \E t \in Tokens : token[t] # None /\ token[t].owner = u
  /\ IF cookie # None /\ ~ParseAndVerifyDeviceCookie(cookie)
     THEN Finish
     ELSE Begin("login", u, cookie, "user")
  /\ DeviceRest

(* DeviceCheck: the user's own check of their devices, no cookie, no policy  *)
DeviceCheck(u) ==
  /\ req.pc = "idle" /\ session' = None
  /\ \E t \in Tokens : token[t] # None /\ token[t].owner = u
  /\ Begin("check", u, None, "devices")
  /\ DeviceRest

(* a query fails and the evaluation answers with a denial                    *)
QueryFails ==
  /\ req.pc \in {"user", "devices", "policy"} /\ Finish
  /\ session' = None /\ DeviceRest

CheckUser ==
  /\ req.pc = "user"
  /\ IF req.user \in enabled THEN Goto("devices") ELSE Finish
  /\ session' = None /\ DeviceRest

MappedHosts(u) == {h \in Hosts : <<u, h>> \in mapped}

(* The devices to evaluate: the cookie's host when it is the user's, else    *)
(* all of the user's.  When the iteration breaks off, the login goes on with *)
(* the rows it has (the error is only logged) and the device check fails.    *)
CollectDevices(read) ==
  /\ req.pc = "devices"
  /\ LET all == MappedHosts(req.user)
         scope == IF req.cookie # None THEN all \cap {req.cookie.host} ELSE all
     IN /\ read \subseteq scope
        /\ req.cookie # None => read = scope
        /\ IF read = {} \/ (req.kind = "check" /\ read # scope)
           THEN Finish
           ELSE req' = [req EXCEPT !.pc = IF req.kind = "login" THEN "policy" ELSE "details",
                                   !.todo = read, !.enrolled = scope, !.complete = (read = scope)]
  /\ session' = None /\ DeviceRest

(* no row is the zero policy: nothing but the baseline                       *)
LoadPolicy ==
  /\ req.pc = "policy"
  /\ req' = [req EXCEPT !.pc = "details", !.policy = policy]
  /\ session' = None /\ DeviceRest

AfterDevice(left) == IF left # {} THEN "details"
                     ELSE IF req.kind = "login" THEN "conditions" ELSE "answer"

(* Mutant: a device whose details Fleet did not answer raises no reason      *)
ReadDetailsLeniently(h, ok, answered) ==
  /\ req.pc = "details" /\ h \in req.todo /\ (ok => answered)
  /\ req' = IF answered
            THEN [req EXCEPT !.pc = "software", !.at = h, !.reasons = @ \/ ~ok]
            ELSE [req EXCEPT !.pc = AfterDevice(req.todo \ {h}), !.todo = @ \ {h}]
  /\ session' = None /\ DeviceRest

(* GetHostSecurityState, first call: firewall and disk encryption.  When it  *)
(* fails the device is denied without the second call.                       *)
ReadDetails(h, ok, answered) ==
  /\ req.pc = "details" /\ h \in req.todo /\ (ok => answered)
  /\ req' = IF answered
            THEN [req EXCEPT !.pc = "software", !.at = h, !.reasons = @ \/ ~ok]
            ELSE [req EXCEPT !.pc = AfterDevice(req.todo \ {h}), !.todo = @ \ {h}, !.reasons = TRUE]
  /\ session' = None /\ DeviceRest

(* the vulnerable packages among those GetHostSoftware keeps                 *)
Vulnerable(body) == \E i \in 1..Len(body) : i <= MaxSoftwarePerHost /\ body[i]

(* GetHostSecurityState, second call: the software list, cut at              *)
(* MaxSoftwarePerHost; a failed call is UnknownVulns, which denies.          *)
ReadSoftware(body) ==
  /\ req.pc = "software"
  /\ LET ok   == body # None /\ ~Vulnerable(body)
         left == req.todo \ {req.at}
     IN req' = [req EXCEPT !.pc = AfterDevice(left), !.todo = left, !.at = None,
                           !.good = IF req.reasons THEN {} ELSE IF ok THEN @ \cup {req.at} ELSE @,
                           !.reasons = @ \/ ~ok]
  /\ session' = None /\ DeviceRest

(* evalConditions: from the first bound on, up to the second, past midnight  *)
(* when the first is the later                                               *)
InWindow(m, w) ==
  IF w[1] <= w[2] THEN m >= w[1] /\ m < w[2] ELSE m >= w[1] \/ m < w[2]

(* evalConditions: the time window, then the address against the networks    *)
(* and countries; an address that cannot be placed is outside.  The client's *)
(* address came with the request and is read only here.                      *)
EvalConditions(place) ==
  /\ req.pc = "conditions"
  /\ req' = [req EXCEPT !.pc = "answer", !.judged = now,
                        !.reasons = \/ @
                                    \/ req.policy.window # NoWindow /\ ~InWindow(now % Day, req.policy.window)
                                    \/ req.policy.restricted /\ place = "outside"]
  /\ session' = None /\ DeviceRest

(* The answer: a login goes on when the authenticator reads allow = true.  A *)
(* timeout, a status that is not 2xx or a body it cannot read fails closed.  *)
Answer(delivered) ==
  /\ req.pc = "answer" /\ Finish
  /\ session' = IF req.reasons \/ ~delivered THEN None
                ELSE [kind |-> req.kind, user |-> req.user, cookie |-> req.cookie,
                      began |-> req.began, window |-> req.policy.window,
                      judged |-> req.judged,
                      enrolled |-> req.enrolled, complete |-> req.complete, good |-> req.good,
                      enabledSince |-> req.enabledSince]
  /\ DeviceRest

Tick == ClockTick /\ session' = None /\ UNCHANGED <<token, mapped, enabled, policy, cookie, req, changes>>

DeviceNext ==
  \/ Tick \/ DropCookie \/ QueryFails \/ CheckUser \/ LoadPolicy
  \/ \E t \in Tokens, u \in Users : OnboardWithToken(t, u) \/ E2ECreateEnrollmentToken(t, u)
  \/ \E t \in Tokens, h \in Hosts : FleetEnrollmentCallback(t, h)
  \/ \E t \in Tokens : SetDeviceIdentityCookie(t)
  \/ \E u \in Users : SetDisabled(u) \/ DeviceCheck(u) \/ Authenticate(u)
  \/ \E p \in Policies : UpsertAppAccessPolicy(p)
  \/ \E read \in SUBSET Hosts : CollectDevices(read)
  \/ \E h \in Hosts, ok, answered \in BOOLEAN : ReadDetails(h, ok, answered)
  \/ \E body \in Bodies \cup {None} : ReadSoftware(body)
  \/ \E place \in {"inside", "outside"} : EvalConditions(place)
  \/ \E delivered \in BOOLEAN : Answer(delivered)

------------------------------------------------------------------------------
(* What is let through was checked: the user was not disabled throughout,    *)
(* every device in question is linked to them, and Fleet reported each of    *)
(* them in order, on both counts, during this very evaluation.  Without a    *)
(* cookie that is every device of the user, as issue #202 demands            *)
(* (access_eval.go evaluateDevicesPosture) - unless the listing broke off,   *)
(* when it is those that were read.                                          *)
SessionWasChecked ==
  session # None =>
    /\ session.kind = "login" => session.enabledSince
    /\ session.good # {} /\ session.good \subseteq MappedHosts(session.user)
    /\ session.cookie # None => session.good = {session.cookie.host}
    /\ session.complete => session.good = session.enrolled
    /\ session.kind = "check" => session.complete

(* A device's identity fades: a login under a cookie starts no later than    *)
(* the cookie's lifetime after the token that bought it expired, and under   *)
(* the host that token enrolled (device_identity.go: "caps how long after    *)
(* onboarding the cookie-minting capability stays usable at all").           *)
IdentityExpires ==
  session # None /\ session.cookie # None =>
    LET t == token[session.cookie.by]
    IN session.began < t.expires + CookieTTL /\ session.cookie.host = t.host

(* the offsets from one time of day, up to the next occurrence of another    *)
Ticks(from, to) == {k \in 0..Day - 1 : k < (to + Day - from) % Day}

(* A login under a window happens inside it, where inside is the arc of the  *)
(* day that runs from the first bound, for as many ticks as lead to the      *)
(* second - none at all when the two are equal (access_eval.go               *)
(* evalConditions, which compares the bounds instead).                       *)
LoginsInsideTheWindow ==
  session # None /\ session.window # NoWindow =>
    session.judged % Day \in
      {(session.window[1] + k) % Day :
          k \in Ticks(session.window[1], session.window[2])}

(* A login that went through was justified: the user and the devices, the    *)
(* identity it was made under, and the hour (EvaluateAccess, DeviceCheck).   *)
LoginWasJustified == SessionWasChecked /\ IdentityExpires /\ LoginsInsideTheWindow
==============================================================================
