----------------------------- MODULE Offboarding ----------------------------
(***************************************************************************)
(* The account of one user while requests offboard it, patch it and link   *)
(* devices to it.  Keycloak's "enabled", the users row's "disabled", the   *)
(* sessions in Keycloak and the devices in FleetDM are changed one after   *)
(* the other, by requests that take no common lock.                        *)
(*                                                                         *)
(* enabled   Keycloak accepts logins of the user                           *)
(* disabled  users.disabled                                                *)
(* sessions  the user's sessions in Keycloak                               *)
(* linked    per enrollment token: the hosts it linked to the user         *)
(* used      enrollment tokens with used_at set                            *)
(* link      per host: the token its open linkEnrolledDevice transaction   *)
(*           has updated, whose row is locked until the transaction ends   *)
(* wiped     hosts FleetDM was told to wipe                                *)
(* op        per request: its kind, its step and its local variables       *)
(* done      an offboard went through in every step, and no request to     *)
(*           change the profile came after it                              *)
(* solo      no two requests overlapped of which one was a PatchUser       *)
(* clean     no crash, lost answer of Keycloak or failed restore           *)
(***************************************************************************)
EXTENDS Integers, Sequences, FiniteSets

CONSTANTS Requests,   \* concurrent requests
          Patchers,   \* those of them that may be a PatchUser
          Kinds,      \* the handlers that offboard: "offboard", "approved", "scim"
          Sessions,   \* sessions Keycloak may open
          Tokens,     \* enrollment tokens issued for the user
          Hosts,      \* hosts that may enroll
          NoToken

ASSUME OffboardingAssumption ==
    /\ NoToken \notin Tokens
    /\ Patchers \subseteq Requests
    /\ Kinds \subseteq {"offboard", "approved", "scim"}

VARIABLES enabled, disabled, sessions, linked, used, link, wiped, op, done, solo, clean

account == <<enabled, disabled, sessions>>
devices == <<linked, used, link, wiped>>
vars == <<account, devices, op, done, solo, clean>>

\* step      position in the sequence of steps of the kind
\* ok        no step so far has failed
\* seen      the sessions listed
\* owed      the hosts linked when the request began
\* left      the hosts found and not yet wiped
\* cur, want the disabled flag PatchUser loaded, the enabled flag it writes
\* absent    PatchUser's body has no "enabled"
NoOp == [kind |-> "none", step |-> 1, ok |-> TRUE, seen |-> {}, owed |-> {}, left |-> {},
         cur |-> FALSE, want |-> FALSE, absent |-> FALSE]

Mapped == UNION {linked[t] : t \in Tokens}

Init ==
    /\ enabled = TRUE /\ disabled = FALSE /\ sessions = {}
    /\ linked = [t \in Tokens |-> {}] /\ used = {} /\ wiped = {}
    /\ link = [h \in Hosts |-> NoToken]
    /\ op = [r \in Requests |-> NoOp]
    /\ done = FALSE /\ solo = TRUE /\ clean = TRUE

\* Mutant: the sessions are ended before the account is locked.
LogoutFirst == <<"list", "logout", "disable", "local", "lookup", "wipe", "report">>

\* The steps of Offboard (its deprovisioning is in Provisioning) ...
OffboardSteps == <<"disable", "local", "list", "logout", "lookup", "wipe", "report">>

\* ... of the "offboard" case of executeApprovedAction ...
ApprovedSteps == <<"disable", "list", "logout", "local", "lookup", "wipe", "report">>

\* ... of SCIMDeleteUser ...
ScimSteps == <<"disable", "local", "report">>

\* ... and of PatchUser.
PatchSteps == <<"update", "save", "restore">>

Order(kind) ==
    CASE kind = "offboard" -> OffboardSteps
      [] kind = "approved" -> ApprovedSteps
      [] kind = "scim"     -> ScimSteps
      [] kind = "patch"    -> PatchSteps
      [] OTHER             -> <<"idle">>

At(r, name) == Order(op[r].kind)[op[r].step] = name

Idle(r) == op[r].kind = "none"

\* r goes on to its next step, with the flag good added to its record.
Forward(r, good) == [op[r] EXCEPT !.step = @ + 1, !.ok = @ /\ good]

\* A request begins: does it overlap with another, one of them a PatchUser?
Overlap(kind) ==
    \E q \in Requests : ~ Idle(q) /\ (kind = "patch" \/ op[q].kind = "patch")

-----------------------------------------------------------------------------
(* Offboard, executeApprovedAction, SCIMDeleteUser.                        *)

StartOffboard(r, kind) ==
    /\ Idle(r)
    /\ op' = [op EXCEPT ![r] = [NoOp EXCEPT !.kind = kind, !.owed = Mapped]]
    /\ solo' = (solo /\ ~ Overlap(kind))
    /\ UNCHANGED <<account, devices, done, clean>>

\* Keycloak: read the user, write it back with enabled = false.
DisableUser(r) ==
    /\ At(r, "disable")
    /\ enabled' = FALSE
    /\ op' = [op EXCEPT ![r] = Forward(r, TRUE)]
    /\ UNCHANGED <<disabled, sessions, devices, done, solo, clean>>

\* Mutant: the local flag is set although Keycloak refused.
DisableFailsQuietly(r) ==
    /\ At(r, "disable")
    /\ op' = [op EXCEPT ![r] = Forward(r, FALSE)]
    /\ UNCHANGED <<account, devices, done, solo, clean>>

\* The call fails, and may have been applied.  Offboard leaves out the local
\* flag and goes on with the sessions; the other two handlers give up.
DisableFails(r) ==
    /\ At(r, "disable")
    /\ enabled' \in {enabled, FALSE}
    /\ op' = [op EXCEPT ![r] = IF op[r].kind = "offboard"
                               THEN [Forward(r, FALSE) EXCEPT !.step = @ + 1]
                               ELSE NoOp]
    /\ UNCHANGED <<disabled, sessions, devices, done, solo, clean>>

\* UPDATE users SET disabled = true; a failure is a warning.
MarkDisabled(r) ==
    /\ At(r, "local")
    /\ \/ disabled' = TRUE /\ op' = [op EXCEPT ![r] = Forward(r, TRUE)]
       \/ disabled' \in {disabled, TRUE} /\ op' = [op EXCEPT ![r] = Forward(r, FALSE)]
    /\ UNCHANGED <<enabled, sessions, devices, done, solo, clean>>

\* LogoutAllSessions lists the sessions and then ends the listed ones.
ListSessions(r) ==
    /\ At(r, "list")
    /\ op' = [op EXCEPT ![r] = [Forward(r, TRUE) EXCEPT !.seen = sessions]]
    /\ UNCHANGED <<account, devices, done, solo, clean>>

EndSessions(r) ==
    /\ At(r, "logout")
    /\ \/ sessions' = sessions \ op[r].seen /\ op' = [op EXCEPT ![r] = Forward(r, TRUE)]
       \/ /\ sessions' \in {sessions \ S : S \in SUBSET op[r].seen}
          /\ op' = [op EXCEPT ![r] = Forward(r, FALSE)]
    /\ UNCHANGED <<enabled, disabled, devices, done, solo, clean>>

\* wipeUserDevices reads the mapping; an error is a warning, and what was read
\* before it is wiped all the same.
Lookup(r) ==
    /\ At(r, "lookup")
    /\ \/ op' = [op EXCEPT ![r] = [Forward(r, TRUE) EXCEPT !.left = Mapped]]
       \/ \E S \in SUBSET Mapped : op' = [op EXCEPT ![r] = [Forward(r, FALSE) EXCEPT !.left = S]]
    /\ UNCHANGED <<account, devices, done, solo, clean>>

\* One IssueRemoteWipe; a failure is counted and the loop goes on.
Wipe(r, h) ==
    /\ At(r, "wipe") /\ h \in op[r].left
    /\ \/ wiped' = wiped \cup {h} /\ op' = [op EXCEPT ![r].left = @ \ {h}]
       \/ wiped' \in {wiped, wiped \cup {h}}
          /\ op' = [op EXCEPT ![r].left = @ \ {h}, ![r].ok = FALSE]
    /\ UNCHANGED <<account, linked, used, link, done, solo, clean>>

WipesOver(r) ==
    /\ At(r, "wipe") /\ op[r].left = {}
    /\ op' = [op EXCEPT ![r] = Forward(r, TRUE)]
    /\ UNCHANGED <<account, devices, done, solo, clean>>

\* The request ends.  It is done when every step went through; SCIMDeleteUser
\* promises nothing about sessions and devices.
Report(r) ==
    /\ At(r, "report")
    /\ done' = (done \/ (op[r].ok /\ op[r].kind # "scim"))
    /\ op' = [op EXCEPT ![r] = NoOp]
    /\ UNCHANGED <<account, devices, solo, clean>>

-----------------------------------------------------------------------------
(* PatchUser.                                                              *)

\* The row is loaded and merged with the body; field is what the body says of
\* "enabled", if anything.
PatchUser(r, field) ==
    /\ Idle(r)
    /\ op' = [op EXCEPT ![r] = [NoOp EXCEPT !.kind = "patch", !.cur = disabled,
                 !.want = IF field = "absent" THEN ~ disabled ELSE field = "true",
                 !.absent = (field = "absent")]]
    /\ solo' = (solo /\ ~ Overlap("patch"))
    /\ done' = FALSE
    /\ UNCHANGED <<account, devices, clean>>

PatchKeycloak(r) ==
    /\ At(r, "update")
    /\ enabled' = op[r].want
    /\ op' = [op EXCEPT ![r] = Forward(r, TRUE)]
    /\ UNCHANGED <<disabled, sessions, devices, done, solo, clean>>

\* Keycloak's error ends the request, also when the update was applied.
PatchKeycloakFails(r) ==
    /\ At(r, "update")
    /\ \/ UNCHANGED <<enabled, clean>>
       \/ enabled' = op[r].want /\ clean' = FALSE
    /\ op' = [op EXCEPT ![r] = NoOp]
    /\ UNCHANGED <<disabled, sessions, devices, done, solo>>

PatchSave(r) ==
    /\ At(r, "save")
    /\ disabled' = ~ op[r].want
    /\ op' = [op EXCEPT ![r] = NoOp]
    /\ UNCHANGED <<enabled, sessions, devices, done, solo, clean>>

\* The UPDATE fails, or its answer is lost after it was applied.
PatchSaveFails(r) ==
    /\ At(r, "save")
    /\ \/ UNCHANGED <<disabled, clean>>
       \/ disabled' = ~ op[r].want /\ clean' = FALSE
    /\ op' = [op EXCEPT ![r] = Forward(r, FALSE)]
    /\ UNCHANGED <<enabled, sessions, devices, done, solo>>

\* The compensating write puts back what was loaded; its failure is logged.
PatchRestore(r) ==
    /\ At(r, "restore")
    /\ \/ enabled' = ~ op[r].cur /\ UNCHANGED clean
       \/ UNCHANGED enabled /\ clean' = FALSE
    /\ op' = [op EXCEPT ![r] = NoOp]
    /\ UNCHANGED <<disabled, sessions, devices, done, solo>>

\* The replica dies in the middle of the request.
Crash(r) ==
    /\ ~ Idle(r)
    /\ op' = [op EXCEPT ![r] = NoOp]
    /\ clean' = FALSE
    /\ UNCHANGED <<account, devices, done, solo>>

-----------------------------------------------------------------------------
(* linkEnrolledDevice, and Keycloak's side of a login.                     *)

\* Mutant: the token is checked by a SELECT that takes no lock.
ConsumeUnlocked(h, t) ==
    /\ link[h] = NoToken
    /\ t \notin used
    /\ link' = [link EXCEPT ![h] = t]
    /\ UNCHANGED <<account, linked, used, wiped, op, done, solo, clean>>

\* UPDATE enrollment_tokens ... WHERE used_at IS NULL: waits for another
\* transaction that updated the row, and matches nothing once that committed.
Consume(h, t) ==
    /\ link[h] = NoToken
    /\ t \notin used
    /\ \A g \in Hosts : link[g] # t
    /\ link' = [link EXCEPT ![h] = t]
    /\ UNCHANGED <<account, linked, used, wiped, op, done, solo, clean>>

\* The device, the mapping and the used token become visible together.
CommitLink(h) ==
    LET t == link[h] IN
    /\ t # NoToken
    /\ linked' = [linked EXCEPT ![t] = @ \cup {h}]
    /\ used' = used \cup {t}
    /\ link' = [link EXCEPT ![h] = NoToken]
    /\ UNCHANGED <<account, wiped, op, done, solo, clean>>

RollbackLink(h) ==
    /\ link[h] # NoToken
    /\ link' = [link EXCEPT ![h] = NoToken]
    /\ UNCHANGED <<account, linked, used, wiped, op, done, solo, clean>>

\* Keycloak opens a session for an enabled account.
Login(s) ==
    /\ enabled
    /\ s \notin sessions
    /\ sessions' = sessions \cup {s}
    /\ UNCHANGED <<enabled, disabled, devices, op, done, solo, clean>>

-----------------------------------------------------------------------------

Step(r) ==
    \/ DisableUser(r) \/ DisableFails(r) \/ MarkDisabled(r)
    \/ ListSessions(r) \/ EndSessions(r)
    \/ Lookup(r) \/ (\E h \in Hosts : Wipe(r, h)) \/ WipesOver(r) \/ Report(r)
    \/ PatchKeycloak(r) \/ PatchKeycloakFails(r)
    \/ PatchSave(r) \/ PatchSaveFails(r) \/ PatchRestore(r)

Next ==
    \/ \E r \in Requests, kind \in Kinds : StartOffboard(r, kind)
    \/ \E r \in Patchers, field \in {"absent", "true", "false"} : PatchUser(r, field)
    \/ \E r \in Requests : Step(r) \/ Crash(r)
    \/ \E h \in Hosts : (\E t \in Tokens : Consume(h, t)) \/ CommitLink(h) \/ RollbackLink(h)
    \/ \E s \in Sessions : Login(s)

Spec == Init /\ [][Next]_vars

-----------------------------------------------------------------------------
(* Properties.                                                             *)

\* Type invariant: flags, sets and the local variables of the requests.
TypeOK ==
    /\ {enabled, disabled, done, solo, clean} \subseteq BOOLEAN
    /\ sessions \subseteq Sessions
    /\ linked \in [Tokens -> SUBSET Hosts] /\ used \subseteq Tokens
    /\ link \in [Hosts -> Tokens \cup {NoToken}]
    /\ wiped \subseteq Mapped
    /\ \A r \in Requests :
          /\ op[r].kind \in {"none", "offboard", "approved", "scim", "patch"}
          /\ op[r].step \in DOMAIN Order(op[r].kind)
          /\ op[r].seen \subseteq Sessions
          /\ op[r].owed \cup op[r].left \subseteq Mapped

\* The promise of an offboard that met no failure: as long as no PatchUser
\* overlapped with it or came after it, the account is locked in both stores and
\* no session is left, also not one opened while the offboard was running.
OffboardHolds == solo /\ done => ~ enabled /\ disabled /\ sessions = {}

\* The local flag is set only on an account that Keycloak has locked, once the
\* requests are over and if PatchUser ran alone and no fault was met.
NoSplitBrain == solo /\ clean /\ (\A r \in Requests : Idle(r)) => (disabled => ~ enabled)

\* An offboard that has met no failure wipes, or still has on its list, every host
\* that was linked to the user when it began.
NoDeviceForgotten ==
    \A r \in Requests :
       (At(r, "wipe") \/ (At(r, "report") /\ op[r].kind # "scim")) /\ op[r].ok
          => op[r].owed \subseteq wiped \cup op[r].left

\* Callbacks that race with the same enrollment token link one host.
OneHostPerToken == \A t \in Tokens : Cardinality(linked[t]) <= 1

\* The devices of a leaver are accounted for: those linked are wiped or listed, and
\* no second host slips in on a used token (Offboard, FleetEnrollmentCallback).
DevicesAccounted == NoDeviceForgotten /\ OneHostPerToken

\* What the comment of PatchUserRequest says: only the fields in the body are
\* applied, so a patch that does not mention "enabled" leaves it as it is.
PatchAppliesOnlyItsFields ==
    [][\A r \in Requests : PatchKeycloak(r) /\ op[r].absent => enabled' = enabled]_vars

=============================================================================
