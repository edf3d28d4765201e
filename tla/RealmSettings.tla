---------------------------- MODULE RealmSettings ----------------------------
(***************************************************************************)
(* The settings that live in two stores.  PUT /settings/smtp writes the    *)
(* smtp_config row and then mirrors it into the Keycloak realm, restoring  *)
(* the row when Keycloak refuses; PUT /account-policy writes the realm     *)
(* only.  Both writers of the realm read the whole representation, change  *)
(* their fields and write the whole back (UpdateRealmSMTP,                 *)
(* UpdateRealmPolicy).                                                     *)
(*                                                                         *)
(* A relay stands for host, port, user and sender; "" is the one migration *)
(* 42 seeds.  A stored password can be decrypted while the master key is   *)
(* the one it was encrypted with.                                          *)
(***************************************************************************)
EXTENDS Naturals, Sequences

CONSTANTS Savers, Relays, Passwords, NoPassword, MaxKeys, Components, Wishes

Fields == {Components[i] : i \in DOMAIN Components}

ASSUME SettingsAssumption == NoPassword \notin Passwords /\ Wishes \subseteq [Fields -> Nat]

VARIABLES
    smtpRow,    \* smtp_config: relay, password and the key it is encrypted with
    realm,      \* the realm's relay, its password and its passwordPolicy string
    save,       \* per request: where it is and what it holds
    masterKey,  \* PROVISIONING_MASTER_KEY
    wanted,     \* the account policy of the last accepted PUT /account-policy
    smooth      \* no requests overlapped, no answer was lost, no restore failed

settingsVars == <<smtpRow, realm, save, masterKey, wanted, smooth>>

Idle == [at |-> "idle"]

\* The policy string is the list of its components in a fixed order, such as
\* length(12) and digits(1); a level of zero is left out.
buildPolicyString(p) ==
    SelectSeq([i \in DOMAIN Components |-> <<Components[i], p[Components[i]]>>],
              LAMBDA component : component[2] > 0)

\* The level of a field in a policy string, 0 when it is absent.
policyParam(policy, f) ==
    IF \E i \in DOMAIN policy : policy[i][1] = f
    THEN policy[CHOOSE i \in DOMAIN policy :
                   policy[i][1] = f /\ \A k \in 1..(i - 1) : policy[k][1] # f][2]
    ELSE 0

SettingsInit ==
    /\ smtpRow = [relay |-> "", pw |-> NoPassword, key |-> 0]
    /\ realm = [relay |-> "", pw |-> NoPassword, policy |-> <<>>]
    /\ save = [c \in Savers |-> Idle]
    /\ masterKey = 0 /\ wanted = [f \in Fields |-> 0] /\ smooth = TRUE

\* A request that starts beside another one, or while the realm is being written.
Alone == \A d \in Savers : save[d] = Idle

\* PUT /settings/smtp: the previous row is read for the compensation.
SaveSMTP(c) ==
    /\ save[c] = Idle
    /\ \E r \in Relays, pw \in Passwords \cup {NoPassword} :
          save' = [save EXCEPT ![c] = [at |-> "write", relay |-> r, pw |-> pw, prev |-> smtpRow]]
    /\ smooth' = (smooth /\ Alone)
    /\ UNCHANGED <<smtpRow, realm, masterKey, wanted>>

\* writeConfig: a password that was given is stored, otherwise the stored one stays.
Written(row, relay, pw) ==
    IF pw = NoPassword THEN [row EXCEPT !.relay = relay]
    ELSE [relay |-> relay, pw |-> pw, key |-> masterKey]

WriteRow(c) ==
    /\ save[c].at = "write"
    /\ \/ smtpRow' = Written(smtpRow, save[c].relay, save[c].pw)
          /\ save' = [save EXCEPT ![c].at = "get"]
       \/ save' = [save EXCEPT ![c] = Idle] /\ UNCHANGED smtpRow
    /\ UNCHANGED <<realm, masterKey, wanted, smooth>>

\* Mutant: what the request carries is sent, an empty password included.
SendGiven(c) == save[c].pw

\* The password for Keycloak: the given one, else the stored one; "" when the
\* stored one cannot be decrypted.
kcPassword(c) ==
    LET prev == save[c].prev
    IN  IF save[c].pw # NoPassword THEN save[c].pw
        ELSE IF prev.key = masterKey THEN prev.pw ELSE NoPassword

\* UpdateRealmSMTP: GET, set the relay, PUT.
GetForSMTP(c) ==
    /\ save[c].at = "get"
    /\ LET doc == [realm EXCEPT !.relay = save[c].relay, !.pw = kcPassword(c)]
       IN  save' = [save EXCEPT ![c] = [at |-> "put", doc |-> doc, prev |-> @.prev]]
    /\ UNCHANGED <<smtpRow, realm, masterKey, wanted, smooth>>

\* Either call fails; a PUT that fails may have been applied.
SMTPFails(c) ==
    /\ save[c].at \in {"get", "put"}
    /\ save' = [save EXCEPT ![c] = [at |-> "restore", prev |-> @.prev]]
    /\ \/ UNCHANGED <<realm, smooth>>
       \/ save[c].at = "put" /\ realm' = save[c].doc /\ smooth' = FALSE
    /\ UNCHANGED <<smtpRow, masterKey, wanted>>

PutSMTP(c) ==
    /\ save[c].at = "put"
    /\ realm' = save[c].doc /\ save' = [save EXCEPT ![c] = Idle]
    /\ UNCHANGED <<smtpRow, masterKey, wanted, smooth>>

\* The previous row is written back, its password too (or its absence); when that
\* fails as well, it is logged.
Restore(c) ==
    /\ save[c].at = "restore"
    /\ save' = [save EXCEPT ![c] = Idle]
    /\ \/ smtpRow' = save[c].prev /\ UNCHANGED smooth
       \/ smooth' = FALSE /\ UNCHANGED smtpRow
    /\ UNCHANGED <<realm, masterKey, wanted>>

\* PUT /account-policy: the values are in range, the string is built; GET ...
UpdateAccountPolicy(c) ==
    /\ save[c] = Idle
    /\ \E p \in Wishes :
          save' = [save EXCEPT ![c] = [at |-> "putPolicy", want |-> p,
                                       doc |-> [realm EXCEPT !.policy = buildPolicyString(p)]]]
    /\ smooth' = (smooth /\ Alone)
    /\ UNCHANGED <<smtpRow, realm, masterKey, wanted>>

\* ... and PUT, or an error without compensation, applied or not.
PutPolicy(c) ==
    /\ save[c].at = "putPolicy"
    /\ save' = [save EXCEPT ![c] = Idle]
    /\ \/ realm' = save[c].doc /\ wanted' = save[c].want /\ UNCHANGED smooth
       \/ realm' = save[c].doc /\ smooth' = FALSE /\ UNCHANGED wanted
       \/ UNCHANGED <<realm, wanted, smooth>>
    /\ UNCHANGED <<smtpRow, masterKey>>

\* The operator changes the master key; what is stored stays as it was encrypted.
ChangeMasterKey ==
    /\ Alone /\ masterKey < MaxKeys /\ masterKey' = masterKey + 1
    /\ UNCHANGED <<smtpRow, realm, save, wanted, smooth>>

SettingsNext ==
    \/ \E c \in Savers :
          \/ SaveSMTP(c) \/ WriteRow(c) \/ GetForSMTP(c) \/ PutSMTP(c) \/ SMTPFails(c) \/ Restore(c)
          \/ UpdateAccountPolicy(c) \/ PutPolicy(c)
    \/ ChangeMasterKey

-----------------------------------------------------------------------------
(* Properties.                                                             *)

\* The two stores describe the same relay with the same password whenever no
\* request is under way, refused saves and failed calls included; the exceptions
\* are overlapping requests, lost answers, a restore that failed as well, and a
\* password the current master key cannot decrypt.
RelaysAgree ==
    Alone /\ smooth /\ (smtpRow.pw # NoPassword => smtpRow.key = masterKey) =>
        smtpRow.relay = realm.relay /\ smtpRow.pw = realm.pw

\* GET /account-policy reads back what the last accepted PUT asked for, field by
\* field, through the policy string, and no save of the relay changes it.
PolicyReadsBack ==
    smooth => \A f \in Fields : policyParam(realm.policy, f) = wanted[f]

\* "decrypt stored password failed; keycloak password left untouched"
\* (UpsertSMTPConfig): a save without a password never takes Keycloak's away.
PasswordLeftUntouched ==
    [][smooth /\ smooth' /\ realm.pw # NoPassword => realm'.pw # NoPassword]_settingsVars

=============================================================================
