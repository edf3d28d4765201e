------------------------------- MODULE MfaSelf -------------------------------
(* A user's own MFA page: the factors Keycloak holds, the cache of whether   *)
(* there are any, which the analytics read, and the recovery codes.  The     *)
(* cache is written by goroutines the handlers leave behind; the codes are   *)
(* replaced in a transaction and consumed by a conditional UPDATE.           *)
(*                                                                           *)
(* Keycloak is external: SetRequiredAction is one step here (ScimUsers has   *)
(* its GET and PUT apart), and the next login turns the action to a factor.  *)
EXTENDS Naturals, FiniteSets

CONSTANTS Factors, Callers, Batches, NoBatch, MaxEnrolls

VARIABLES factors,   \* the user's otp and webauthn credentials in Keycloak
          required,  \* CONFIGURE_TOTP, webauthn-register: to be done at login
          page,      \* each request or goroutine at work on the factors
          coverage,  \* mfa_coverage_cache.has_mfa
          settled,   \* the last write was alone from its reading to its end
          batch,     \* mfa_recovery_codes by generation: none, unused, used, gone
          gen,       \* each transaction that generates codes
          latest,    \* the generation that committed last
          spent,     \* how often each code was accepted
          enrolls
mfaVars == <<factors, required, page, coverage, settled, batch, gen, latest, spent, enrolls>>

NoPage == [pc |-> "idle"]
NoGen == [pc |-> "idle"]

MfaInit ==
  /\ factors = {} /\ required = {} /\ enrolls = 0
  /\ page = [c \in Callers |-> NoPage] /\ coverage = FALSE /\ settled = TRUE
  /\ batch = [b \in Batches |-> "none"] /\ gen = [c \in Callers |-> NoGen]
  /\ latest = NoBatch /\ spent = [b \in Batches |-> 0]

CodesRest == UNCHANGED <<batch, gen, latest, spent>>
FactorsRest == UNCHANGED <<factors, required, page, coverage, settled, enrolls>>

------------------------------------------------------------------------------
(* Factors and the coverage cache *)

(* PortalEnrollTOTP, PortalEnrollWebAuthn                                    *)
PortalEnroll(f) ==
  /\ enrolls < MaxEnrolls /\ enrolls' = enrolls + 1
  /\ required' = required \cup {f}
  /\ UNCHANGED <<factors, page, coverage, settled>> /\ CodesRest

(* the login that sets the factor up; the backend does not hear of it        *)
LoginEnrolls(f) ==
  /\ f \in required
  /\ required' = required \ {f} /\ factors' = factors \cup {f}
  /\ settled' = FALSE
  /\ page' = [c \in Callers |-> IF page[c].pc = "idle" THEN NoPage ELSE [page[c] EXCEPT !.alone = FALSE]]
  /\ UNCHANGED <<coverage, enrolls>> /\ CodesRest

Busy(c) == page[c].pc # "idle"
Alone(c) == \A d \in Callers \ {c} : ~Busy(d)

(* a request reads the factors; from then on it is no longer alone if        *)
(* another is at work                                                        *)
Reads(c, rec) ==
  /\ ~Busy(c)
  /\ page' = [d \in Callers |-> IF d = c THEN rec
                                ELSE IF Busy(d) THEN [page[d] EXCEPT !.alone = FALSE] ELSE NoPage]
  /\ UNCHANGED <<factors, required, coverage, settled, enrolls>> /\ CodesRest

(* PortalListMFAFactors: answers, and leaves a goroutine to write the cache  *)
PortalListMFAFactors(c) == Reads(c, [pc |-> "write", has |-> factors # {}, alone |-> Alone(c)])

(* Mutant: the factor about to go is counted among those that stay           *)
RemainingWithIt(f) == factors

RemainingAfter(f) == factors \ {f}

(* PortalRemoveMFAFactor: the factor must be the user's; what remains is     *)
(* counted before the delete                                                 *)
PortalRemoveMFAFactor(c, f) ==
  /\ f \in factors
  /\ Reads(c, [pc |-> "delete", factor |-> f, has |-> RemainingAfter(f) # {}, alone |-> Alone(c)])

(* Keycloak deletes it.  A factor that is gone already, or an answer that is *)
(* lost, is a failure, which ends the request without a goroutine.           *)
DeleteCredential(c, outcome) ==
  /\ page[c].pc = "delete" /\ (outcome = "refused" \/ page[c].factor \in factors)
  /\ IF outcome = "refused" THEN UNCHANGED <<factors, settled>>
     ELSE factors' = factors \ {page[c].factor} /\ settled' = FALSE
  /\ page' = [page EXCEPT ![c] = IF outcome = "done"
                                 THEN [pc |-> "write", has |-> page[c].has, alone |-> page[c].alone]
                                 ELSE NoPage]
  /\ UNCHANGED <<required, coverage, enrolls>> /\ CodesRest

(* updateMFACoverageCache, best effort, in whatever order the goroutines run *)
UpdateMFACoverageCache(c, ok) ==
  /\ page[c].pc = "write" /\ page' = [page EXCEPT ![c] = NoPage]
  /\ coverage' = IF ok THEN page[c].has ELSE coverage
  /\ settled' = IF ok THEN page[c].alone ELSE settled
  /\ UNCHANGED <<factors, required, enrolls>> /\ CodesRest

------------------------------------------------------------------------------
(* Recovery codes.  A generation stands for its ten codes.                   *)

Stored(b) == batch[b] \in {"unused", "used"}
Fresh(b) == batch[b] = "none" /\ \A c \in Callers : gen[c].pc # "idle" => gen[c].batch # b
Locked(b) == \E c \in Callers : gen[c].pc = "inserting" /\ b \in gen[c].holds

(* PortalGenerateRecoveryCodes: BEGIN, and the DELETE, whose snapshot is     *)
(* taken as it starts                                                        *)
GenerateRecoveryCodes(c, b) ==
  /\ gen[c].pc = "idle" /\ Fresh(b)
  /\ gen' = [gen EXCEPT ![c] = [pc |-> "deleting", batch |-> b, holds |-> {s \in Batches : Stored(s)}]]
  /\ UNCHANGED <<batch, latest, spent>> /\ FactorsRest

(* The DELETE waits for a transaction that holds a row it saw; then it takes *)
(* those still there, and none that the other inserted.                      *)
DeleteCodes(c) ==
  /\ gen[c].pc = "deleting" /\ \A s \in gen[c].holds : ~Locked(s)
  /\ gen' = [gen EXCEPT ![c].pc = "inserting", ![c].holds = {s \in @ : Stored(s)}]
  /\ UNCHANGED <<batch, latest, spent>> /\ FactorsRest

(* Mutant: the new codes are inserted before the old ones are deleted        *)
CommitInsertedFirst(c) ==
  /\ gen[c].pc = "inserting" /\ gen' = [gen EXCEPT ![c] = NoGen]
  /\ batch' = [s \in Batches |-> IF s \in gen[c].holds \cup {gen[c].batch} THEN "gone" ELSE batch[s]]
  /\ latest' = gen[c].batch
  /\ UNCHANGED spent /\ FactorsRest

(* the INSERTs, COMMIT, and the answer with the codes                        *)
CommitCodes(c) ==
  /\ gen[c].pc = "inserting" /\ gen' = [gen EXCEPT ![c] = NoGen]
  /\ batch' = [s \in Batches |-> IF s = gen[c].batch THEN "unused"
                                ELSE IF s \in gen[c].holds THEN "gone" ELSE batch[s]]
  /\ latest' = gen[c].batch
  /\ UNCHANGED spent /\ FactorsRest

(* a statement fails, or the caller leaves: ROLLBACK                         *)
RollBackCodes(c) ==
  /\ gen[c].pc # "idle" /\ gen' = [gen EXCEPT ![c] = NoGen]
  /\ UNCHANGED <<batch, latest, spent>> /\ FactorsRest

(* CheckAndConsumeRecoveryCode, of one code of the generation: waits for a   *)
(* transaction that holds the row                                            *)
CheckAndConsumeRecoveryCode(b) ==
  /\ batch[b] = "unused" /\ ~Locked(b)
  /\ batch' = [batch EXCEPT ![b] = "used"] /\ spent' = [spent EXCEPT ![b] = @ + 1]
  /\ UNCHANGED <<gen, latest>> /\ FactorsRest

FactorsNext ==
  \/ \E f \in Factors : PortalEnroll(f) \/ LoginEnrolls(f)
  \/ \E c \in Callers :
       \/ PortalListMFAFactors(c)
       \/ \E f \in Factors : PortalRemoveMFAFactor(c, f)
       \/ \E outcome \in {"done", "refused", "lost"} : DeleteCredential(c, outcome)
       \/ \E ok \in BOOLEAN : UpdateMFACoverageCache(c, ok)

CodesNext ==
  \/ \E c \in Callers :
       \/ DeleteCodes(c) \/ CommitCodes(c) \/ RollBackCodes(c)
       \/ \E b \in Batches : GenerateRecoveryCodes(c, b)
  \/ \E b \in Batches : CheckAndConsumeRecoveryCode(b)

------------------------------------------------------------------------------
(* When the last request to touch the factors had them to itself until its   *)
(* goroutine's write, the cache says whether any factor is left.  Otherwise  *)
(* it may not, until the next listing (mfa_self.go updateMFACoverageCache).  *)
CoverageFollows == settled => coverage = (factors # {})

(* A recovery code is accepted once, however consumption and regeneration    *)
(* interleave (mfa_self.go CheckAndConsumeRecoveryCode).                     *)
CodeAcceptedOnce == \A b \in Batches : spent[b] <= 1 /\ (batch[b] = "unused" => spent[b] = 0)

(* The codes the user was last given are in the table, whatever other        *)
(* generations were waiting, committing or rolling back                      *)
(* (mfa_self.go PortalGenerateRecoveryCodes).                                *)
LatestCodesWork == latest # NoBatch => Stored(latest)

(* The latest codes work, and each once (mfa_self.go, recovery codes).       *)
CodesWorkOnce == CodeAcceptedOnce /\ LatestCodesWork

(* Giving out new codes retires the old: mfa_self.go:251 says "Existing      *)
(* codes are replaced atomically".                                           *)
NewCodesReplaceOld == \A b \in Batches : batch[b] = "unused" => b = latest
==============================================================================
