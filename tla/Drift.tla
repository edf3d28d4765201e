-------------------------------- MODULE Drift --------------------------------
(***************************************************************************)
(* The reconciler (internal/reconcile): a pass lists Keycloak's users page *)
(* by page, then the users table, and reports who is in one store only.    *)
(* The two stores are read at different times and go on changing.  Users   *)
(* are numbers in the order in which Keycloak lists them.                  *)
(***************************************************************************)
EXTENDS Integers, FiniteSets

CONSTANTS MaxUser, PageSize, MaxChanges, NoReport

VARIABLES
    kcUsers,    \* Keycloak's users
    dbUsers,    \* the users table
    listing,    \* the pass under way: offset, the users listed so far, whether a tick began it
    report,     \* the drift the step just taken reported
    gauge,      \* the exported drift: sizes, or driftUnknown
    both, onlyKc, onlyDb,   \* users in both stores, or one, for the whole pass
    shrunk,     \* a user was deleted from Keycloak between two pages
    changes     \* bound on changes of the stores

driftVars == <<kcUsers, dbUsers, listing, report, gauge, both, onlyKc, onlyDb, shrunk, changes>>

Everyone == 1..MaxUser
NotRunning == [first |-> 0, seen |-> {}, done |-> TRUE, ticked |-> FALSE]

DriftInit ==
    /\ kcUsers = Everyone \ {MaxUser} /\ dbUsers = Everyone \ {MaxUser}
    /\ listing = NotRunning /\ report = NoReport /\ gauge = [kc |-> 0, db |-> 0]
    /\ both = {} /\ onlyKc = {} /\ onlyDb = {} /\ shrunk = FALSE /\ changes = 0

\* A tick on the leader, or GET /admin/drift on any replica.
StartPass ==
    /\ listing = NotRunning
    /\ \E t \in BOOLEAN : listing' = [first |-> 0, seen |-> {}, done |-> FALSE, ticked |-> t]
    /\ both' = kcUsers \cap dbUsers /\ onlyKc' = kcUsers \ dbUsers /\ onlyDb' = dbUsers \ kcUsers
    /\ shrunk' = FALSE /\ report' = NoReport
    /\ UNCHANGED <<kcUsers, dbUsers, gauge, changes>>

\* The users at the offsets first .. first + PageSize - 1 of Keycloak's listing.
Page(first) ==
    {u \in kcUsers : Cardinality({v \in kcUsers : v < u}) \in first..(first + PageSize - 1)}

Listed(page, done) ==
    /\ listing' = [listing EXCEPT !.first = @ + PageSize, !.seen = @ \cup page, !.done = done]
    /\ report' = NoReport
    /\ UNCHANGED <<kcUsers, dbUsers, gauge, both, onlyKc, onlyDb, shrunk, changes>>

Running == listing # NotRunning

\* Mutant: one page is taken for the whole.
ListFirstPage == Running /\ ~listing.done /\ Listed(Page(0), TRUE)

\* ListUsers: pages until one is short.
ListUsers ==
    /\ Running /\ ~listing.done
    /\ LET page == Page(listing.first) IN Listed(page, Cardinality(page) < PageSize)

\* runAndRecord sets the gauges; a pass an administrator asked for does not.
RecordDrift(kc, db) == gauge' = IF listing.ticked THEN [kc |-> kc, db |-> db] ELSE gauge

\* The SELECT and the comparison.
Compare ==
    /\ Running /\ listing.done
    /\ report' = [kc |-> listing.seen \ dbUsers, db |-> dbUsers \ listing.seen]
    /\ RecordDrift(Cardinality(report'.kc), Cardinality(report'.db))
    /\ listing' = NotRunning
    /\ UNCHANGED <<kcUsers, dbUsers, both, onlyKc, onlyDb, shrunk, changes>>

\* Either listing fails: the gauges say so (driftUnknown).
PassFails ==
    /\ Running /\ listing' = NotRunning /\ RecordDrift(-1, -1) /\ report' = NoReport
    /\ UNCHANGED <<kcUsers, dbUsers, both, onlyKc, onlyDb, shrunk, changes>>

Changed ==
    /\ changes < MaxChanges /\ changes' = changes + 1 /\ report' = NoReport
    /\ both' = both \cap kcUsers' \cap dbUsers'
    /\ onlyKc' = (onlyKc \cap kcUsers') \ dbUsers' /\ onlyDb' = (onlyDb \cap dbUsers') \ kcUsers'
    /\ UNCHANGED <<listing, gauge>>

\* An onboarding creates the Keycloak user, then the row; a compensation or an
\* administrator of the realm deletes a Keycloak user.
UserCreated == \E u \in Everyone \ kcUsers : kcUsers' = kcUsers \cup {u} /\ UNCHANGED <<dbUsers, shrunk>> /\ Changed
RowInserted == \E u \in kcUsers \ dbUsers : dbUsers' = dbUsers \cup {u} /\ UNCHANGED <<kcUsers, shrunk>> /\ Changed
UserDeleted ==
    \E u \in kcUsers : kcUsers' = kcUsers \ {u} /\ shrunk' = TRUE /\ UNCHANGED dbUsers /\ Changed

DriftNext ==
    StartPass \/ ListUsers \/ Compare \/ PassFails \/ UserCreated \/ RowInserted \/ UserDeleted

-----------------------------------------------------------------------------
(* Properties.                                                             *)

\* A user who is in both stores throughout a pass is not reported, and one who is
\* in one store only throughout is, whoever is onboarded meanwhile; a deletion
\* between two pages, which moves the next page's offset, is the exception.
DriftIsReal ==
    report # NoReport =>
        /\ onlyDb \subseteq report.db
        /\ ~shrunk => /\ both \cap (report.kc \cup report.db) = {}
                      /\ onlyKc \subseteq report.kc

=============================================================================
