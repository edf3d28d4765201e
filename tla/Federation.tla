----------------------------- MODULE Federation -----------------------------
(***************************************************************************)
(* LDAP directory sources: each is a row of federation_sources and a user- *)
(* storage component in Keycloak.  Create makes the component first, then  *)
(* the row; update and delete read the row, change the component and then  *)
(* the row, and stop ("fail closed") when Keycloak refuses.  A source's    *)
(* configuration is one directory; rows and components are named by the    *)
(* component id, which the table keeps unique.  Triggering a sync only     *)
(* stamps last_sync_at and is left out.                                    *)
(***************************************************************************)
EXTENDS Naturals

CONSTANTS Editors, Sources, Directories, Absent

ASSUME FederationAssumption == Absent \notin Directories

VARIABLES
    table,      \* federation_sources: component id -> directory
    component,  \* Keycloak's components: id -> directory
    edit,       \* per request: where it is
    bindSet,    \* LDAP_BIND_PASSWORD is configured
    strays,     \* components of a create whose INSERT or answer was lost
    rough       \* sources with overlapping edits, a failed statement or a lost answer

federationVars == <<table, component, edit, bindSet, strays, rough>>

Resting == [at |-> "resting", of |-> Absent]

FederationInit ==
    /\ table = [k \in Sources |-> Absent] /\ component = [k \in Sources |-> Absent]
    /\ edit = [e \in Editors |-> Resting]
    /\ bindSet = TRUE /\ strays = {} /\ rough = {}

Untouched(k) == \A e \in Editors : edit[e].of # k
Overlaps(k) == IF Untouched(k) THEN {} ELSE {k}
Ends(e) == edit' = [edit EXCEPT ![e] = Resting]

\* POST: refused without a bind password; the component is created, under an id
\* of its own, or Keycloak refuses and nothing is.
CreateFederationSource(e) ==
    /\ edit[e] = Resting /\ bindSet
    /\ \E k \in Sources, d \in Directories :
          /\ component[k] = Absent /\ table[k] = Absent /\ Untouched(k) /\ k \notin strays \cup rough
          /\ component' = [component EXCEPT ![k] = d]
          /\ \/ edit' = [edit EXCEPT ![e] = [at |-> "insert", of |-> k, to |-> d]] /\ UNCHANGED strays
             \/ strays' = strays \cup {k} /\ UNCHANGED edit      \* the answer is lost
    /\ UNCHANGED <<table, bindSet, rough>>

\* The INSERT, or its failure, which is reported and not compensated.
Insert(e) ==
    /\ edit[e].at = "insert" /\ Ends(e)
    /\ \/ table' = [table EXCEPT ![edit[e].of] = edit[e].to] /\ UNCHANGED strays
       \/ strays' = strays \cup {edit[e].of} /\ UNCHANGED table
    /\ UNCHANGED <<component, bindSet, rough>>

\* PATCH: the row is read; without a bind password Keycloak is left alone.
UpdateFederationSource(e) ==
    /\ edit[e] = Resting
    /\ \E k \in Sources, d \in Directories :
          /\ table[k] # Absent
          /\ edit' = [edit EXCEPT ![e] = [at |-> IF bindSet THEN "updateComponent" ELSE "updateRow",
                                          of |-> k, to |-> d]]
          /\ rough' = rough \cup Overlaps(k) \cup (IF bindSet THEN {} ELSE {k})
    /\ UNCHANGED <<table, component, bindSet, strays>>

\* DELETE: the component id is read.
DeleteFederationSource(e) ==
    /\ edit[e] = Resting
    /\ \E k \in Sources :
          /\ table[k] # Absent
          /\ edit' = [edit EXCEPT ![e] = [at |-> "deleteComponent", of |-> k, to |-> Absent]]
          /\ rough' = rough \cup Overlaps(k)
    /\ UNCHANGED <<table, component, bindSet, strays>>

RowStep(at) == IF at = "updateComponent" THEN "updateRow" ELSE "deleteRow"

\* Mutant: a delete that Keycloak refuses goes on with the row.
ChangeOrGoOn(e) ==
    /\ edit[e].at \in {"updateComponent", "deleteComponent"}
    /\ edit' = [edit EXCEPT ![e].at = RowStep(@)]
    /\ \/ component' = [component EXCEPT ![edit[e].of] = edit[e].to]
       \/ UNCHANGED component
    /\ UNCHANGED <<table, bindSet, strays, rough>>

\* Update- or DeleteFederationComponent: answered, refused (a component that is
\* gone always is), or applied with the answer lost.
ChangeComponent(e) ==
    /\ edit[e].at \in {"updateComponent", "deleteComponent"}
    /\ LET k == edit[e].of
           changed == component' = [component EXCEPT ![k] = edit[e].to]
       IN  \/ component[k] # Absent /\ changed
              /\ edit' = [edit EXCEPT ![e].at = RowStep(@)] /\ UNCHANGED rough
           \/ Ends(e) /\ UNCHANGED <<component, rough>>
           \/ component[k] # Absent /\ changed /\ Ends(e) /\ rough' = rough \cup {k}
    /\ UNCHANGED <<table, bindSet, strays>>

\* The UPDATE or DELETE of the row (no row: no effect), or its failure.
ChangeRow(e) ==
    /\ edit[e].at \in {"updateRow", "deleteRow"} /\ Ends(e)
    /\ LET k == edit[e].of IN
          \/ /\ table' = [table EXCEPT ![k] = IF @ = Absent THEN Absent ELSE edit[e].to]
             /\ UNCHANGED rough
          \/ rough' = rough \cup {k} /\ UNCHANGED table
    /\ UNCHANGED <<component, bindSet, strays>>

\* The service is restarted with or without LDAP_BIND_PASSWORD.
Reconfigure ==
    /\ \A e \in Editors : edit[e] = Resting
    /\ bindSet' = ~bindSet
    /\ UNCHANGED <<table, component, edit, strays, rough>>

FederationNext ==
    \/ \E e \in Editors :
          \/ CreateFederationSource(e) \/ Insert(e)
          \/ UpdateFederationSource(e) \/ DeleteFederationSource(e) \/ ChangeComponent(e) \/ ChangeRow(e)
    \/ Reconfigure

-----------------------------------------------------------------------------
(* Properties.                                                             *)

\* A source no request is working on is the same directory in both stores, or in
\* neither; refused calls included, overlapping edits, failed statements, lost
\* answers and edits without a bind password excepted.
FederationAgrees ==
    \A k \in Sources : Untouched(k) /\ k \notin rough \cup strays => table[k] = component[k]

\* Deleting never "orphans the component forever" (DeleteFederationSource), even
\* when edits overlap and statements fail: a component at rest without a row was
\* left by a create.
NoOrphanedComponent ==
    \A k \in Sources :
        Untouched(k) /\ component[k] # Absent /\ table[k] = Absent => k \in strays

\* Rows and components describe the same directories, as far as two stores
\* written one after the other can (handlers/federation.go).
SourcesAgree == FederationAgrees /\ NoOrphanedComponent

=============================================================================
