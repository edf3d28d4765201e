------------------------------ MODULE GroupSync -----------------------------
(***************************************************************************)
(* What the groups page does after it has added a user to a group or       *)
(* removed it: a goroutine reads the user's groups from Keycloak and tells *)
(* every application the user is provisioned in.  Requests do not wait for *)
(* it, so the goroutines of two requests may overtake each other.          *)
(*                                                                         *)
(* inGroup   the user's groups in Keycloak                                 *)
(* told      per application: the groups it was last told (provisioned     *)
(*           applications only)                                            *)
(* syncs     the goroutines: the groups read, the applications left        *)
(* settled   the last change was made while no goroutine was at work, and  *)
(*           its own goroutine has not failed (history)                    *)
(***************************************************************************)
EXTENDS Integers, Sequences, FiniteSets
LOCAL INSTANCE SequencesExt

CONSTANTS UserGroups,   \* groups
          Apps,         \* applications the user is provisioned in
          MaxSyncs      \* bound on goroutines at work

VARIABLES inGroup, told, syncs, settled

syncVars == <<inGroup, told, syncs, settled>>

SyncInit ==
    /\ inGroup = {} /\ told = [a \in Apps |-> {}]
    /\ syncs = <<>> /\ settled = TRUE

Fresh == [pc |-> "read", groups |-> {}, left |-> Apps]

\* AddUserToGroup, then go triggerGroupSyncForUser.
AssignUserToGroup(g) ==
    /\ Len(syncs) < MaxSyncs
    /\ inGroup' = inGroup \cup {g}
    /\ syncs' = Append(syncs, Fresh)
    /\ settled' = (syncs = <<>>)
    /\ UNCHANGED told

\* RemoveUserFromGroup, then go triggerGroupSyncForUser.
UnassignUserFromGroup(g) ==
    /\ Len(syncs) < MaxSyncs
    /\ inGroup' = inGroup \ {g}
    /\ syncs' = Append(syncs, Fresh)
    /\ settled' = (syncs = <<>>)
    /\ UNCHANGED told

\* SCIM changes the membership and starts no synchronisation.
ScimChange(g) ==
    /\ inGroup' \in {inGroup \cup {g}, inGroup \ {g}}
    /\ settled' = FALSE
    /\ UNCHANGED <<told, syncs>>

\* GetUserGroups and the query of the provisioned applications.
SyncRead(i) ==
    /\ syncs[i].pc = "read"
    /\ syncs' = [syncs EXCEPT ![i].pc = "push", ![i].groups = inGroup]
    /\ UNCHANGED <<inGroup, told, settled>>

\* Mutant: only the first application is told.
PushFirstOnly(i, a) ==
    /\ syncs[i].pc = "push" /\ a \in syncs[i].left
    /\ told' = [told EXCEPT ![a] = syncs[i].groups]
    /\ syncs' = RemoveAt(syncs, i)
    /\ UNCHANGED <<inGroup, settled>>

\* SyncGroupMembership of one application; the whole list is sent.
SyncPush(i, a) ==
    /\ syncs[i].pc = "push" /\ a \in syncs[i].left
    /\ told' = [told EXCEPT ![a] = syncs[i].groups]
    /\ syncs' = [syncs EXCEPT ![i].left = @ \ {a}]
    /\ UNCHANGED <<inGroup, settled>>

\* A push that fails is logged, and the next application is tried.
SyncPushFails(i, a) ==
    /\ syncs[i].pc = "push" /\ a \in syncs[i].left
    /\ syncs' = [syncs EXCEPT ![i].left = @ \ {a}]
    /\ settled' = FALSE
    /\ UNCHANGED <<inGroup, told>>

\* The goroutine has told everybody.
SyncDone(i) ==
    /\ syncs[i].pc = "push" /\ syncs[i].left = {}
    /\ syncs' = RemoveAt(syncs, i)
    /\ UNCHANGED <<inGroup, told, settled>>

\* GetUserGroups or the query fails, the timeout passes or the replica stops.
SyncGivesUp(i) ==
    /\ syncs' = RemoveAt(syncs, i)
    /\ settled' = FALSE
    /\ UNCHANGED <<inGroup, told>>

SyncNext ==
    \/ \E g \in UserGroups : AssignUserToGroup(g) \/ UnassignUserFromGroup(g) \/ ScimChange(g)
    \/ \E i \in DOMAIN syncs :
        \/ SyncRead(i) \/ SyncDone(i) \/ SyncGivesUp(i)
        \/ \E a \in Apps : SyncPush(i, a) \/ SyncPushFails(i, a)

\* A change that is made while no synchronisation is at work, and whose own
\* synchronisation does not fail, brings every application up to date, whatever
\* was lost or overtaken before it.
MembershipFollows == settled /\ syncs = <<>> => \A a \in Apps : told[a] = inGroup

=============================================================================
