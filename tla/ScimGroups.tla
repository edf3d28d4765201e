----------------------------- MODULE ScimGroups -----------------------------
(***************************************************************************)
(* A Keycloak group and its members as the SCIM requests (create, patch,   *)
(* delete) change it while the groups page changes it too.  There is no    *)
(* transaction: every member is added or removed by a call of its own, and *)
(* a failed call for one member is logged and skipped.                     *)
(*                                                                         *)
(* group   [exists, name, members]; it belongs to the caller's org         *)
(* call    per request: what is left to do, what it should lead to (goal,  *)
(*         name), and two history flags: nothing else changed the group    *)
(*         meanwhile (alone), no call for a member was skipped (smooth)    *)
(***************************************************************************)
EXTENDS Integers, SequencesExt, FiniteSetsExt

CONSTANTS Callers,      \* concurrent requests
          Users,        \* all users
          OrgUsers,     \* the users of the group's organisation
          GroupNames,   \* display names
          GroupPatches  \* bodies of PATCH: sequences of operations

ASSUME GroupAssumption == OrgUsers \subseteq Users /\ "" \notin GroupNames

VARIABLES group, call

groupVars == <<group, call>>

NoGroup == [exists |-> FALSE, name |-> "", members |-> {}]

NoCall == [pc |-> "idle", todo |-> <<>>, removes |-> {}, adds |-> {}, name |-> "", goal |-> {},
           alone |-> TRUE, smooth |-> TRUE]

\* The call of c becomes new; when the group changes, the other calls in
\* progress are no longer alone.
Becomes(c, new) == call' =
    [d \in Callers |-> IF d = c THEN new
                       ELSE IF call[d].pc # "idle" /\ group' # group
                            THEN [call[d] EXCEPT !.alone = FALSE] ELSE call[d]]

GroupInit == group = NoGroup /\ call = [c \in Callers |-> NoCall]

-----------------------------------------------------------------------------
(* What a PATCH asks for.                                                  *)

\* The members after one operation, all at once; users of other organisations
\* are left out.
Outcome(m, o) ==
    CASE o.op = "add"     -> m \cup (o.users \cap OrgUsers)
      [] o.op = "remove"  -> m \ (o.users \cap OrgUsers)
      [] o.op = "replace" -> o.users \cap OrgUsers
      [] o.op = "rename"  -> m

\* displayName: the last rename of the body, an empty one is no rename.
Renamed(n, o) == IF o.op = "rename" THEN o.name ELSE n

-----------------------------------------------------------------------------
(* The requests.                                                           *)

\* CreateGroupWithOrgID, then the initial members of the organisation.
SCIMCreateGroup(c, n, users) ==
    /\ call[c].pc = "idle" /\ ~ group.exists
    /\ group' = [exists |-> TRUE, name |-> n, members |-> {}]
    /\ Becomes(c, [NoCall EXCEPT !.pc = "ops", !.adds = users \cap OrgUsers, !.name = n,
                     !.goal = users \cap OrgUsers])

\* GetGroupByID and the check of its organisation; 404 otherwise.
SCIMPatchGroup(c, body) ==
    /\ call[c].pc = "idle" /\ group.exists
    /\ group' = group
    /\ Becomes(c, [NoCall EXCEPT !.pc = "ops", !.todo = body,
                     !.name = FoldLeft(Renamed, group.name, body),
                     !.goal = FoldLeft(Outcome, group.members, body)])

\* The same checks, then DeleteGroup, which may fail.
SCIMDeleteGroup(c) ==
    /\ call[c].pc = "idle" /\ group.exists
    /\ group' = NoGroup
    /\ Becomes(c, NoCall)

\* The next operation of the body, when the calls of the previous one are made.
Ready(c) == call[c].pc = "ops" /\ call[c].adds = {} /\ call[c].removes = {}

\* Mutant: a failed listing is taken for an empty group.
NextOperationUnion(c) ==
    /\ Ready(c) /\ call[c].todo # <<>>
    /\ group' = group
    /\ LET o == Head(call[c].todo)
           known == o.users \cap OrgUsers
       IN \E listed \in SUBSET group.members :
            Becomes(c, [call[c] EXCEPT !.todo = Tail(@),
                !.adds = IF o.op \in {"add", "replace"} THEN known ELSE {},
                !.removes = CASE o.op = "remove" -> known [] o.op = "replace" -> listed [] OTHER -> {}])

\* The next operation becomes single calls.  A replacement reads the members
\* first and the request ends there (500) when it cannot.  A user that cannot
\* be shown to be in the organisation (the query fails) is skipped.
NextOperation(c) ==
    /\ Ready(c) /\ call[c].todo # <<>>
    /\ group' = group
    /\ LET o == Head(call[c].todo)
           known == o.users \cap OrgUsers
       IN \/ o.op = "replace" /\ Becomes(c, NoCall)
          \/ \E shown \in SUBSET known :
                Becomes(c, [call[c] EXCEPT !.todo = Tail(@), !.smooth = @ /\ shown = known,
                    !.adds = IF o.op \in {"add", "replace"} THEN shown ELSE {},
                    !.removes = CASE o.op = "remove" -> shown
                                  [] o.op = "replace" -> group.members
                                  [] OTHER -> {}])

\* RemoveUserFromGroup of one member; a failure is logged and skipped.
RemoveMember(c, u) ==
    /\ call[c].pc = "ops" /\ u \in call[c].removes
    /\ \E ok \in BOOLEAN :
        /\ group' = IF ok THEN [group EXCEPT !.members = @ \ {u}] ELSE group
        /\ Becomes(c, [call[c] EXCEPT !.removes = @ \ {u}, !.smooth = @ /\ ok])

\* AddUserToGroup of one member, after the removals of a replacement.
AddMember(c, u) ==
    /\ call[c].pc = "ops" /\ call[c].removes = {} /\ u \in call[c].adds
    /\ \E ok \in BOOLEAN :
        /\ ok => group.exists
        /\ group' = IF ok THEN [group EXCEPT !.members = @ \cup {u}] ELSE group
        /\ Becomes(c, [call[c] EXCEPT !.adds = @ \ {u}, !.smooth = @ /\ ok])

\* RenameGroup when the name has changed; a failure ends the request (500).
Rename(c) ==
    /\ Ready(c) /\ call[c].todo = <<>>
    /\ \E ok \in BOOLEAN :
        /\ ok => group.exists \/ call[c].name \in {group.name, ""}
        /\ group' = IF ok /\ call[c].name # "" /\ group.exists
                    THEN [group EXCEPT !.name = call[c].name] ELSE group
        /\ Becomes(c, IF ok THEN [call[c] EXCEPT !.pc = "answer"] ELSE NoCall)

\* The answer lists the members as they are then; without a list it is a 500.
Answer(c) ==
    /\ call[c].pc = "answer"
    /\ group' = group
    /\ Becomes(c, NoCall)

\* AssignUserToGroup and UnassignUserFromGroup of the groups page: one call
\* each (module GroupSync has what follows it).
PageChange(u) ==
    /\ group.exists
    /\ group' \in {[group EXCEPT !.members = @ \cup {u}], [group EXCEPT !.members = @ \ {u}]}
    /\ group' # group
    /\ call' = [c \in Callers |-> IF call[c].pc = "idle" THEN call[c]
                                  ELSE [call[c] EXCEPT !.alone = FALSE]]

-----------------------------------------------------------------------------

GroupNext ==
    \/ \E c \in Callers :
        \/ \E n \in GroupNames, users \in SUBSET Users : SCIMCreateGroup(c, n, users)
        \/ \E body \in GroupPatches : SCIMPatchGroup(c, body)
        \/ SCIMDeleteGroup(c) \/ NextOperation(c) \/ Rename(c) \/ Answer(c)
        \/ \E u \in Users : RemoveMember(c, u) \/ AddMember(c, u)
    \/ \E u \in Users : PageChange(u)

GroupSpec == GroupInit /\ [][GroupNext]_groupVars

-----------------------------------------------------------------------------
(* Properties.                                                             *)

GroupTypeOK ==
    /\ group \in [exists : BOOLEAN, name : GroupNames \cup {""}, members : SUBSET Users]
    /\ ~ group.exists => group = NoGroup
    /\ \A c \in Callers :
        /\ call[c].pc \in {"idle", "ops", "answer"}
        /\ call[c].removes \subseteq Users /\ call[c].adds \subseteq OrgUsers
        /\ call[c].goal \subseteq Users /\ call[c].name \in GroupNames \cup {""}

\* A PATCH or POST of a group that is answered with success has had exactly the
\* effect of its operations (for a replacement: no union with the old members),
\* when nothing else changed the group meanwhile and no call for a single
\* member was skipped.
PatchIsExact == \A c \in Callers :
    call[c].pc = "answer" /\ call[c].alone /\ call[c].smooth =>
        /\ group.members = call[c].goal
        /\ call[c].name \in {group.name, ""}

=============================================================================
