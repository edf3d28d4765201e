----------------------------- MODULE Directory ------------------------------
(***************************************************************************)
(* The people and what they may use: the SCIM server's users, its groups,  *)
(* what the groups page does with the same groups, and the grants of an    *)
(* application.  The four share no variable, so a behaviour of the system  *)
(* is any interleaving of one of each; a run explores one.                 *)
(***************************************************************************)
EXTENDS ScimUsers, ScimGroups, GroupSync, AppGrants

VARIABLE resource       \* the one this behaviour is about

vars == <<userVars, groupVars, syncVars, grantVars, resource>>

Init ==
    /\ UserInit /\ GroupInit /\ SyncInit /\ GrantInit
    /\ resource \in {"Users", "Groups", "Sync", "Grants"}
    /\ resource # "Users" => row = NoRow /\ version = 0     \* no matter to the others

Next ==
    /\ \/ resource = "Users" /\ UserNext /\ UNCHANGED <<groupVars, syncVars, grantVars>>
       \/ resource = "Groups" /\ GroupNext /\ UNCHANGED <<userVars, syncVars, grantVars>>
       \/ resource = "Sync" /\ SyncNext /\ UNCHANGED <<userVars, groupVars, grantVars>>
       \/ resource = "Grants" /\ GrantNext /\ UNCHANGED <<userVars, groupVars, syncVars>>
    /\ UNCHANGED resource

Spec == Init /\ [][Next]_vars

=============================================================================
