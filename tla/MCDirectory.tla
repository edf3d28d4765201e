------------------------------- MODULE MCDirectory ----------------------------
EXTENDS Directory, TLC

Replace(path, name, active) == [op |-> "replace", path |-> path, name |-> name, active |-> active]

SetName(n) == <<Replace("name", n, "none")>>
Deactivate == <<[op |-> "remove", path |-> "active", name |-> "none", active |-> "none"]>>
Merge(n, active) == <<Replace("", n, active)>>

MCPatches == {Deactivate \o SetName("b"), Merge("a", "true")}

GroupOp(o, users) == [op |-> o, users |-> users, name |-> ""]
RenameTo(n) == [op |-> "rename", users |-> {}, name |-> n]

MCGroupPatches == {<<GroupOp("replace", {"u", "x"}), RenameTo("h")>>,
                   <<GroupOp("replace", {})>>,
                   <<RenameTo("g"), GroupOp("add", {"u"})>>,
                   <<GroupOp("remove", {"u", "x"})>>}

DirectorySymmetry ==
    Permutations(Requests) \cup Permutations(Callers) \cup Permutations(Admins)
=============================================================================
