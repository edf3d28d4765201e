----------------------------- MODULE AuditChain -----------------------------
(***************************************************************************)
(* What the audit log promises: entries are appended one at a time, each   *)
(* linked to the newest committed entry, and a prune removes a set of      *)
(* entries and leaves its own marker in one indivisible step.  Committed   *)
(* entries are otherwise never changed.  AuditLog implements this with     *)
(* database transactions and an advisory lock.                             *)
(***************************************************************************)
EXTENDS ChainOps

CONSTANTS Contents,   \* what an audited operation can record
          PruneMark   \* the content of the "audit.prune" entry

VARIABLES log, anchor

vars == <<log, anchor>>

Init == log = EmptyLog /\ anchor = NoAnchor

\* newLog is l with one more row, linked to l's head.  seq values only grow; a
\* rolled-back insert may leave a gap.  seqFloor keeps the row behind every
\* row of the log before a prune.
Extends(newLog, l, content, seqFloor) ==
    \E s \in DOMAIN newLog :
       /\ s \in Nat \ {0}
       /\ \A t \in seqFloor : t < s
       /\ newLog[s].created \in Nat
       /\ newLog = With(l, s, Row(content, newLog[s].created, chainHead(l)))

WriteEntry(content) ==
    /\ Extends(log', log, content, DOMAIN log)
    /\ UNCHANGED anchor

\* The anchor describes the first survivor, or nothing when none survives.
AnchorFor(kept, a) ==
    IF DOMAIN kept = {} THEN a = NoAnchor
    ELSE \E s \in DOMAIN kept :
            IsFirst(kept, s) /\ a = [seq |-> s, prevHash |-> kept[s].prevHash]

Prune(S) ==
    LET kept == Without(log, S) IN
    /\ S # {}
    /\ AnchorFor(kept, anchor')
    /\ Extends(log', kept, PruneMark, DOMAIN log)

Next == \/ \E c \in Contents : WriteEntry(c)
        \/ \E S \in SUBSET DOMAIN log : Prune(S)

Spec == Init /\ [][Next]_vars

=============================================================================
