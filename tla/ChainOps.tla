------------------------------ MODULE ChainOps ------------------------------
(***************************************************************************)
(* The data of the tamper-evident audit log: rows, their hashes, the       *)
(* retention anchor and the integrity walk (backend/internal/audit).       *)
(*                                                                         *)
(* SHA-256 is symbolic: the hash of a row is its previous hash with the    *)
(* row's content appended, so two hashes are equal exactly when everything *)
(* that was hashed is equal.  A log is a function from the seq values of   *)
(* the rows in audit_logs to the rows.                                     *)
(***************************************************************************)
EXTENDS Naturals, Sequences, FiniteSetsExt

\* The empty string a first row carries as prev_hash.
NoHash == <<>>

computeHash(content, prevHash) == Append(prevHash, content)

Row(content, created, prevHash) ==
    [content  |-> content,
     created  |-> created,
     prevHash |-> prevHash,
     rowHash  |-> computeHash(content, prevHash)]

\* row_hash of the row with the highest seq, "" when the table is empty.
chainHead(l) == IF DOMAIN l = {} THEN NoHash ELSE l[Max(DOMAIN l)].rowHash

\* What chainAnchor returns when audit_chain_anchors has no row.
NoAnchor == [seq |-> 0, prevHash |-> NoHash]

EmptyLog == [s \in {} |-> NoHash]

Without(l, S) == [s \in DOMAIN l \ S |-> l[s]]

With(l, s, row) == [t \in DOMAIN l \cup {s} |-> IF t = s THEN row ELSE l[t]]

IsFirst(l, s) == \A t \in DOMAIN l : s <= t

\* t and s are neighbours in ORDER BY seq ASC.
Adjacent(l, t, s) == t < s /\ \A u \in DOMAIN l : u <= t \/ s <= u

(***************************************************************************)
(* result.OK of a walk over the rows l that starts from the anchor a.      *)
(***************************************************************************)
VerifyChain(l, a) ==
    /\ \A s \in DOMAIN l :
          /\ IsFirst(l, s) =>
                /\ a.seq > 0 => s = a.seq
                /\ l[s].prevHash = (IF a.seq > 0 THEN a.prevHash ELSE NoHash)
          /\ l[s].rowHash = computeHash(l[s].content, l[s].prevHash)
    /\ \A t, s \in DOMAIN l : Adjacent(l, t, s) => l[s].prevHash = l[t].rowHash

=============================================================================
