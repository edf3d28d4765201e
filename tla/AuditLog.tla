------------------------------ MODULE AuditLog ------------------------------
(***************************************************************************)
(* The tamper-evident audit log: audit.WriteEntry, audit.Pruner.Prune and  *)
(* audit.VerifyChain (backend/internal/audit/chain.go, retention.go) run   *)
(* by concurrent requests, background jobs and replicas against one        *)
(* PostgreSQL database.                                                    *)
(*                                                                         *)
(* A process is one database transaction at a time: a writer is a caller   *)
(* of WriteEntry, whose transaction may have begun long before it reaches  *)
(* the audit write; a pruner is one run of Prune.  Transactions run at     *)
(* READ COMMITTED: a statement sees the committed rows and the             *)
(* transaction's own changes, which nobody else sees before its commit.    *)
(***************************************************************************)
EXTENDS ChainOps, Integers

CONSTANTS Writers, Pruners,  \* concurrent transactions
          Contents,          \* what an audited operation can record
          PruneMark,         \* the content of the "audit.prune" entry
          Retain,            \* retention window, in clock ticks
          Nobody             \* the advisory lock is free

CONSTANTS MaxClock,          \* bound on time
          MaxSeq             \* bound on the seq values handed out

Procs == Writers \cup Pruners

ASSUME AuditAssumption ==
    /\ Writers \cap Pruners = {}
    /\ Nobody \notin Procs
    /\ PruneMark \notin Contents
    /\ Retain \in Nat \ {0}
    /\ MaxClock \in Nat
    /\ MaxSeq \in Nat

VARIABLES
    clock,     \* NOW()
    log,       \* committed rows of audit_logs, by seq
    anchor,    \* the row of audit_chain_anchors, or NoAnchor
    nextSeq,   \* the BIGSERIAL sequence: next value; never rolled back
    chainLock, \* holder of the transaction-level lock auditChainLockID
    tx,        \* the open transaction of each process and its uncommitted work
    ver,       \* one VerifyChain call: what it has read, what it returned
    inOrder    \* history: no row committed behind a row with a later created_at

vars == <<clock, log, anchor, nextSeq, chainLock, tx, ver, inOrder>>

Steps == {"idle", "begun", "locked", "selected", "deleted", "headRead", "done"}

NoTx == [pc |-> "idle", started |-> 0, content |-> PruneMark, cutoff |-> 0,
         anchor |-> NoAnchor, gone |-> {}, prevHash |-> NoHash, seq |-> 0]

NoVerify == [pc |-> "idle", anchor |-> NoAnchor, raced |-> FALSE, result |-> "none"]

Init ==
    /\ clock = 0
    /\ log = EmptyLog
    /\ anchor = NoAnchor
    /\ nextSeq = 1
    /\ chainLock = Nobody
    /\ tx = [p \in Procs |-> NoTx]
    /\ ver = NoVerify
    /\ inOrder = TRUE

\* The rows a statement of p's transaction sees after p's own DELETE.
Visible(p) == Without(log, tx[p].gone)

-----------------------------------------------------------------------------
(* Transactions.                                                           *)

Tick ==
    /\ clock < MaxClock
    /\ clock' = clock + 1
    /\ UNCHANGED <<log, anchor, nextSeq, chainLock, tx, ver, inOrder>>

\* BEGIN of the transaction that will record content.  created_at is NOW(),
\* the start time of the transaction, not the time of the insert.
Begin(p, content) ==
    /\ tx[p].pc = "idle"
    /\ nextSeq <= MaxSeq
    /\ tx' = [tx EXCEPT ![p].pc = "begun", ![p].started = clock, ![p].content = content]
    /\ UNCHANGED <<clock, log, anchor, nextSeq, chainLock, ver, inOrder>>

\* Prune computes the cutoff and begins.
PruneBegin(p) ==
    /\ tx[p].pc = "idle"
    /\ nextSeq <= MaxSeq
    /\ tx' = [tx EXCEPT ![p].pc = "begun", ![p].started = clock, ![p].cutoff = clock - Retain]
    /\ UNCHANGED <<clock, log, anchor, nextSeq, chainLock, ver, inOrder>>

\* Mutant: pg_try_advisory_xact_lock with its answer ignored.
LockNoWait(p) ==
    /\ tx[p].pc = "begun"
    /\ chainLock' = p
    /\ tx' = [tx EXCEPT ![p].pc = "locked"]
    /\ UNCHANGED <<clock, log, anchor, nextSeq, ver, inOrder>>

\* SELECT pg_advisory_xact_lock: waits until the lock is free.
Lock(p) ==
    /\ tx[p].pc = "begun"
    /\ chainLock = Nobody
    /\ chainLock' = p
    /\ tx' = [tx EXCEPT ![p].pc = "locked"]
    /\ UNCHANGED <<clock, log, anchor, nextSeq, ver, inOrder>>

\* Mutant: the boundary row is kept by the DELETE but skipped by the anchor.
AnchorSkipsBoundary(l, cutoff) ==
    LET kept == {s \in DOMAIN l : l[s].created > cutoff}
    IN  IF kept = {} THEN NoAnchor
        ELSE [seq |-> Min(kept), prevHash |-> l[Min(kept)].prevHash]

\* The first row not older than the cutoff, by seq.
AnchorCandidate(l, cutoff) ==
    LET kept == {s \in DOMAIN l : l[s].created >= cutoff}
    IN  IF kept = {} THEN NoAnchor
        ELSE [seq |-> Min(kept), prevHash |-> l[Min(kept)].prevHash]

PruneSelect(p) ==
    /\ tx[p].pc = "locked"
    /\ tx' = [tx EXCEPT ![p].pc = "selected",
                        ![p].anchor = AnchorCandidate(log, tx[p].cutoff)]
    /\ UNCHANGED <<clock, log, anchor, nextSeq, chainLock, ver, inOrder>>

\* DELETE of the old rows and, when there were any, the upsert or removal of
\* the anchor row; without any the transaction commits with nothing to do.
PruneDelete(p) ==
    LET old == {s \in DOMAIN log : log[s].created < tx[p].cutoff} IN
    /\ tx[p].pc = "selected"
    /\ tx' = [tx EXCEPT ![p].pc = IF old = {} THEN "done" ELSE "deleted",
                        ![p].gone = old]
    /\ UNCHANGED <<clock, log, anchor, nextSeq, chainLock, ver, inOrder>>

\* Mutant: the head is read outside the prune's transaction.
ReadHeadOnPool(p) ==
    /\ tx[p].pc = (IF p \in Pruners THEN "deleted" ELSE "locked")
    /\ tx' = [tx EXCEPT ![p].pc = "headRead", ![p].prevHash = chainHead(log)]
    /\ UNCHANGED <<clock, log, anchor, nextSeq, chainLock, ver, inOrder>>

\* chainHead, in a writer's transaction or for the marker a prune writes.
ReadHead(p) ==
    /\ tx[p].pc = (IF p \in Pruners THEN "deleted" ELSE "locked")
    /\ tx' = [tx EXCEPT ![p].pc = "headRead", ![p].prevHash = chainHead(Visible(p))]
    /\ UNCHANGED <<clock, log, anchor, nextSeq, chainLock, ver, inOrder>>

\* INSERT INTO audit_logs: takes the next value of the sequence.
Insert(p) ==
    /\ tx[p].pc = "headRead"
    /\ nextSeq <= MaxSeq
    /\ tx' = [tx EXCEPT ![p].pc = "done", ![p].seq = nextSeq]
    /\ nextSeq' = nextSeq + 1
    /\ UNCHANGED <<clock, log, anchor, chainLock, ver, inOrder>>

\* Mutant: a prune that leaves the anchor of the previous prune in place.
CommitOldAnchor(p) ==
    LET t == tx[p] IN
    /\ t.pc = "done"
    /\ log' = IF t.seq = 0 THEN log
              ELSE With(Visible(p), t.seq, Row(t.content, t.started, t.prevHash))
    /\ chainLock' = Nobody
    /\ tx' = [tx EXCEPT ![p] = NoTx]
    /\ inOrder' = (inOrder /\ (t.seq = 0 \/ \A s \in DOMAIN Visible(p) : log[s].created <= t.started))
    /\ ver' = [ver EXCEPT !.raced = @ \/ (ver.pc = "anchored" /\ t.gone # {})]
    /\ UNCHANGED <<clock, nextSeq, anchor>>

\* COMMIT publishes the row, the deletions and the anchor together and releases
\* the transaction-level lock.
Commit(p) ==
    LET t == tx[p] IN
    /\ t.pc = "done"
    /\ log' = IF t.seq = 0 THEN log
              ELSE With(Visible(p), t.seq, Row(t.content, t.started, t.prevHash))
    /\ anchor' = IF t.gone = {} THEN anchor ELSE t.anchor
    /\ chainLock' = Nobody
    /\ tx' = [tx EXCEPT ![p] = NoTx]
    /\ inOrder' = (inOrder /\ (t.seq = 0 \/ \A s \in DOMAIN Visible(p) : log[s].created <= t.started))
    /\ ver' = [ver EXCEPT !.raced = @ \/ (ver.pc = "anchored" /\ t.gone # {})]
    /\ UNCHANGED <<clock, nextSeq>>

\* ROLLBACK at any point: an error of a statement or of the caller, a timeout,
\* a lost connection, a crash of the replica.
Abort(p) ==
    /\ tx[p].pc # "idle"
    /\ chainLock' = IF chainLock = p THEN Nobody ELSE chainLock
    /\ tx' = [tx EXCEPT ![p] = NoTx]
    /\ UNCHANGED <<clock, log, anchor, nextSeq, ver, inOrder>>

-----------------------------------------------------------------------------
(* VerifyChain: two statements on the pool, outside any transaction.       *)

VerifyAnchor ==
    /\ ver.pc = "idle"
    /\ ver' = [NoVerify EXCEPT !.pc = "anchored", !.anchor = anchor]
    /\ UNCHANGED <<clock, log, anchor, nextSeq, chainLock, tx, inOrder>>

VerifyRows ==
    /\ ver.pc = "anchored"
    /\ ver' = [ver EXCEPT !.pc = "idle",
                          !.result = IF VerifyChain(log, ver.anchor) THEN "ok" ELSE "broken"]
    /\ UNCHANGED <<clock, log, anchor, nextSeq, chainLock, tx, inOrder>>

-----------------------------------------------------------------------------
(* The processes.                                                          *)

\* The next statement of p's open transaction.
Advance(p) ==
    \/ Lock(p)
    \/ p \in Pruners /\ (PruneSelect(p) \/ PruneDelete(p))
    \/ ReadHead(p)
    \/ Insert(p)
    \/ Commit(p)

LogNext ==
    \/ Tick
    \/ \E p \in Writers, c \in Contents : Begin(p, c)
    \/ \E p \in Pruners : PruneBegin(p)
    \/ \E p \in Procs : Advance(p) \/ Abort(p)

Next == LogNext \/ VerifyAnchor \/ VerifyRows

Spec == Init /\ [][Next]_vars

-----------------------------------------------------------------------------
(* Properties.                                                             *)

Rows == [content  : Contents \cup {PruneMark},
         created  : Nat,
         prevHash : Seq(Contents \cup {PruneMark}),
         rowHash  : Seq(Contents \cup {PruneMark})]

Anchors == [seq : Nat, prevHash : Seq(Contents \cup {PruneMark})]

Transactions ==
    [pc : Steps, started : Nat, content : Contents \cup {PruneMark}, cutoff : Int,
     anchor : Anchors, gone : SUBSET Nat, prevHash : Seq(Contents \cup {PruneMark}), seq : Nat]

\* Type invariant: the committed tables, the open transactions and the verifier
\* hold values of their column and variable types.
TypeOK ==
    /\ clock \in 0 .. MaxClock
    /\ nextSeq \in 1 .. MaxSeq + 1
    /\ DOMAIN log \subseteq 1 .. nextSeq - 1
    /\ log \in [DOMAIN log -> Rows]
    /\ anchor \in Anchors
    /\ chainLock \in Procs \cup {Nobody}
    /\ tx \in [Procs -> Transactions]
    /\ \A p \in Procs : tx[p].seq < nextSeq
    /\ ver \in [pc : {"idle", "anchored"}, anchor : Anchors, raced : BOOLEAN,
                result : {"none", "ok", "broken"}]
    /\ inOrder \in BOOLEAN

\* The chain never forks: no two rows of audit_logs name the same predecessor
\* (WriteEntry reads the head and inserts behind it in separate statements, and
\* any number of requests and prunes do so at once).
NoFork ==
    \A s, t \in DOMAIN log : log[s].prevHash = log[t].prevHash => s = t

\* As long as rows committed in the order of their created_at, whatever Prune
\* deleted, the retained rows and the anchor it left verify (Prune, VerifyChain).
ChainIntact == inOrder => VerifyChain(log, anchor)

\* What retention.go says of every prune, whatever the order of commits: the
\* retained suffix can be validated against the recorded anchor.
RetainedSuffixVerifies == VerifyChain(log, anchor)

\* VerifyChain reports a broken chain only if a prune committed between its two
\* reads or rows had committed out of created_at order; otherwise an intact
\* chain is never reported as tampered with.
NoFalseAlarm == ver.result = "broken" => ver.raced \/ ~inOrder

-----------------------------------------------------------------------------
(* The inductive invariant behind NoFork, ChainIntact and ImplementsChain. *)

Holding == {"locked", "selected", "deleted", "headRead", "done"}

\* Only the lock's holder is past its Lock step.
LockInv == \A p \in Procs : tx[p].pc \in Holding => chainLock = p

\* What p's transaction t has read of the log l is still what a statement would
\* read now; n is the next value of the sequence.
TxOK(p, t, l, n) ==
    /\ p \in Writers => t.gone = {} /\ t.pc \notin {"selected", "deleted"}
    /\ p \in Writers /\ t.pc # "idle" => t.content \in Contents
    /\ p \in Pruners => t.content = PruneMark
    /\ t.pc \in {"idle", "begun", "locked", "selected"} => t.gone = {}
    /\ t.pc # "done" => t.seq = 0
    /\ p \in Pruners /\ t.pc \in {"deleted", "headRead"} => t.gone # {}
    /\ t.pc = "done" => (t.seq = 0 <=> p \in Pruners /\ t.gone = {})
    /\ t.pc = "selected" \/ t.gone # {} => t.anchor = AnchorCandidate(l, t.cutoff)
    /\ t.gone # {} => t.gone = {s \in DOMAIN l : l[s].created < t.cutoff}
    /\ t.pc = "headRead" \/ t.seq # 0 => t.prevHash = chainHead(Without(l, t.gone))
    /\ t.seq # 0 => t.seq < n /\ \A s \in DOMAIN l : s < t.seq

TxInv == \A p \in Procs : TxOK(p, tx[p], log, nextSeq)

\* Hashes are well formed and grow along seq, holes or not.
HashInv ==
    /\ \A s \in DOMAIN log : log[s].rowHash = computeHash(log[s].content, log[s].prevHash)
    /\ \A s, t \in DOMAIN log : s < t => Len(log[s].rowHash) < Len(log[t].rowHash)

\* In-order commits leave created_at sorted along seq and the chain verifiable.
OrderInv ==
    /\ DOMAIN log = {} => anchor = NoAnchor
    /\ inOrder => /\ \A s, t \in DOMAIN log : s < t => log[s].created <= log[t].created
                  /\ VerifyChain(log, anchor)

\* A verification in progress holds the current anchor unless a prune overtook it.
VerInv == ver.pc = "anchored" => ver.result = "none" /\ (ver.raced \/ ver.anchor = anchor)

-----------------------------------------------------------------------------
(* Refinement.                                                             *)

\* The transactions implement the atomic append-and-prune log of AuditChain.
Chain == INSTANCE AuditChain
ImplementsChain == Chain!Spec

=============================================================================
