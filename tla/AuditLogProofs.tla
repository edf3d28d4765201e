--------------------------- MODULE AuditLogProofs ---------------------------
(***************************************************************************)
(* Proofs about AuditLog for any number of writers and pruners, any        *)
(* retention window and any bounds: the chain never forks, commits in      *)
(* created_at order keep the retained rows verifiable, and the             *)
(* transactions implement the atomic log of AuditChain.                    *)
(***************************************************************************)
EXTENDS AuditLog, WellFoundedInduction, TLAPS

(***************************************************************************)
(* Minimum and maximum of sets of naturals.                                *)
(***************************************************************************)

\* ORDER BY seq ASC LIMIT 1 on a non-empty table has an answer.
LEMMA NatHasMin ==
    ASSUME NEW S, S \subseteq Nat, S # {}
    PROVE  /\ Min(S) \in S
           /\ \A x \in S : Min(S) <= x
<1> DEFINE R == {ss \in Nat \X Nat : ss[1] < ss[2]}
<1>1. IsWellFoundedOn(R, Nat)
  BY NatLessThanWellFounded DEF OpToRel
<1> HIDE DEF R
<1>2. PICK m \in S : \A x \in S : ~ (<<x, m>> \in R)
  BY <1>1, WFMin
<1>3. \A x \in Nat : x < m => <<x, m>> \in R
  BY DEF R
<1>4. \A x \in S : ~ (x < m)
  BY <1>2, <1>3
<1>5. \A x \in S : m <= x
  BY <1>4
<1> QED
  BY <1>5 DEF Min

\* ORDER BY seq DESC LIMIT 1 on a non-empty table has an answer.
LEMMA NatHasMax ==
    ASSUME NEW n \in Nat, NEW S, S \subseteq 0 .. n, S # {}
    PROVE  /\ Max(S) \in S
           /\ \A x \in S : x <= Max(S)
<1> DEFINE D == {n - x : x \in S}
<1>1. \A d \in D : d \in Nat
  OBVIOUS
<1>2. D # {}
  <2>1. PICK x \in S : TRUE
    OBVIOUS
  <2>2. n - x \in D
    OBVIOUS
  <2> QED
    BY <2>2
<1>3. \A x \in S : n - x \in D
  OBVIOUS
<1>4. \A d \in D : \E x \in S : d = n - x
  OBVIOUS
<1> HIDE DEF D
<1>5. D \subseteq Nat
  BY <1>1
<1>6. Min(D) \in D /\ \A d \in D : Min(D) <= d
  BY <1>2, <1>5, NatHasMin
<1>7. PICK m \in S : Min(D) = n - m
  BY <1>4, <1>6
<1>8. \A x \in S : n - m <= n - x
  BY <1>3, <1>6, <1>7
<1>9. \A x \in S : m >= x
  BY <1>8
<1> QED
  BY <1>9 DEF Max

(***************************************************************************)
(* Type correctness.                                                       *)
(***************************************************************************)

Hashes == Seq(Contents \cup {PruneMark})

\* chainHead returns a hash of a row of the table, or "".
LEMMA HeadType ==
    ASSUME NEW n \in Nat, NEW l, DOMAIN l \subseteq 0 .. n,
           \A s \in DOMAIN l : l[s] \in Rows
    PROVE  chainHead(l) \in Hashes
<1>1. CASE DOMAIN l = {}
  BY <1>1 DEF chainHead, NoHash, Hashes
<1>2. CASE DOMAIN l # {}
  <2>1. Max(DOMAIN l) \in DOMAIN l
    BY <1>2, NatHasMax
  <2> QED
    BY <1>2, <2>1 DEF chainHead, Rows, Hashes
<1> QED
  BY <1>1, <1>2

\* A row that WriteEntry builds has the types of its columns.
LEMMA RowType ==
    ASSUME NEW c \in Contents \cup {PruneMark}, NEW created \in Nat, NEW h \in Hashes
    PROVE  Row(c, created, h) \in Rows
BY DEF Row, Rows, computeHash, Hashes

\* The anchor Prune selects has the types of its columns.
LEMMA AnchorType ==
    ASSUME NEW l, DOMAIN l \subseteq Nat, NEW cutoff \in Int,
           \A s \in DOMAIN l : l[s] \in Rows
    PROVE  AnchorCandidate(l, cutoff) \in Anchors
<1> DEFINE kept == {s \in DOMAIN l : l[s].created >= cutoff}
<1>1. CASE kept = {}
  BY <1>1 DEF AnchorCandidate, NoAnchor, NoHash, Anchors
<1>2. CASE kept # {}
  <2>1. Min(kept) \in kept
    BY <1>2, NatHasMin
  <2>2. Min(kept) \in Nat /\ l[Min(kept)] \in Rows
    BY <2>1
  <2> QED
    BY <1>2, <2>2 DEF AnchorCandidate, Rows, Anchors
<1> QED
  BY <1>1, <1>2

\* Replacing one process's transaction keeps all of them well typed.
LEMMA TxUpdate ==
    ASSUME TypeOK, NEW p \in Procs, NEW t \in Transactions, t.seq < nextSeq
    PROVE  /\ [tx EXCEPT ![p] = t] \in [Procs -> Transactions]
           /\ \A q \in Procs : [tx EXCEPT ![p] = t][q].seq < nextSeq
BY DEF TypeOK

\* Every step keeps the tables, the transactions and the verifier well typed.
LEMMA TypeStep ==
    ASSUME TypeOK, [Next]_vars
    PROVE  TypeOK'
<1> USE AuditAssumption DEF TypeOK
<1>0. /\ clock \in Nat /\ clock - Retain \in Int
      /\ nextSeq \in Nat /\ DOMAIN log \subseteq Nat
  OBVIOUS
<1>1. CASE Tick
  BY <1>1 DEF Tick
<1>2. ASSUME NEW p \in Writers, NEW c \in Contents, Begin(p, c)
      PROVE  TypeOK'
  <2> DEFINE t == [tx[p] EXCEPT !.pc = "begun", !.started = clock, !.content = c]
  <2>2. tx[p] \in Transactions /\ tx[p].seq < nextSeq
    BY DEF Procs
  <2>3. t \in Transactions
    BY <1>0, <2>2 DEF Transactions, Steps
  <2>4. t.seq < nextSeq
    BY <2>2 DEF Transactions
  <2>5. tx' = [tx EXCEPT ![p] = t]
    BY <1>2, <2>2 DEF Begin, Transactions
  <2> HIDE DEF t
  <2>6. tx' \in [Procs -> Transactions] /\ \A q \in Procs : tx'[q].seq < nextSeq
    BY <2>3, <2>4, <2>5, TxUpdate
  <2> QED
    BY <1>2, <2>6 DEF Begin
<1>3. ASSUME NEW p \in Pruners, PruneBegin(p)
      PROVE  TypeOK'
  <2> DEFINE t == [tx[p] EXCEPT !.pc = "begun", !.started = clock, !.cutoff = clock - Retain]
  <2>2. tx[p] \in Transactions /\ tx[p].seq < nextSeq
    BY DEF Procs
  <2>3. t \in Transactions
    BY <1>0, <2>2 DEF Transactions, Steps
  <2>4. t.seq < nextSeq
    BY <2>2 DEF Transactions
  <2>5. tx' = [tx EXCEPT ![p] = t]
    BY <1>3, <2>2 DEF PruneBegin, Transactions
  <2> HIDE DEF t
  <2>6. tx' \in [Procs -> Transactions] /\ \A q \in Procs : tx'[q].seq < nextSeq
    BY <2>3, <2>4, <2>5, TxUpdate
  <2> QED
    BY <1>3, <2>6 DEF PruneBegin
<1>4. ASSUME NEW p \in Procs, Lock(p)
      PROVE  TypeOK'
  <2> DEFINE t == [tx[p] EXCEPT !.pc = "locked"]
  <2>2. tx[p] \in Transactions /\ tx[p].seq < nextSeq
    BY DEF Procs
  <2>3. t \in Transactions
    BY <1>0, <2>2 DEF Transactions, Steps
  <2>4. t.seq < nextSeq
    BY <2>2 DEF Transactions
  <2>5. tx' = [tx EXCEPT ![p] = t]
    BY <1>4, <2>2 DEF Lock, Transactions
  <2> HIDE DEF t
  <2>6. tx' \in [Procs -> Transactions] /\ \A q \in Procs : tx'[q].seq < nextSeq
    BY <2>3, <2>4, <2>5, TxUpdate
  <2> QED
    BY <1>4, <2>6 DEF Lock
<1>5. ASSUME NEW p \in Procs, PruneSelect(p)
      PROVE  TypeOK'
  <2> DEFINE t == [tx[p] EXCEPT !.pc = "selected", !.anchor = AnchorCandidate(log, tx[p].cutoff)]
  <2>1. AnchorCandidate(log, tx[p].cutoff) \in Anchors
    <3>1. tx[p].cutoff \in Int /\ DOMAIN log \subseteq Nat
      BY DEF Transactions
    <3> QED
      BY <3>1, AnchorType
  <2>2. tx[p] \in Transactions /\ tx[p].seq < nextSeq
    BY DEF Procs
  <2>3. t \in Transactions
    BY <2>1, <2>2 DEF Transactions, Steps
  <2>4. t.seq < nextSeq
    BY <2>2 DEF Transactions
  <2>5. tx' = [tx EXCEPT ![p] = t]
    BY <1>5, <2>2 DEF PruneSelect, Transactions
  <2> HIDE DEF t
  <2>6. tx' \in [Procs -> Transactions] /\ \A q \in Procs : tx'[q].seq < nextSeq
    BY <2>3, <2>4, <2>5, TxUpdate
  <2> QED
    BY <1>5, <2>6 DEF PruneSelect
<1>6. ASSUME NEW p \in Procs, PruneDelete(p)
      PROVE  TypeOK'
  <2> DEFINE t == [tx[p] EXCEPT !.pc = IF {s \in DOMAIN log : log[s].created < tx[p].cutoff} = {}
                                           THEN "done" ELSE "deleted",
                                    !.gone = {s \in DOMAIN log : log[s].created < tx[p].cutoff}]
  <2>2. tx[p] \in Transactions /\ tx[p].seq < nextSeq
    BY DEF Procs
  <2>3. t \in Transactions
    BY <1>0, <2>2 DEF Transactions, Steps
  <2>4. t.seq < nextSeq
    BY <2>2 DEF Transactions
  <2>5. tx' = [tx EXCEPT ![p] = t]
    BY <1>6, <2>2 DEF PruneDelete, Transactions
  <2> HIDE DEF t
  <2>6. tx' \in [Procs -> Transactions] /\ \A q \in Procs : tx'[q].seq < nextSeq
    BY <2>3, <2>4, <2>5, TxUpdate
  <2> QED
    BY <1>6, <2>6 DEF PruneDelete
<1>7. ASSUME NEW p \in Procs, ReadHead(p)
      PROVE  TypeOK'
  <2> DEFINE t == [tx[p] EXCEPT !.pc = "headRead", !.prevHash = chainHead(Visible(p))]
  <2>1. chainHead(Visible(p)) \in Hashes
    <3>1. /\ DOMAIN Visible(p) \subseteq 0 .. MaxSeq
          /\ \A s \in DOMAIN Visible(p) : Visible(p)[s] \in Rows
      BY DEF Visible, Without
    <3> QED
      BY <3>1, HeadType
  <2>2. tx[p] \in Transactions /\ tx[p].seq < nextSeq
    BY DEF Procs
  <2>3. t \in Transactions
    BY <2>1, <2>2 DEF Transactions, Steps, Hashes
  <2>4. t.seq < nextSeq
    BY <2>2 DEF Transactions
  <2>5. tx' = [tx EXCEPT ![p] = t]
    BY <1>7, <2>2 DEF ReadHead, Transactions
  <2> HIDE DEF t
  <2>6. tx' \in [Procs -> Transactions] /\ \A q \in Procs : tx'[q].seq < nextSeq
    BY <2>3, <2>4, <2>5, TxUpdate
  <2> QED
    BY <1>7, <2>6 DEF ReadHead
<1>8. ASSUME NEW p \in Procs, Insert(p)
      PROVE  TypeOK'
  <2> DEFINE t == [tx[p] EXCEPT !.pc = "done", !.seq = nextSeq]
  <2>1. tx[p] \in Transactions
    OBVIOUS
  <2>2. t \in Transactions /\ t.seq = nextSeq
    BY <1>0, <2>1 DEF Transactions, Steps
  <2>3. tx' = [tx EXCEPT ![p] = t]
    BY <1>8, <2>1 DEF Insert, Transactions
  <2> HIDE DEF t
  <2>4. tx' \in [Procs -> Transactions]
    BY <2>2, <2>3
  <2>5. \A q \in Procs : tx'[q].seq < nextSeq + 1
    <3> TAKE q \in Procs
    <3>1. CASE q = p
      BY <1>0, <2>2, <2>3, <3>1
    <3>2. CASE q # p
      <4>1. tx'[q] = tx[q] /\ tx[q].seq \in Nat
        BY <2>3, <3>2 DEF Transactions
      <4> QED
        BY <1>0, <4>1
    <3> QED
      BY <3>1, <3>2
  <2> QED
    BY <1>8, <2>4, <2>5 DEF Insert
<1>9. ASSUME NEW p \in Procs, Commit(p)
      PROVE  TypeOK'
  <2>1. NoTx \in Transactions
    BY DEF NoTx, Transactions, Steps, Anchors, NoAnchor, NoHash
  <2>2. Row(tx[p].content, tx[p].started, tx[p].prevHash) \in Rows
    BY RowType DEF Transactions, Hashes
  <2>3. DOMAIN log' \subseteq 1 .. nextSeq' - 1 /\ log' \in [DOMAIN log' -> Rows]
    <3> DEFINE row == Row(tx[p].content, tx[p].started, tx[p].prevHash)
    <3>1. CASE tx[p].seq = 0
      BY <1>9, <3>1 DEF Commit
    <3>2. CASE tx[p].seq # 0
      <4>1. log' = [s \in (DOMAIN log \ tx[p].gone) \cup {tx[p].seq} |->
                      IF s = tx[p].seq THEN row ELSE log[s]]
        BY <1>9, <3>2 DEF Commit, With, Visible, Without
      <4>2. tx[p].seq \in 1 .. nextSeq - 1
        <5>1. tx[p] \in Transactions /\ tx[p].seq < nextSeq /\ nextSeq \in Nat
          BY <1>0
        <5>2. tx[p].seq \in Nat
          BY ONLY <5>1 DEF Transactions
        <5> QED
          BY ONLY <3>2, <5>1, <5>2
      <4> HIDE DEF row
      <4>3. DOMAIN log' = (DOMAIN log \ tx[p].gone) \cup {tx[p].seq}
        BY <4>1
      <4>4. \A s \in DOMAIN log' : log'[s] \in Rows
        BY <2>2, <4>1, <4>3 DEF row
      <4> QED
        BY <1>9, <4>1, <4>2, <4>3, <4>4 DEF Commit
    <3> QED
      BY <3>1, <3>2
  <2>4. anchor' \in Anchors
    BY <1>9 DEF Commit, Transactions
  <2>5. tx' \in [Procs -> Transactions] /\ \A q \in Procs : tx'[q].seq < nextSeq'
    BY <1>9, <2>1 DEF Commit, NoTx
  <2>6. inOrder' \in BOOLEAN /\ chainLock' \in Procs \cup {Nobody}
    BY <1>9 DEF Commit
  <2>7. ver' \in [pc : {"idle", "anchored"}, anchor : Anchors, raced : BOOLEAN,
                  result : {"none", "ok", "broken"}]
    BY <1>9 DEF Commit
  <2> QED
    BY <1>9, <2>3, <2>4, <2>5, <2>6, <2>7 DEF Commit
<1>10. ASSUME NEW p \in Procs, Abort(p)
       PROVE  TypeOK'
  <2>1. NoTx \in Transactions
    BY DEF NoTx, Transactions, Steps, Anchors, NoAnchor, NoHash
  <2> QED
    BY <1>10, <2>1 DEF Abort, NoTx
<1>11. CASE VerifyAnchor
  BY <1>11 DEF VerifyAnchor, NoVerify
<1>12. CASE VerifyRows
  BY <1>12 DEF VerifyRows
<1>13. CASE UNCHANGED vars
  BY <1>13 DEF vars
<1> QED
  BY <1>1, <1>2, <1>3, <1>4, <1>5, <1>6, <1>7, <1>8, <1>9, <1>10, <1>11, <1>12, <1>13
     DEF Next, LogNext, Advance

\* The initial state is well typed.
LEMMA TypeInit == Init => TypeOK
BY AuditAssumption DEF Init, TypeOK, EmptyLog, NoAnchor, NoHash, Anchors, NoTx, Transactions,
   Steps, NoVerify

\* In every reachable state the committed tables, the open transactions and the
\* verifier hold values of their types (type invariant of the audit log).
THEOREM TypeCorrect == Spec => []TypeOK
BY TypeInit, TypeStep, PTL DEF Spec

(***************************************************************************)
(* The advisory lock and what transactions have read under it.             *)
(***************************************************************************)

\* At most one transaction is past pg_advisory_xact_lock, whatever ends it.
LEMMA LockStep ==
    ASSUME TypeOK, LockInv, [Next]_vars
    PROVE  LockInv'
<1> USE AuditAssumption DEF TypeOK, LockInv, Holding
<1>1. CASE Tick
  BY <1>1 DEF Tick
<1>2. ASSUME NEW p \in Writers, NEW c \in Contents, Begin(p, c)
      PROVE  LockInv'
  BY <1>2 DEF Begin, Transactions
<1>3. ASSUME NEW p \in Pruners, PruneBegin(p)
      PROVE  LockInv'
  BY <1>3 DEF PruneBegin, Transactions
<1>4. ASSUME NEW p \in Procs, Lock(p)
      PROVE  LockInv'
  BY <1>4 DEF Lock, Transactions
<1>5. ASSUME NEW p \in Procs, PruneSelect(p)
      PROVE  LockInv'
  BY <1>5 DEF PruneSelect, Transactions
<1>6. ASSUME NEW p \in Procs, PruneDelete(p)
      PROVE  LockInv'
  BY <1>6 DEF PruneDelete, Transactions
<1>7. ASSUME NEW p \in Procs, ReadHead(p)
      PROVE  LockInv'
  BY <1>7 DEF ReadHead, Transactions
<1>8. ASSUME NEW p \in Procs, Insert(p)
      PROVE  LockInv'
  BY <1>8 DEF Insert, Transactions
<1>9. ASSUME NEW p \in Procs, Commit(p)
      PROVE  LockInv'
  BY <1>9 DEF Commit, NoTx
<1>10. ASSUME NEW p \in Procs, Abort(p)
       PROVE  LockInv'
  BY <1>10 DEF Abort, NoTx
<1>11. CASE VerifyAnchor
  BY <1>11 DEF VerifyAnchor
<1>12. CASE VerifyRows
  BY <1>12 DEF VerifyRows
<1>13. CASE UNCHANGED vars
  BY <1>13 DEF vars
<1> QED
  BY <1>1, <1>2, <1>3, <1>4, <1>5, <1>6, <1>7, <1>8, <1>9, <1>10, <1>11, <1>12, <1>13
     DEF Next, LogNext, Advance

\* A transaction that waits for the lock has read nothing that can go stale.
LEMMA WaitingOK ==
    ASSUME NEW p, NEW t, NEW l, NEW n, NEW l2, NEW n2,
           TxOK(p, t, l, n), t.pc \in {"idle", "begun"}
    PROVE  TxOK(p, t, l2, n2)
BY DEF TxOK

\* Neither has a process without a transaction.
LEMMA IdleOK ==
    ASSUME NEW p \in Procs, NEW l, NEW n
    PROVE  TxOK(p, NoTx, l, n)
BY AuditAssumption DEF TxOK, NoTx, Procs

\* A seq that somebody draws leaves the facts about a transaction as they are.
LEMMA LaterSeqOK ==
    ASSUME NEW p, NEW t \in Transactions, NEW l, NEW n \in Nat, TxOK(p, t, l, n)
    PROVE  TxOK(p, t, l, n + 1)
<1>1. t.seq \in Nat
  BY DEF Transactions
<1>2. t.seq # 0 => t.seq < n + 1
  BY <1>1 DEF TxOK
<1> QED
  BY ONLY <1>2, TxOK(p, t, l, n), Zenon DEF TxOK

\* INSERT draws a seq above every row and keeps the rest of the transaction.
LEMMA InsertOK ==
    ASSUME NEW p \in Procs, NEW t \in Transactions, NEW l, NEW n \in Nat \ {0},
           TxOK(p, t, l, n), t.pc = "headRead", \A s \in DOMAIN l : s < n,
           NEW u, u = [t EXCEPT !.pc = "done", !.seq = n]
    PROVE  TxOK(p, u, l, n + 1)
<1>1. /\ u.pc = "done" /\ u.seq = n /\ u.gone = t.gone /\ u.content = t.content
      /\ u.anchor = t.anchor /\ u.cutoff = t.cutoff /\ u.prevHash = t.prevHash
  BY DEF Transactions
<1>2. u.seq # 0 /\ u.seq < n + 1 /\ \A s \in DOMAIN l : s < u.seq
  BY <1>1
<1>3. p \in Pruners => t.gone # {}
  BY DEF TxOK
<1>4. u.pc \notin {"idle", "begun", "locked", "selected", "deleted", "headRead"} /\ t.pc # "idle"
  BY <1>1
<1>5. t.prevHash = chainHead(Without(l, t.gone))
  BY DEF TxOK
<1>6. /\ p \in Writers => t.gone = {} /\ t.content \in Contents
      /\ p \in Pruners => t.content = PruneMark
      /\ t.gone # {} => t.anchor = AnchorCandidate(l, t.cutoff)
      /\ t.gone # {} => t.gone = {s \in DOMAIN l : l[s].created < t.cutoff}
  BY <1>4 DEF TxOK
<1> QED
  BY <1>1, <1>2, <1>3, <1>4, <1>5, <1>6 DEF TxOK

\* While a transaction holds the lock nobody else changes what it has read.
LEMMA TxStep ==
    ASSUME TypeOK, LockInv, TxInv, [Next]_vars
    PROVE  TxInv'
<1> USE AuditAssumption DEF TypeOK, TxInv
<1>1. CASE Tick
  BY <1>1 DEF Tick
<1>2. ASSUME NEW p \in Writers, NEW c \in Contents, Begin(p, c)
      PROVE  TxInv'
  <2>1. tx[p] \in Transactions /\ TxOK(p, tx[p], log, nextSeq)
    BY DEF Procs
  <2>2. TxOK(p, tx'[p], log, nextSeq)
    BY <1>2, <2>1 DEF Begin, TxOK, Transactions, Procs
  <2>3. \A q \in Procs : q # p => tx'[q] = tx[q]
    BY <1>2 DEF Begin
  <2> QED
    BY <1>2, <2>2, <2>3 DEF Begin
<1>3. ASSUME NEW p \in Pruners, PruneBegin(p)
      PROVE  TxInv'
  <2>1. tx[p] \in Transactions /\ TxOK(p, tx[p], log, nextSeq)
    BY DEF Procs
  <2>2. TxOK(p, tx'[p], log, nextSeq)
    BY <1>3, <2>1 DEF PruneBegin, TxOK, Transactions, Procs
  <2>3. \A q \in Procs : q # p => tx'[q] = tx[q]
    BY <1>3 DEF PruneBegin
  <2> QED
    BY <1>3, <2>2, <2>3 DEF PruneBegin
<1>4. ASSUME NEW p \in Procs, Lock(p)
      PROVE  TxInv'
  <2>1. tx[p] \in Transactions /\ TxOK(p, tx[p], log, nextSeq)
    BY DEF Procs
  <2>2. TxOK(p, tx'[p], log, nextSeq)
    BY <1>4, <2>1 DEF Lock, TxOK, Transactions
  <2>3. \A q \in Procs : q # p => tx'[q] = tx[q]
    BY <1>4 DEF Lock
  <2> QED
    BY <1>4, <2>2, <2>3 DEF Lock
<1>5. ASSUME NEW p \in Pruners, PruneSelect(p)
      PROVE  TxInv'
  <2>1. tx[p] \in Transactions /\ TxOK(p, tx[p], log, nextSeq)
    BY DEF Procs
  <2>2. TxOK(p, tx'[p], log, nextSeq)
    BY <1>5, <2>1 DEF PruneSelect, TxOK, Transactions, Procs
  <2>3. \A q \in Procs : q # p => tx'[q] = tx[q]
    BY <1>5 DEF PruneSelect
  <2> QED
    BY <1>5, <2>2, <2>3 DEF PruneSelect
<1>6. ASSUME NEW p \in Pruners, PruneDelete(p)
      PROVE  TxInv'
  <2>1. tx[p] \in Transactions /\ TxOK(p, tx[p], log, nextSeq)
    BY DEF Procs
  <2>2. TxOK(p, tx'[p], log, nextSeq)
    BY <1>6, <2>1 DEF PruneDelete, TxOK, Transactions, Procs
  <2>3. \A q \in Procs : q # p => tx'[q] = tx[q]
    BY <1>6 DEF PruneDelete
  <2> QED
    BY <1>6, <2>2, <2>3 DEF PruneDelete
<1>7. ASSUME NEW p \in Procs, ReadHead(p)
      PROVE  TxInv'
  <2>1. tx[p] \in Transactions /\ TxOK(p, tx[p], log, nextSeq)
    BY DEF Procs
  <2>2. TxOK(p, tx'[p], log, nextSeq)
    BY <1>7, <2>1 DEF ReadHead, TxOK, Transactions, Visible, Procs
  <2>3. \A q \in Procs : q # p => tx'[q] = tx[q]
    BY <1>7 DEF ReadHead
  <2> QED
    BY <1>7, <2>2, <2>3 DEF ReadHead
<1>8. ASSUME NEW p \in Procs, Insert(p)
      PROVE  TxInv'
  <2>1. tx[p] \in Transactions /\ TxOK(p, tx[p], log, nextSeq)
    OBVIOUS
  <2>2. \A s \in DOMAIN log : s < nextSeq
    OBVIOUS
  <2>3. TxOK(p, tx'[p], log, nextSeq + 1)
    <3>1. tx'[p] = [tx[p] EXCEPT !.pc = "done", !.seq = nextSeq] /\ tx[p].pc = "headRead"
      BY <1>8 DEF Insert
    <3>2. nextSeq \in Nat \ {0}
      OBVIOUS
    <3> HIDE DEF TypeOK, TxInv
    <3> QED BY ONLY p \in Procs, <2>1, <2>2, <3>1, <3>2, InsertOK
  <2>4. \A q \in Procs : q # p => tx'[q] = tx[q] /\ TxOK(q, tx[q], log, nextSeq)
    BY <1>8 DEF Insert
  <2>5. \A q \in Procs : TxOK(q, tx[q], log, nextSeq) => TxOK(q, tx[q], log, nextSeq + 1)
    BY LaterSeqOK
  <2> QED
    BY <1>8, <2>3, <2>4, <2>5 DEF Insert
<1>9. ASSUME NEW p \in Procs, Commit(p)
      PROVE  TxInv'
  <2>1. tx'[p] = NoTx /\ \A q \in Procs : q # p => tx'[q] = tx[q]
    BY <1>9 DEF Commit
  <2>2. \A q \in Procs : q # p => tx[q].pc \in {"idle", "begun"}
    BY <1>9 DEF Commit, LockInv, Holding, Transactions, Steps
  <2>3. \A q \in Procs : q # p => TxOK(q, tx[q], log', nextSeq')
    BY <2>2, WaitingOK
  <2>4. TxOK(p, NoTx, log', nextSeq')
    BY IdleOK
  <2> QED
    BY <2>1, <2>3, <2>4
<1>10. ASSUME NEW p \in Procs, Abort(p)
       PROVE  TxInv'
  <2>1. tx'[p] = NoTx /\ \A q \in Procs : q # p => tx'[q] = tx[q]
    BY <1>10 DEF Abort
  <2>2. TxOK(p, NoTx, log, nextSeq)
    BY IdleOK
  <2> QED
    BY <1>10, <2>1, <2>2 DEF Abort
<1>11. CASE VerifyAnchor
  BY <1>11 DEF VerifyAnchor
<1>12. CASE VerifyRows
  BY <1>12 DEF VerifyRows
<1>13. CASE UNCHANGED vars
  BY <1>13 DEF vars
<1> QED
  BY <1>1, <1>2, <1>3, <1>4, <1>5, <1>6, <1>7, <1>8, <1>9, <1>10, <1>11, <1>12, <1>13
     DEF Next, LogNext, Advance

(***************************************************************************)
(* The only step that changes the tables.                                  *)
(***************************************************************************)

\* A step other than a commit that publishes a row leaves both tables alone.
LEMMA OnlyCommits ==
    ASSUME TypeOK, TxInv, [Next]_vars
    PROVE  \/ UNCHANGED <<log, anchor>> /\ inOrder' = inOrder
           \/ \E p \in Procs : Commit(p) /\ tx[p].seq # 0
<1>1. ASSUME NEW p \in Procs, Commit(p), tx[p].seq = 0
      PROVE  UNCHANGED <<log, anchor>> /\ inOrder' = inOrder
  <2>1. tx[p].gone = {}
    BY <1>1 DEF Commit, TxInv, TxOK
  <2> QED
    BY <1>1, <2>1 DEF Commit, TypeOK
<1> QED
  BY <1>1 DEF Next, LogNext, Advance, Tick, Begin, PruneBegin, Lock, PruneSelect, PruneDelete, ReadHead,
     Insert, Abort, VerifyAnchor, VerifyRows, vars, Procs

\* A publishing commit appends one row, linked to the head of the rows it keeps.
LEMMA CommitEffect ==
    ASSUME TypeOK, TxInv, NEW p \in Procs, Commit(p), tx[p].seq # 0
    PROVE  /\ log' = With(Visible(p), tx[p].seq, Row(tx[p].content, tx[p].started, chainHead(Visible(p))))
           /\ \A s \in DOMAIN log : s < tx[p].seq
           /\ DOMAIN Visible(p) = DOMAIN log \ tx[p].gone
           /\ \A s \in DOMAIN Visible(p) : Visible(p)[s] = log[s]
           /\ inOrder' = (inOrder /\ \A s \in DOMAIN Visible(p) : log[s].created <= tx[p].started)
           /\ tx[p].gone = {} => anchor' = anchor
           /\ tx[p].gone # {} => /\ anchor' = AnchorCandidate(log, tx[p].cutoff)
                                 /\ DOMAIN Visible(p) = {s \in DOMAIN log : log[s].created >= tx[p].cutoff}
           /\ tx[p] \in Transactions
           /\ tx[p].content \in (IF tx[p].gone = {} THEN Contents ELSE {PruneMark})
<1> USE DEF TypeOK
<1>1. TxOK(p, tx[p], log, nextSeq) /\ tx[p] \in Transactions
  BY DEF TxInv
<1>2. tx[p].prevHash = chainHead(Visible(p)) /\ \A s \in DOMAIN log : s < tx[p].seq
  BY <1>1 DEF TxOK, Visible
<1>3. DOMAIN Visible(p) = DOMAIN log \ tx[p].gone /\ \A s \in DOMAIN Visible(p) : Visible(p)[s] = log[s]
  BY DEF Visible, Without
<1>4. log' = With(Visible(p), tx[p].seq, Row(tx[p].content, tx[p].started, chainHead(Visible(p))))
  BY <1>2 DEF Commit, Visible
<1>5. inOrder' = (inOrder /\ \A s \in DOMAIN Visible(p) : log[s].created <= tx[p].started)
  BY DEF Commit, Visible
<1>6. tx[p].gone = {} => anchor' = anchor
  BY DEF Commit
<1>7. ASSUME tx[p].gone # {}
      PROVE  /\ anchor' = AnchorCandidate(log, tx[p].cutoff)
             /\ DOMAIN Visible(p) = {s \in DOMAIN log : log[s].created >= tx[p].cutoff}
  <2>1. tx[p].gone = {s \in DOMAIN log : log[s].created < tx[p].cutoff}
    BY <1>1, <1>7 DEF TxOK
  <2>2. \A s \in DOMAIN log : log[s].created \in Nat /\ tx[p].cutoff \in Int
    BY <1>1 DEF Rows, Transactions
  <2>3. DOMAIN Visible(p) = {s \in DOMAIN log : log[s].created >= tx[p].cutoff}
    BY <1>3, <2>1, <2>2
  <2> QED
    BY <1>1, <1>7, <2>3 DEF Commit, TxOK
<1>8. tx[p].content \in (IF tx[p].gone = {} THEN Contents ELSE {PruneMark})
  BY <1>1 DEF Commit, TxOK, Procs
<1> QED
  BY <1>1, <1>2, <1>3, <1>4, <1>5, <1>6, <1>7, <1>8

\* Hashes keep growing along seq, whatever a prune removes in between.
LEMMA HashStep ==
    ASSUME TypeOK, TxInv, HashInv, [Next]_vars
    PROVE  HashInv'
<1>1. CASE UNCHANGED log
  BY <1>1 DEF HashInv
<1>2. ASSUME NEW p \in Procs, Commit(p), tx[p].seq # 0
      PROVE  HashInv'
  <2> DEFINE kept == Visible(p)
             new == tx[p].seq
             row == Row(tx[p].content, tx[p].started, chainHead(kept))
  <2>1. /\ log' = With(kept, new, row)
        /\ \A s \in DOMAIN log : s < new
        /\ DOMAIN kept \subseteq DOMAIN log
        /\ \A s \in DOMAIN kept : kept[s] = log[s]
        /\ tx[p] \in Transactions
    BY <1>2, CommitEffect
  <2>2. DOMAIN kept \subseteq 0 .. MaxSeq /\ \A s \in DOMAIN kept : kept[s] \in Rows
    BY <2>1, AuditAssumption DEF TypeOK
  <2>3. chainHead(kept) \in Hashes
    BY <2>2, HeadType, AuditAssumption
  <2>4. /\ row.rowHash = computeHash(row.content, row.prevHash)
        /\ Len(row.rowHash) = Len(chainHead(kept)) + 1
    BY <2>3 DEF Row, computeHash, Hashes
  <2>5. \A s \in DOMAIN kept : Len(log[s].rowHash) <= Len(chainHead(kept))
    <3>1. CASE DOMAIN kept = {}
      BY <3>1
    <3>2. CASE DOMAIN kept # {}
      <4>1. Max(DOMAIN kept) \in DOMAIN kept /\ \A s \in DOMAIN kept : s <= Max(DOMAIN kept)
        BY <2>2, <3>2, NatHasMax, AuditAssumption
      <4>2. chainHead(kept) = log[Max(DOMAIN kept)].rowHash
        BY <2>1, <3>2, <4>1 DEF chainHead
      <4> HIDE DEF kept
      <4>3. \A s \in DOMAIN kept : s < Max(DOMAIN kept) \/ s = Max(DOMAIN kept)
        BY <2>2, <4>1
      <4>4. \A s \in DOMAIN kept : Len(log[s].rowHash) \in Nat
        BY <2>1, <2>2 DEF Rows
      <4> QED
        BY <2>1, <4>1, <4>2, <4>3, <4>4 DEF HashInv
    <3> QED
      BY <3>1, <3>2
  <2> HIDE DEF kept, row, new
  <2>6. /\ DOMAIN log' = DOMAIN kept \cup {new}
        /\ log'[new] = row
        /\ \A s \in DOMAIN kept : s < new /\ log'[s] = log[s] /\ s \in DOMAIN log
    BY <2>1, <2>2 DEF With
  <2>7. \A s \in DOMAIN log' : log'[s].rowHash = computeHash(log'[s].content, log'[s].prevHash)
    <3> TAKE s \in DOMAIN log'
    <3>1. CASE s = new
      BY <2>4, <2>6, <3>1
    <3>2. CASE s \in DOMAIN kept
      BY <2>6, <3>2 DEF HashInv
    <3> QED
      BY <2>6, <3>1, <3>2
  <2>8. \A s \in DOMAIN kept : Len(log[s].rowHash) \in Nat /\ Len(chainHead(kept)) \in Nat
    BY <2>1, <2>2, <2>3 DEF Rows, Hashes
  <2>9. \A s, t \in DOMAIN log' : s < t => Len(log'[s].rowHash) < Len(log'[t].rowHash)
    <3> SUFFICES ASSUME NEW s \in DOMAIN log', NEW t \in DOMAIN log', s < t
                 PROVE  Len(log'[s].rowHash) < Len(log'[t].rowHash)
      OBVIOUS
    <3>1. new \in Nat
      BY <2>1 DEF new, Transactions
    <3>2. s \in DOMAIN kept
      BY <2>2, <2>6, <3>1
    <3>3. CASE t = new
      BY <2>4, <2>5, <2>6, <2>8, <3>2, <3>3
    <3>4. CASE t \in DOMAIN kept
      BY <2>6, <3>2, <3>4 DEF HashInv
    <3> QED
      BY <2>6, <3>3, <3>4
  <2> QED
    BY <2>7, <2>9 DEF HashInv
<1> QED
  BY <1>1, <1>2, OnlyCommits

\* Commits in created_at order make a prune remove a prefix, so that the anchor
\* it records is the link into what is left.
LEMMA OrderStep ==
    ASSUME TypeOK, TxInv, HashInv, OrderInv, [Next]_vars
    PROVE  OrderInv'
<1>1. CASE UNCHANGED <<log, anchor>> /\ inOrder' = inOrder
  BY <1>1 DEF OrderInv
<1>2. ASSUME NEW p \in Procs, Commit(p), tx[p].seq # 0
      PROVE  OrderInv'
  <2> DEFINE kept == Visible(p)
             new == tx[p].seq
             row == Row(tx[p].content, tx[p].started, chainHead(kept))
  <2>1. /\ log' = With(kept, new, row)
        /\ \A s \in DOMAIN log : s < new
        /\ DOMAIN kept = DOMAIN log \ tx[p].gone
        /\ \A s \in DOMAIN kept : kept[s] = log[s]
        /\ inOrder' = (inOrder /\ \A s \in DOMAIN kept : log[s].created <= tx[p].started)
        /\ tx[p].gone = {} => anchor' = anchor
        /\ tx[p].gone # {} => /\ anchor' = AnchorCandidate(log, tx[p].cutoff)
                              /\ DOMAIN kept = {s \in DOMAIN log : log[s].created >= tx[p].cutoff}
        /\ tx[p] \in Transactions
    BY <1>2, CommitEffect
  <2>2. /\ DOMAIN log \subseteq Nat \ {0} /\ new \in Nat /\ tx[p].cutoff \in Int
        /\ DOMAIN kept \subseteq 0 .. MaxSeq /\ DOMAIN kept \subseteq Nat \ {0}
        /\ \A s \in DOMAIN log : log[s].created \in Nat
    <3>1. DOMAIN log \subseteq Nat \ {0} /\ DOMAIN log \subseteq 0 .. MaxSeq
      BY AuditAssumption DEF TypeOK
    <3>2. \A s \in DOMAIN log : log[s].created \in Nat
      BY DEF TypeOK, Rows
    <3>3. new \in Nat /\ tx[p].cutoff \in Int
      BY <2>1 DEF Transactions
    <3> QED
      BY <2>1, <3>1, <3>2, <3>3
  <2>3. row.prevHash = chainHead(kept) /\ row.created = tx[p].started
    BY DEF Row
  <2>4. CASE DOMAIN kept = {}
    <3>1. DOMAIN log' = {new} /\ log'[new] = row
      BY <2>1, <2>4 DEF With
    <3>2. chainHead(kept) = NoHash
      BY <2>4 DEF chainHead
    <3>3. anchor' = NoAnchor
      <4>1. CASE tx[p].gone = {}
        BY <2>1, <2>4, <4>1 DEF OrderInv
      <4>2. CASE tx[p].gone # {}
        BY <2>1, <2>4, <4>2 DEF AnchorCandidate
      <4> QED
        BY <4>1, <4>2
    <3>4. HashInv'
      BY HashStep
    <3> HIDE DEF row, new, kept
    <3>5. VerifyChain(log', anchor')
      BY <2>2, <2>3, <3>1, <3>2, <3>3, <3>4 DEF VerifyChain, NoAnchor, HashInv, Adjacent
    <3> QED
      BY <2>2, <3>1, <3>5 DEF OrderInv
  <2>5. CASE DOMAIN kept # {}
    <3>1. Max(DOMAIN kept) \in DOMAIN kept /\ \A s \in DOMAIN kept : s <= Max(DOMAIN kept)
      BY <2>2, <2>5, NatHasMax, AuditAssumption
    <3>2. chainHead(kept) = log[Max(DOMAIN kept)].rowHash
      BY <2>1, <2>5, <3>1 DEF chainHead
    <3>3. /\ DOMAIN log' = DOMAIN kept \cup {new}
          /\ log'[new] = row
          /\ \A s \in DOMAIN kept : s < new /\ log'[s] = log[s] /\ s \in DOMAIN log
      BY <2>1, <2>2 DEF With
    <3>4. HashInv'
      BY HashStep
    <3> HIDE DEF row, new, kept
    <3>5. SUFFICES ASSUME inOrder'
                   PROVE  /\ \A s, t \in DOMAIN log' : s < t => log'[s].created <= log'[t].created
                          /\ VerifyChain(log', anchor')
      BY <3>3 DEF OrderInv
    <3>6. /\ \A s \in DOMAIN kept : log[s].created <= tx[p].started
          /\ \A s, t \in DOMAIN log : s < t => log[s].created <= log[t].created
          /\ VerifyChain(log, anchor)
      BY <2>1, <3>5 DEF OrderInv
    <3>7. \A s, t \in DOMAIN log' : s < t => log'[s].created <= log'[t].created
      BY <2>2, <2>3, <3>3, <3>6
    <3>8. \A s \in DOMAIN log' : log'[s].rowHash = computeHash(log'[s].content, log'[s].prevHash)
      BY <3>4 DEF HashInv
    <3>9. ASSUME NEW t \in DOMAIN log', NEW s \in DOMAIN log', Adjacent(log', t, s)
          PROVE  log'[s].prevHash = log'[t].rowHash
      <4>1. t \in DOMAIN kept /\ t < s
        BY <2>2, <3>3, <3>9 DEF Adjacent
      <4>2. CASE s = new
        <5>1. t = Max(DOMAIN kept)
          BY <2>2, <3>1, <3>3, <3>9, <4>1, <4>2 DEF Adjacent
        <5> QED
          BY <2>3, <3>2, <3>3, <4>1, <4>2, <5>1
      <4>3. CASE s \in DOMAIN kept
        <5>1. ASSUME NEW u \in DOMAIN log, u \notin DOMAIN kept
              PROVE  u <= t \/ s <= u
          <6>1. log[u].created < tx[p].cutoff /\ log[t].created >= tx[p].cutoff
            BY <2>1, <2>2, <4>1, <5>1
          <6>2. ~ (t < u)
            BY <2>2, <3>3, <3>6, <4>1, <6>1
          <6> QED
            BY <2>2, <4>1, <6>2
        <5>2. Adjacent(log, t, s)
          BY <3>3, <3>9, <4>1, <5>1 DEF Adjacent
        <5> QED
          BY <3>3, <3>6, <4>1, <4>3, <5>2 DEF VerifyChain
      <4> QED
        BY <3>3, <4>2, <4>3
    <3>10. ASSUME NEW s \in DOMAIN log', IsFirst(log', s)
           PROVE  /\ anchor'.seq > 0 => s = anchor'.seq
                  /\ log'[s].prevHash = (IF anchor'.seq > 0 THEN anchor'.prevHash ELSE NoHash)
      <4>1. s \in DOMAIN kept /\ IsFirst(kept, s)
        BY <2>2, <2>5, <3>3, <3>10 DEF IsFirst
      <4>2. CASE tx[p].gone = {}
        <5>1. IsFirst(log, s) /\ s \in DOMAIN log /\ anchor' = anchor
          BY <2>1, <4>1, <4>2 DEF IsFirst
        <5> QED
          BY <3>3, <3>6, <4>1, <5>1 DEF VerifyChain
      <4>3. CASE tx[p].gone # {}
        <5>1. DOMAIN kept = {u \in DOMAIN log : log[u].created >= tx[p].cutoff}
          BY <2>1, <4>3
        <5>2. Min(DOMAIN kept) = s
          <6>1. Min(DOMAIN kept) \in DOMAIN kept /\ Min(DOMAIN kept) <= s
            BY <2>2, <4>1, NatHasMin
          <6>2. s <= Min(DOMAIN kept)
            BY <4>1, <6>1 DEF IsFirst
          <6> QED
            BY <2>2, <4>1, <6>1, <6>2
        <5>3. anchor' = [seq |-> s, prevHash |-> log[s].prevHash]
          BY <2>1, <2>5, <4>3, <5>1, <5>2 DEF AnchorCandidate
        <5>4. s > 0
          BY <2>2, <4>1
        <5> QED
          BY <3>3, <4>1, <5>3, <5>4
      <4> QED
        BY <4>2, <4>3
    <3> QED
      BY <3>7, <3>8, <3>9, <3>10 DEF VerifyChain
  <2> QED
    BY <2>4, <2>5
<1> QED
  BY <1>1, <1>2, OnlyCommits

(***************************************************************************)
(* The theorems.                                                           *)
(***************************************************************************)

AuditInv == TypeOK /\ LockInv /\ TxInv /\ HashInv /\ OrderInv

\* The empty log satisfies the inductive invariant.
LEMMA AuditInvInit == Init => AuditInv
<1> SUFFICES ASSUME Init PROVE AuditInv
  OBVIOUS
<1>1. TypeOK
  BY TypeInit
<1>2. LockInv
  BY DEF Init, LockInv, Holding, NoTx
<1>3. TxInv
  BY IdleOK DEF Init, TxInv
<1>4. HashInv /\ OrderInv
  BY DEF Init, HashInv, OrderInv, VerifyChain, EmptyLog
<1> QED
  BY <1>1, <1>2, <1>3, <1>4 DEF AuditInv

\* The inductive invariant holds in every reachable state.
LEMMA AuditInvHolds == Spec => []AuditInv
<1>1. AuditInv /\ [Next]_vars => AuditInv'
  BY TypeStep, LockStep, TxStep, HashStep, OrderStep DEF AuditInv
<1> QED
  BY <1>1, AuditInvInit, PTL DEF Spec

\* No two rows of audit_logs ever name the same predecessor, for any number of
\* concurrent WriteEntry and Prune calls.
THEOREM ChainNeverForks == Spec => []NoFork
<1>1. AuditInv => NoFork
  <2> SUFFICES ASSUME AuditInv, NEW s \in DOMAIN log, NEW t \in DOMAIN log,
                      log[s].prevHash = log[t].prevHash
               PROVE  s = t
    BY DEF NoFork
  <2>1. /\ s \in Nat /\ t \in Nat
        /\ log[s].prevHash \in Hashes /\ log[t].prevHash \in Hashes
    BY DEF AuditInv, TypeOK, Rows, Hashes
  <2>2. Len(log[s].rowHash) = Len(log[t].rowHash) /\ Len(log[s].rowHash) \in Nat
    BY <2>1 DEF AuditInv, HashInv, computeHash, Hashes
  <2>3. ~ (s < t) /\ ~ (t < s)
    BY <2>2 DEF AuditInv, HashInv
  <2> QED
    BY <2>1, <2>3
<1> QED
  BY <1>1, AuditInvHolds, PTL

\* While rows commit in created_at order, what Prune leaves always verifies
\* against the anchor it recorded.
THEOREM InOrderChainIntact == Spec => []ChainIntact
<1>1. AuditInv => ChainIntact
  BY DEF AuditInv, OrderInv, ChainIntact
<1> QED
  BY <1>1, AuditInvHolds, PTL

\* An intact chain is never reported as tampered with, unless a prune committed
\* between VerifyChain's two reads.
THEOREM VerifierSound == Spec => []NoFalseAlarm
<1>1. Init => VerInv /\ NoFalseAlarm
  BY DEF Init, VerInv, NoFalseAlarm, NoVerify
<1>2. AuditInv /\ VerInv /\ NoFalseAlarm /\ [Next]_vars => VerInv' /\ NoFalseAlarm'
  <2> SUFFICES ASSUME AuditInv, VerInv, NoFalseAlarm, [Next]_vars
               PROVE  VerInv' /\ NoFalseAlarm'
    OBVIOUS
  <2> USE DEF VerInv, NoFalseAlarm
  <2>1. /\ ver \in [pc : {"idle", "anchored"}, anchor : Anchors, raced : BOOLEAN,
                    result : {"none", "ok", "broken"}]
        /\ inOrder \in BOOLEAN
    BY DEF AuditInv, TypeOK
  <2>2. CASE VerifyAnchor
    BY <2>2 DEF VerifyAnchor, NoVerify
  <2>3. CASE VerifyRows
    <3>1. CASE ver.raced \/ ~inOrder
      BY <2>1, <2>3, <3>1 DEF VerifyRows
    <3>2. CASE ~ver.raced /\ inOrder
      <4>1. VerifyChain(log, ver.anchor)
        BY <2>3, <3>2 DEF VerifyRows, AuditInv, OrderInv
      <4> QED
        BY <2>1, <2>3, <4>1 DEF VerifyRows
    <3> QED
      BY <3>1, <3>2
  <2>4. ASSUME NEW p \in Procs, Commit(p)
        PROVE  VerInv' /\ NoFalseAlarm'
    <3>1. inOrder' => inOrder
      BY <2>4 DEF Commit
    <3>2. /\ ver'.pc = ver.pc /\ ver'.anchor = ver.anchor /\ ver'.result = ver.result
          /\ ver'.raced = (ver.raced \/ (ver.pc = "anchored" /\ tx[p].gone # {}))
      BY <2>1, <2>4 DEF Commit
    <3>3. tx[p].gone # {} \/ anchor' = anchor
      BY <2>4 DEF Commit
    <3> QED
      BY <3>1, <3>2, <3>3
  <2>5. CASE UNCHANGED <<ver, anchor, inOrder>>
    BY <2>5
  <2> QED
    BY <2>2, <2>3, <2>4, <2>5 DEF Next, LogNext, Advance, Tick, Begin, PruneBegin, Lock, PruneSelect,
       PruneDelete, ReadHead, Insert, Abort, vars, Procs
<1> QED
  BY <1>1, <1>2, AuditInvHolds, PTL DEF Spec

(***************************************************************************)
(* Refinement.                                                             *)
(***************************************************************************)

\* The abstract specification is written over the same row operators.
LEMMA SameOps ==
    /\ \A l : Chain!chainHead(l) = chainHead(l)
    /\ \A l, s, r : Chain!With(l, s, r) = With(l, s, r)
    /\ \A c, n, h : Chain!Row(c, n, h) = Row(c, n, h)
    /\ \A l, S : Chain!Without(l, S) = Without(l, S)
    /\ Chain!NoAnchor = NoAnchor
    /\ Chain!EmptyLog = EmptyLog
<1>1. \A l : Chain!chainHead(l) = chainHead(l)
  BY DEF Chain!chainHead, chainHead, Chain!NoHash, NoHash, Chain!Max, Max
<1>2. \A l, s, r : Chain!With(l, s, r) = With(l, s, r)
  BY DEF Chain!With, With
<1>3. \A c, n, h : Chain!Row(c, n, h) = Row(c, n, h)
  BY DEF Chain!Row, Row, Chain!computeHash, computeHash
<1>4. \A l, S : Chain!Without(l, S) = Without(l, S)
  BY DEF Chain!Without, Without
<1>5. Chain!NoAnchor = NoAnchor /\ Chain!EmptyLog = EmptyLog
  BY DEF Chain!NoAnchor, NoAnchor, Chain!EmptyLog, EmptyLog, Chain!NoHash, NoHash
<1> QED
  BY <1>1, <1>2, <1>3, <1>4, <1>5

\* The transactions of WriteEntry and Prune, which read the head, insert, delete
\* and move the anchor in separate statements, behave as the atomic operations
\* of AuditChain.
THEOREM TransactionsImplementChain == Spec => ImplementsChain
<1>1. Init => Chain!Init
  BY SameOps DEF Init, Chain!Init
<1>2. AuditInv /\ [Next]_vars => [Chain!Next]_(Chain!vars)
  <2> SUFFICES ASSUME AuditInv, [Next]_vars
               PROVE  [Chain!Next]_(Chain!vars)
    OBVIOUS
  <2>1. TypeOK /\ TxInv
    BY DEF AuditInv
  <2>2. CASE UNCHANGED <<log, anchor>>
    BY <2>2 DEF Chain!vars
  <2>3. ASSUME NEW p \in Procs, Commit(p), tx[p].seq # 0
        PROVE  Chain!Next
    <3> DEFINE kept == Visible(p)
               new == tx[p].seq
               row == Row(tx[p].content, tx[p].started, chainHead(kept))
    <3>1. /\ log' = With(kept, new, row)
          /\ \A s \in DOMAIN log : s < new
          /\ DOMAIN kept = DOMAIN log \ tx[p].gone
          /\ \A s \in DOMAIN kept : kept[s] = log[s]
          /\ tx[p].gone = {} => anchor' = anchor
          /\ tx[p].gone # {} => /\ anchor' = AnchorCandidate(log, tx[p].cutoff)
                                /\ DOMAIN kept = {s \in DOMAIN log : log[s].created >= tx[p].cutoff}
          /\ tx[p] \in Transactions
          /\ tx[p].content \in (IF tx[p].gone = {} THEN Contents ELSE {PruneMark})
      BY <2>1, <2>3, CommitEffect
    <3>2. new \in Nat \ {0} /\ tx[p].started \in Nat
      BY <2>3, <3>1 DEF Transactions
    <3>3. new \in DOMAIN log' /\ log'[new] = row /\ row.created = tx[p].started
      BY <3>1 DEF With, Row
    <3>4. Chain!Extends(log', kept, tx[p].content, DOMAIN log)
      BY <3>1, <3>2, <3>3, SameOps DEF Chain!Extends
    <3>5. CASE tx[p].gone = {}
      <4>1. kept = log
        BY <2>1, <3>5 DEF Visible, Without, TypeOK
      <4> QED
        BY <3>1, <3>4, <3>5, <4>1 DEF Chain!Next, Chain!WriteEntry
    <3>6. CASE tx[p].gone # {}
      <4> DEFINE S == tx[p].gone
      <4>1. S \in SUBSET DOMAIN log
        BY <2>1, <3>6 DEF TxInv, TxOK
      <4>2. kept = Chain!Without(log, S)
        BY SameOps DEF Visible
      <4>3. Chain!AnchorFor(kept, anchor')
        <5>1. CASE DOMAIN kept = {}
          BY <3>1, <3>6, <5>1, SameOps DEF Chain!AnchorFor, AnchorCandidate
        <5>2. CASE DOMAIN kept # {}
          <6>1. DOMAIN kept \subseteq Nat
            BY <2>1, <3>1 DEF TypeOK
          <6>2. Min(DOMAIN kept) \in DOMAIN kept /\ \A s \in DOMAIN kept : Min(DOMAIN kept) <= s
            BY <5>2, <6>1, NatHasMin
          <6>3. anchor' = [seq |-> Min(DOMAIN kept), prevHash |-> kept[Min(DOMAIN kept)].prevHash]
            BY <3>1, <3>6, <5>2, <6>2 DEF AnchorCandidate
          <6> HIDE DEF kept
          <6> QED
            BY <5>2, <6>2, <6>3 DEF Chain!AnchorFor, Chain!IsFirst
        <5> QED
          BY <5>1, <5>2
      <4>4. tx[p].content = PruneMark
        BY <3>1, <3>6
      <4> HIDE DEF kept, S
      <4>5. Chain!Prune(S)
        BY <3>4, <3>6, <4>2, <4>3, <4>4 DEF Chain!Prune, S
      <4> QED
        BY <4>1, <4>5 DEF Chain!Next
    <3> QED
      BY <3>5, <3>6
  <2> QED
    BY <2>1, <2>2, <2>3, OnlyCommits
<1> QED
  BY <1>1, <1>2, AuditInvHolds, PTL DEF Spec, ImplementsChain, Chain!Spec

=============================================================================
