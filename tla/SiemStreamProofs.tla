-------------------------- MODULE SiemStreamProofs --------------------------
(***************************************************************************)
(* No audit event is skipped by the SIEM cursor, for any number of         *)
(* writers, prunes, streamers and any batch size.                          *)
(***************************************************************************)
EXTENDS SiemStream, AuditLogProofs, FiniteSetTheorems

\* A step of the composed system is a step of the audit log or leaves it alone.
LEMMA SiemLogStep == SiemNext => Next \/ UNCHANGED vars
BY DEF SiemNext, LogStep, Stream, ReadCursor, ReadBatch, Send, AdvanceCursor, PollFails, Next

\* What the audit log alone guarantees holds beside the streamers.
LEMMA SiemAuditInv == SiemSpec => []AuditInv
<1>1. SiemInit => AuditInv
  BY AuditInvInit DEF SiemInit
<1>2. AuditInv /\ [SiemNext]_allVars => AuditInv'
  <2>1. [SiemNext]_allVars => [Next]_vars
    BY SiemLogStep DEF allVars
  <2> QED
    BY <2>1, TypeStep, LockStep, TxStep, HashStep, OrderStep DEF AuditInv
<1> QED
  BY <1>1, <1>2, PTL DEF SiemSpec

\* LIMIT n keeps a lower part of the rows: everything up to the highest row of
\* the batch is in the batch.
LEMMA LowestIsLower ==
    ASSUME NEW m \in Nat, NEW S, S \subseteq 1 .. m, NEW n \in Nat,
           NEW a \in S, NEW b \in Lowest(S, n), a <= b
    PROVE  a \in Lowest(S, n)
<1> DEFINE A == {t \in S : t < a}
           B == {t \in S : t < b}
<1>1. IsFiniteSet(S)
  <2>1. IsFiniteSet(1 .. m) /\ S \in SUBSET (1 .. m)
    BY FS_Interval
  <2> QED
    BY <2>1, FS_Subset
<1>2. b \in S /\ Cardinality(B) < n
  BY DEF Lowest
<1>3. A \in SUBSET B /\ B \in SUBSET S
  <2>1. a \in Nat /\ b \in Nat /\ \A t \in S : t \in Nat
    BY <1>2
  <2>2. \A t \in S : t < a => t < b
    BY <2>1
  <2> QED
    BY <2>2
<1>4. IsFiniteSet(B)
  BY <1>1, <1>3, FS_Subset
<1> HIDE DEF A, B
<1>5. Cardinality(A) <= Cardinality(B) /\ Cardinality(A) \in Nat /\ Cardinality(B) \in Nat
  BY <1>3, <1>4, FS_Subset, FS_CardinalityType
<1>6. Cardinality(A) < n
  BY <1>2, <1>5
<1> QED
  BY <1>6 DEF Lowest, A

\* Rows become visible above every seq a streamer has already passed.
LEMMA LogKeeps ==
    ASSUME AuditInv, Next, NEW n, Below(n, tx, nextSeq)
    PROVE  /\ Below(n, tx', nextSeq')
           /\ \A S : Covered(n, S, log) => Covered(n, S, log')
<1>1. Below(n, tx', nextSeq')
  <2> USE DEF AuditInv, TypeOK, Below
  <2>1. ASSUME NEW p \in Procs, Insert(p)
        PROVE  Below(n, tx', nextSeq')
    <3>1. nextSeq' = nextSeq + 1 /\ \A q \in Procs : q # p => tx'[q] = tx[q]
      BY <2>1 DEF Insert
    <3>2. tx'[p].seq = nextSeq
      BY <2>1 DEF Insert, Transactions
    <3> QED
      BY <3>1, <3>2
  <2>2. ASSUME NEW p \in Procs, Commit(p) \/ Abort(p)
        PROVE  Below(n, tx', nextSeq')
    BY <2>2 DEF Commit, Abort, NoTx
  <2>3. CASE nextSeq' = nextSeq /\ \A q \in Procs : tx'[q].seq = tx[q].seq
    BY <2>3
  <2>4. ASSUME NEW p \in Writers, NEW c \in Contents, Begin(p, c)
        PROVE  Below(n, tx', nextSeq')
    BY <2>3, <2>4 DEF Begin, Transactions, Procs
  <2>5. ASSUME NEW p \in Pruners, PruneBegin(p)
        PROVE  Below(n, tx', nextSeq')
    BY <2>3, <2>5 DEF PruneBegin, Transactions, Procs
  <2>6. ASSUME NEW p \in Procs, Lock(p) \/ PruneSelect(p) \/ PruneDelete(p) \/ ReadHead(p)
        PROVE  Below(n, tx', nextSeq')
    <3>1. tx[p] \in Transactions
      OBVIOUS
    <3>2. nextSeq' = nextSeq /\ \A q \in Procs : q # p => tx'[q].seq = tx[q].seq
      BY <2>6 DEF Lock, PruneSelect, PruneDelete, ReadHead
    <3>3. CASE Lock(p)
      BY <2>3, <3>1, <3>2, <3>3 DEF Lock, Transactions
    <3>4. CASE PruneSelect(p)
      BY <2>3, <3>1, <3>2, <3>4 DEF PruneSelect, Transactions
    <3>5. CASE PruneDelete(p)
      BY <2>3, <3>1, <3>2, <3>5 DEF PruneDelete, Transactions
    <3>6. CASE ReadHead(p)
      BY <2>3, <3>1, <3>2, <3>6 DEF ReadHead, Transactions
    <3> QED
      BY <2>6, <3>3, <3>4, <3>5, <3>6
  <2>7. CASE Tick \/ VerifyAnchor \/ VerifyRows
    BY <2>3, <2>7 DEF Tick, VerifyAnchor, VerifyRows
  <2> QED
    BY <2>1, <2>2, <2>4, <2>5, <2>6, <2>7 DEF Next, LogNext, Advance
<1>2. ASSUME NEW S, Covered(n, S, log)
      PROVE  Covered(n, S, log')
  <2>1. \A s \in DOMAIN log' : s \in DOMAIN log \/ n < s
    <3>1. CASE UNCHANGED log
      BY <3>1
    <3>2. ASSUME NEW p \in Procs, Commit(p), tx[p].seq # 0
          PROVE  \A s \in DOMAIN log' : s \in DOMAIN log \/ n < s
      BY <3>2 DEF Commit, With, Visible, Without, Below
    <3> QED
      BY <3>1, <3>2, OnlyCommits DEF AuditInv
  <2>2. DOMAIN log' \subseteq Nat /\ n \in Nat
    <3>1. TypeOK'
      BY TypeStep DEF AuditInv
    <3>2. nextSeq' \in Int /\ DOMAIN log' \subseteq 1 .. nextSeq' - 1
      BY <3>1, AuditAssumption DEF TypeOK
    <3> QED
      BY <3>2 DEF Below
  <2> QED
    BY <1>2, <2>1, <2>2 DEF Covered
<1> QED
  BY <1>1, <1>2

\* The streamers and the log keep the streaming invariant.
LEMMA StreamStep ==
    ASSUME AuditInv, StreamInv, [SiemNext]_allVars
    PROVE  StreamInv'
<1> USE SiemAssumption
<1>1. CASE LogStep
  <2>1. Next /\ UNCHANGED siemVars
    BY <1>1 DEF LogStep, Next
  <2>2. \A n : Below(n, tx, nextSeq) =>
               /\ Below(n, tx', nextSeq')
               /\ \A S : Covered(n, S, log) => Covered(n, S, log')
    BY <2>1, LogKeeps
  <2> QED
    BY <2>1, <2>2 DEF StreamInv, PollOK, siemVars
<1>2. ASSUME NEW r \in Streamers, ReadCursor(r)
      PROVE  StreamInv'
  <2>1. cursor \in Nat
    BY DEF StreamInv, Below
  <2> QED
    BY <1>2, <2>1 DEF ReadCursor, StreamInv, PollOK, vars
<1>3. ASSUME NEW r \in Streamers, ReadBatch(r)
      PROVE  StreamInv'
  <2> DEFINE S == {s \in DOMAIN log : s > poll[r].last}
             rows == Lowest(S, PollBatchSize)
  <2>0. UNCHANGED <<log, tx, nextSeq, cursor, sent>>
    BY <1>3 DEF ReadBatch, vars
  <2>1. /\ poll[r].pc = "cursorRead" /\ poll[r].last \in Nat
        /\ Below(poll[r].last, tx, nextSeq) /\ Covered(poll[r].last, sent, log)
    BY <1>3 DEF ReadBatch, StreamInv, PollOK
  <2>2. DOMAIN log \subseteq 1 .. MaxSeq /\ MaxSeq \in Nat
    BY AuditAssumption DEF AuditInv, TypeOK
  <2>3. rows \subseteq S /\ S \subseteq DOMAIN log
    BY DEF Lowest
  <2>4. CASE rows = {}
    <3>1. poll' = [poll EXCEPT ![r] = NoPoll]
      BY <1>3, <2>4 DEF ReadBatch
    <3> HIDE DEF rows, S
    <3> QED
      BY <2>0, <3>1 DEF StreamInv, PollOK, NoPoll
  <2>5. CASE rows # {}
    <3>1. poll' = [poll EXCEPT ![r] = [poll[r] EXCEPT !.pc = "sending", !.batch = rows,
                                                        !.max = Max(rows)]]
      BY <1>3, <2>5 DEF ReadBatch
    <3>2. Max(rows) \in rows /\ rows \subseteq 0 .. MaxSeq
      <4>1. rows \subseteq 0 .. MaxSeq
        BY <2>2, <2>3
      <4> QED
        BY <2>2, <2>5, <4>1, NatHasMax
    <3>3. Below(Max(rows), tx, nextSeq)
      <4>1. \A s \in DOMAIN log : s \in Nat /\ s < nextSeq
        BY <2>2 DEF AuditInv, TypeOK
      <4>2. \A p \in Procs : tx[p].seq # 0 => \A s \in DOMAIN log : s < tx[p].seq
        BY DEF AuditInv, TxInv, TxOK
      <4> QED
        BY <2>3, <3>2, <4>1, <4>2 DEF Below
    <3>4. Covered(Max(rows), sent \cup rows, log)
      <4> SUFFICES ASSUME NEW s \in DOMAIN log, s <= Max(rows)
                   PROVE  s \in sent \cup rows
        BY DEF Covered
      <4>1. CASE s <= poll[r].last
        BY <2>1, <4>1 DEF Covered
      <4>2. CASE s > poll[r].last
        <5>1. s \in S /\ S \subseteq 1 .. MaxSeq
          BY <2>2, <4>2
        <5> QED
          BY <2>2, <3>2, <5>1, LowestIsLower
      <4> QED
        BY <2>1, <2>2, <4>1, <4>2
    <3> HIDE DEF rows, S
    <3>5. rows \subseteq Nat /\ Max(rows) \in Nat
      <4>1. \A x \in 0 .. MaxSeq : x \in Nat
        BY <2>2
      <4> QED
        BY <3>2, <4>1
    <3> DEFINE u == [poll[r] EXCEPT !.pc = "sending", !.batch = rows, !.max = Max(rows)]
    <3>6. /\ u.pc = "sending" /\ u.batch = rows /\ u.max = Max(rows)
          /\ u \in [pc : {"idle", "cursorRead", "sending"}, last : Nat, batch : SUBSET Nat, max : Nat]
      BY <3>5 DEF StreamInv
    <3>7. PollOK(u, tx, nextSeq, log, sent)
      BY <3>3, <3>4, <3>6 DEF PollOK
    <3> HIDE DEF u
    <3>8. poll' = [poll EXCEPT ![r] = u]
      BY <3>1 DEF u
    <3> QED
      BY <2>0, <3>6, <3>7, <3>8 DEF StreamInv
  <2> QED
    BY <2>4, <2>5
<1>4. ASSUME NEW r \in Streamers, NEW s \in poll[r].batch, Send(r, s)
      PROVE  StreamInv'
  BY <1>4 DEF Send, StreamInv, PollOK, Covered, vars
<1>5. ASSUME NEW r \in Streamers, AdvanceCursor(r)
      PROVE  StreamInv'
  BY <1>5 DEF AdvanceCursor, StreamInv, PollOK, NoPoll, vars
<1>6. ASSUME NEW r \in Streamers, PollFails(r)
      PROVE  StreamInv'
  BY <1>6 DEF PollFails, StreamInv, PollOK, NoPoll, vars
<1>7. CASE UNCHANGED allVars
  BY <1>7 DEF allVars, vars, siemVars, StreamInv
<1> QED
  BY <1>1, <1>2, <1>3, <1>4, <1>5, <1>6, <1>7 DEF SiemNext, Stream

\* Every audit row at or below the durable cursor was accepted by the sink, for
\* any interleaving of writers, prunes, failing polls and overlapping streamers.
THEOREM NoEventIsSkipped == SiemSpec => []NoEventSkipped
<1>1. SiemInit => StreamInv
  <2> SUFFICES ASSUME SiemInit PROVE StreamInv
    OBVIOUS
  <2>1. DOMAIN log = {} /\ nextSeq = 1 /\ \A p \in Procs : tx[p].seq = 0
    BY DEF SiemInit, Init, EmptyLog, NoTx
  <2> QED
    BY <2>1 DEF SiemInit, StreamInv, Below, Covered, PollOK, NoPoll
<1>2. AuditInv /\ StreamInv /\ [SiemNext]_allVars => StreamInv'
  BY StreamStep
<1>3. StreamInv => NoEventSkipped
  BY DEF StreamInv, Covered, NoEventSkipped
<1> QED
  BY <1>1, <1>2, <1>3, SiemAuditInv, PTL DEF SiemSpec

=============================================================================
