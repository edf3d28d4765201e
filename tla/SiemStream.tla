----------------------------- MODULE SiemStream -----------------------------
(***************************************************************************)
(* Streaming of the audit log to a SIEM (backend/internal/siem/siem.go)    *)
(* beside the transactions that write and prune it (AuditLog).  A streamer *)
(* is one replica's polling goroutine; the leader gate is looked at once,  *)
(* before a poll, so a replica that has just lost leadership can still be  *)
(* polling when its successor starts.                                      *)
(***************************************************************************)
EXTENDS AuditLog

CONSTANTS Streamers,      \* replicas whose streamer may be polling
          PollBatchSize   \* rows fetched per poll

ASSUME SiemAssumption == PollBatchSize \in Nat \ {0}

VARIABLES cursor,   \* siem_cursor.last_seq
          poll,     \* per streamer: progress of the current poll
          sent      \* seq values the sink has accepted

siemVars == <<cursor, poll, sent>>
allVars == <<vars, siemVars>>

NoPoll == [pc |-> "idle", last |-> 0, batch |-> {}, max |-> 0]

SiemInit ==
    /\ Init
    /\ cursor = 0
    /\ poll = [r \in Streamers |-> NoPoll]
    /\ sent = {}

\* The n smallest elements of a set of seq values: ORDER BY seq ASC LIMIT n.
Lowest(S, n) == {s \in S : Cardinality({t \in S : t < s}) < n}

\* SELECT last_seq FROM siem_cursor.
ReadCursor(r) ==
    /\ poll[r].pc = "idle"
    /\ poll' = [poll EXCEPT ![r].pc = "cursorRead", ![r].last = cursor]
    /\ UNCHANGED <<vars, cursor, sent>>

\* Rows above the cursor; an empty batch ends the poll.
ReadBatch(r) ==
    LET rows == Lowest({s \in DOMAIN log : s > poll[r].last}, PollBatchSize) IN
    /\ poll[r].pc = "cursorRead"
    /\ poll' = [poll EXCEPT ![r] = IF rows = {} THEN NoPoll
                                   ELSE [@ EXCEPT !.pc = "sending", !.batch = rows, !.max = Max(rows)]]
    /\ UNCHANGED <<vars, cursor, sent>>

\* sink.Send accepts the next entry of the batch, in seq order.
Send(r, s) ==
    /\ poll[r].pc = "sending"
    /\ poll[r].batch # {}
    /\ s = Min(poll[r].batch)
    /\ sent' = sent \cup {s}
    /\ poll' = [poll EXCEPT ![r].batch = @ \ {s}]
    /\ UNCHANGED <<vars, cursor>>

\* Mutant: a failed send still advances the cursor.
FailAdvances(r) ==
    /\ poll[r].pc # "idle"
    /\ cursor' = IF poll[r].pc = "sending" THEN poll[r].max ELSE cursor
    /\ poll' = [poll EXCEPT ![r] = NoPoll]
    /\ UNCHANGED <<vars, sent>>

\* Every entry went out: UPDATE siem_cursor SET last_seq = max, whatever the
\* cursor holds by now.
AdvanceCursor(r) ==
    /\ poll[r].pc = "sending"
    /\ poll[r].batch = {}
    /\ cursor' = poll[r].max
    /\ poll' = [poll EXCEPT ![r] = NoPoll]
    /\ UNCHANGED <<vars, sent>>

\* A query, a Send or the final UPDATE fails, or the replica stops: the poll is
\* over and the cursor stays.
PollFails(r) ==
    /\ poll[r].pc # "idle"
    /\ poll' = [poll EXCEPT ![r] = NoPoll]
    /\ UNCHANGED <<vars, cursor, sent>>

Stream(r) == ReadCursor(r) \/ ReadBatch(r) \/ AdvanceCursor(r) \/ PollFails(r)
             \/ \E s \in poll[r].batch : Send(r, s)

LogStep == LogNext /\ UNCHANGED siemVars

SiemNext == LogStep \/ \E r \in Streamers : Stream(r)

SiemSpec == SiemInit /\ [][SiemNext]_allVars

(***************************************************************************)
(* The ticker keeps polling (WF of a poll's own steps), and a step that is *)
(* retried again and again goes through in the end: the sink and the       *)
(* database are not broken for ever (SF of the steps that can fail).       *)
(***************************************************************************)
SiemFairSpec ==
    /\ SiemSpec
    /\ \A p \in Procs : WF_allVars((Advance(p) \/ Abort(p)) /\ UNCHANGED siemVars)
    /\ \A r \in Streamers :
          /\ WF_allVars(ReadCursor(r))
          /\ SF_allVars(ReadBatch(r))
          /\ SF_allVars(AdvanceCursor(r))
          /\ \A s \in 1 .. MaxSeq : SF_allVars(Send(r, s))

-----------------------------------------------------------------------------
(* Properties.                                                             *)

\* Type invariant of the streamer's state.
SiemTypeOK ==
    /\ cursor \in 0 .. MaxSeq
    /\ poll \in [Streamers -> [pc : {"idle", "cursorRead", "sending"}, last : 0 .. MaxSeq,
                               batch : SUBSET (1 .. MaxSeq), max : 0 .. MaxSeq]]
    /\ sent \subseteq 1 .. MaxSeq

\* No event is skipped: every row at or below the durable cursor was accepted by
\* the sink, across failed sends, restarts and overlapping streamers.  It rests
\* on rows becoming visible in seq order: poll never looks below the cursor
\* again, so a row that commits late with a lower seq would never be sent.
NoEventSkipped == \A s \in DOMAIN log : s <= cursor => s \in sent

\* Every committed audit row is streamed in the end, unless retention deletes
\* it first.
EventuallyStreamed ==
    \A s \in 1 .. MaxSeq : s \in DOMAIN log ~> s \in sent \/ s \notin DOMAIN log

-----------------------------------------------------------------------------
(* The inductive invariant behind NoEventSkipped.                          *)

\* Every row that can still commit has a seq above n (x: the transactions, k: the
\* next value of the sequence).
Below(n, x, k) == n \in Nat /\ n < k /\ \A p \in Procs : x[p].seq # 0 => n < x[p].seq

\* All rows of l up to n are in S.
Covered(n, S, l) == \A s \in DOMAIN l : s <= n => s \in S

\* A streamer's poll u: what it has passed or is about to pass is accounted for.
PollOK(u, x, k, l, accepted) ==
    /\ u.pc = "cursorRead" => Below(u.last, x, k) /\ Covered(u.last, accepted, l)
    /\ u.pc = "sending" => Below(u.max, x, k) /\ Covered(u.max, accepted \cup u.batch, l)

StreamInv ==
    /\ Below(cursor, tx, nextSeq) /\ Covered(cursor, sent, log)
    /\ poll \in [Streamers -> [pc : {"idle", "cursorRead", "sending"}, last : Nat,
                               batch : SUBSET Nat, max : Nat]]
    /\ \A r \in Streamers : PollOK(poll[r], tx, nextSeq, log, sent)

=============================================================================
