--------------------------- MODULE LeaderElection ---------------------------
(***************************************************************************)
(* Leader election for one background job (backend/internal/leader): every *)
(* replica runs an Elector loop that tries a session-level Postgres        *)
(* advisory lock on a dedicated connection, pings that connection while it *)
(* leads, and unlocks before it gives the connection back.  The job's      *)
(* ticker reads the isLeader flag once per tick and then runs the job.     *)
(*                                                                         *)
(* The two ends of a connection are kept apart: the server can end a       *)
(* session the client still believes in ("cut"), and a session the client  *)
(* has closed can linger on the server and keep its lock ("linger").       *)
(***************************************************************************)
EXTENDS Naturals, FiniteSets

CONSTANTS Replicas, Nobody

ASSUME LeaderAssumption == \A r \in Replicas, e \in {"conn", "linger"} : <<r, e>> # Nobody

VARIABLES
    lock,      \* the session that holds the advisory lock: <<r, "conn">> or <<r, "linger">>
    pc,        \* per replica: where its elector loop is
    conn,      \* Elector.conn: "none", "up", or "cut" by the server without notice
    isLeader,  \* Elector.isLeader, also the exported gauge
    job        \* the replica's ticker goroutine is inside the job body

vars == <<lock, pc, conn, isLeader, job>>

States == {"trying", "granted", "leading", "releasing", "stopping", "stopped"}

Init ==
    /\ lock = Nobody
    /\ pc = [r \in Replicas |-> "trying"]
    /\ conn = [r \in Replicas |-> "none"]
    /\ isLeader = [r \in Replicas |-> FALSE]
    /\ job = [r \in Replicas |-> FALSE]

Mine(r) == lock = <<r, "conn">>

\* What the lock becomes when the client closes r's connection: the server ends
\* the session at once, or only after a while.
Dropped(r) == IF Mine(r) THEN {Nobody, <<r, "linger">>} ELSE {lock}

\* Mutant: the blocking guard of pg_try_advisory_lock is ignored.
AcquireAnyway(r) ==
    /\ pc[r] = "trying"
    /\ lock' = <<r, "conn">>
    /\ conn' = [conn EXCEPT ![r] = "up"]
    /\ pc' = [pc EXCEPT ![r] = "granted"]
    /\ UNCHANGED <<isLeader, job>>

\* pg_try_advisory_lock is granted on a fresh connection.  (A refused attempt
\* releases the connection and changes nothing.)
tryAcquire(r) ==
    /\ pc[r] = "trying"
    /\ lock = Nobody
    /\ lock' = <<r, "conn">>
    /\ conn' = [conn EXCEPT ![r] = "up"]
    /\ pc' = [pc EXCEPT ![r] = "granted"]
    /\ UNCHANGED <<isLeader, job>>

\* The answer arrives: the elector keeps the connection and becomes leader.
BecomeLeader(r) ==
    /\ pc[r] = "granted"
    /\ isLeader' = [isLeader EXCEPT ![r] = TRUE]
    /\ pc' = [pc EXCEPT ![r] = "leading"]
    /\ UNCHANGED <<lock, conn, job>>

\* The answer is lost with the connection, which the pool destroys on Release.
GrantLost(r) ==
    /\ pc[r] = "granted"
    /\ lock' \in Dropped(r)
    /\ conn' = [conn EXCEPT ![r] = "none"]
    /\ pc' = [pc EXCEPT ![r] = "trying"]
    /\ UNCHANGED <<isLeader, job>>

\* The leader's Ping fails (always, on a connection the server has cut):
\* releaseIfLeader first clears the flag ...
PingFails(r) ==
    /\ pc[r] = "leading"
    /\ isLeader' = [isLeader EXCEPT ![r] = FALSE]
    /\ pc' = [pc EXCEPT ![r] = "releasing"]
    /\ UNCHANGED <<lock, conn, job>>

\* Mutant: Release without pg_advisory_unlock: the live session, lock included,
\* goes back to the pool.
ReleaseWithoutUnlock(r) ==
    /\ pc[r] \in {"releasing", "stopping"}
    /\ conn' = [conn EXCEPT ![r] = "none"]
    /\ pc' = [pc EXCEPT ![r] = IF @ = "stopping" THEN "stopped" ELSE "trying"]
    /\ UNCHANGED <<lock, isLeader, job>>

\* ... then pg_advisory_unlock runs, or fails and takes the connection with it;
\* a loop whose context is cancelled then returns.
Unlock(r) ==
    /\ pc[r] \in {"releasing", "stopping"}
    /\ lock' \in Dropped(r)
    /\ conn' = [conn EXCEPT ![r] = "none"]
    /\ pc' = [pc EXCEPT ![r] = IF @ = "stopping" THEN "stopped" ELSE "trying"]
    /\ UNCHANGED <<isLeader, job>>

\* Shutdown: the lifecycle context is cancelled and the loop notices while it
\* sleeps; a leader releases, anyone else just returns.
Stop(r) ==
    /\ pc[r] \in {"trying", "leading"}
    /\ isLeader' = [isLeader EXCEPT ![r] = FALSE]
    /\ pc' = [pc EXCEPT ![r] = IF @ = "leading" THEN "stopping" ELSE "stopped"]
    /\ UNCHANGED <<lock, conn, job>>

\* The ticker fires on a replica whose flag is set: the gate is read once.
JobStart(r) ==
    /\ isLeader[r] /\ ~job[r]
    /\ job' = [job EXCEPT ![r] = TRUE]
    /\ UNCHANGED <<lock, pc, conn, isLeader>>

JobEnd(r) ==
    /\ job[r]
    /\ job' = [job EXCEPT ![r] = FALSE]
    /\ UNCHANGED <<lock, pc, conn, isLeader>>

\* The process dies and is restarted by its supervisor.
Crash(r) ==
    /\ pc[r] # "stopped"
    /\ lock' \in Dropped(r)
    /\ conn' = [conn EXCEPT ![r] = "none"]
    /\ pc' = [pc EXCEPT ![r] = "trying"]
    /\ isLeader' = [isLeader EXCEPT ![r] = FALSE]
    /\ job' = [job EXCEPT ![r] = FALSE]

\* The server ends the session behind an open connection (failover,
\* pg_terminate_backend, a lost network path): the lock is free at once, the
\* client learns of it with its next Ping or query.
ServerCuts(r) ==
    /\ conn[r] = "up"
    /\ conn' = [conn EXCEPT ![r] = "cut"]
    /\ lock' = IF Mine(r) THEN Nobody ELSE lock
    /\ UNCHANGED <<pc, isLeader, job>>

\* The server notices that a client is gone.
SessionEnds(r) ==
    /\ lock = <<r, "linger">>
    /\ lock' = Nobody
    /\ UNCHANGED <<pc, conn, isLeader, job>>

Elector(r) == tryAcquire(r) \/ BecomeLeader(r) \/ GrantLost(r) \/ PingFails(r) \/ Unlock(r) \/ Stop(r)

Environment(r) == JobStart(r) \/ JobEnd(r) \/ Crash(r) \/ ServerCuts(r) \/ SessionEnds(r)

Next == \E r \in Replicas : Elector(r) \/ Environment(r)

Spec == Init /\ [][Next]_vars

-----------------------------------------------------------------------------
(* Properties.                                                             *)

\* Type invariant; Elector.conn is "non-nil while leader".
TypeOK ==
    /\ lock \in {Nobody} \cup (Replicas \X {"conn", "linger"})
    /\ pc \in [Replicas -> States]
    /\ conn \in [Replicas -> {"none", "up", "cut"}]
    /\ isLeader \in [Replicas -> BOOLEAN]
    /\ job \in [Replicas -> BOOLEAN]
    /\ \A r \in Replicas : isLeader[r] => conn[r] # "none"

\* A replica that believes it leads, over a connection the server still honours,
\* leads alone: no second replica is in that position.
OneHealthyLeader ==
    \A r, s \in Replicas :
        isLeader[r] /\ isLeader[s] /\ conn[r] = "up" /\ conn[s] = "up" => r = s

\* No lock is stranded: while an open session holds it, its replica's loop knows
\* (it is leading, about to, or about to unlock), so no live pooled connection
\* shuts every replica out (the comment on releaseIfLeader).
NoStrandedLock ==
    \A r \in Replicas : Mine(r) => pc[r] \in {"granted", "leading", "releasing", "stopping"}

\* A job pass starts only on the replica whose session holds the lock, or on a
\* former leader that cannot know yet, its connection cut by the server: clearing
\* the flag before the unlock leaves no other window.
JobStartsOnHolder ==
    [][\A r \in Replicas : ~job[r] /\ job'[r] => Mine(r) \/ conn[r] = "cut"]_vars

\* While some replica has not been shut down, there is a leader again and again,
\* whatever crashes, cuts and lost answers happen in between.
LeaderRecurs ==
    []<>((\E r \in Replicas : isLeader[r]) \/ \A r \in Replicas : pc[r] = "stopped")

\* "background jobs ... run on exactly one backend replica at a time"
\* (leader.go:1-3): no two replicas are inside the job body together.
JobExclusive == \A r, s \in Replicas : job[r] /\ job[s] => r = s

-----------------------------------------------------------------------------
(* The inductive invariant: an open connection the loop keeps is exactly   *)
(* the session that holds the lock, and the flag is set only while leading.*)

ReplicaOK(l, p, c, f, r) ==
    /\ l = <<r, "conn">> <=> c[r] = "up"
    /\ c[r] = "none" <=> p[r] \in {"trying", "stopped"}
    /\ f[r] => p[r] = "leading"

LeaderInv == \A r \in Replicas : ReplicaOK(lock, pc, conn, isLeader, r)

=============================================================================
