------------------------ MODULE LeaderElectionProofs ------------------------
(***************************************************************************)
(* Proofs about LeaderElection, for any set of replicas.                   *)
(***************************************************************************)
EXTENDS LeaderElection, TLAPS

Inv == TypeOK /\ LeaderInv

\* Init establishes the invariant.
LEMMA LeaderInit == Init => Inv
  BY LeaderAssumption DEF Init, Inv, TypeOK, LeaderInv, ReplicaOK, States

\* Every step of the elector loop keeps it: only tryAcquire gives the lock to an
\* open session, and only from a free lock.
LEMMA ElectorStep ==
    ASSUME Inv, NEW r \in Replicas, Elector(r)
    PROVE  Inv'
  <1> USE LeaderAssumption DEF Inv, TypeOK, LeaderInv, ReplicaOK, States, Mine, Dropped
  <1>1. CASE tryAcquire(r)
    BY <1>1 DEF tryAcquire
  <1>2. CASE BecomeLeader(r)
    BY <1>2 DEF BecomeLeader
  <1>3. CASE GrantLost(r)
    BY <1>3 DEF GrantLost
  <1>4. CASE PingFails(r)
    BY <1>4 DEF PingFails
  <1>5. CASE Unlock(r)
    BY <1>5 DEF Unlock
  <1>6. CASE Stop(r)
    BY <1>6 DEF Stop
  <1> QED
    BY <1>1, <1>2, <1>3, <1>4, <1>5, <1>6 DEF Elector

\* So does every step of the job, the process and the server.
LEMMA EnvironmentStep ==
    ASSUME Inv, NEW r \in Replicas, Environment(r)
    PROVE  Inv'
  <1> USE LeaderAssumption DEF Inv, TypeOK, LeaderInv, ReplicaOK, States, Mine, Dropped
  <1>1. CASE JobStart(r)
    BY <1>1 DEF JobStart
  <1>2. CASE JobEnd(r)
    BY <1>2 DEF JobEnd
  <1>3. CASE Crash(r)
    BY <1>3 DEF Crash
  <1>4. CASE ServerCuts(r)
    BY <1>4 DEF ServerCuts
  <1>5. CASE SessionEnds(r)
    BY <1>5 DEF SessionEnds
  <1> QED
    BY <1>1, <1>2, <1>3, <1>4, <1>5 DEF Environment

LEMMA InvStep == Inv /\ [Next]_vars => Inv'
  <1> SUFFICES ASSUME Inv, [Next]_vars PROVE Inv'
    OBVIOUS
  <1>1. CASE UNCHANGED vars
    BY <1>1 DEF Inv, TypeOK, LeaderInv, ReplicaOK, vars
  <1>2. ASSUME NEW r \in Replicas, Elector(r) PROVE Inv'
    BY <1>2, ElectorStep
  <1>3. ASSUME NEW r \in Replicas, Environment(r) PROVE Inv'
    BY <1>3, EnvironmentStep
  <1> QED
    BY <1>1, <1>2, <1>3 DEF Next

LEMMA InvHolds == Spec => []Inv
  <1> QED
    BY LeaderInit, InvStep, PTL DEF Spec

\* The elector's state keeps its types, and a leader always has a connection.
THEOREM TypeCorrect == Spec => []TypeOK
  <1>1. Inv => TypeOK
    BY DEF Inv
  <1> QED
    BY <1>1, InvHolds, PTL

\* Two replicas never lead at once over connections the server honours.
THEOREM HealthyLeaderIsUnique == Spec => []OneHealthyLeader
  <1>1. Inv => OneHealthyLeader
    BY DEF Inv, TypeOK, LeaderInv, ReplicaOK, OneHealthyLeader
  <1> QED
    BY <1>1, InvHolds, PTL

\* An open session that holds the lock belongs to a loop that will use or
\* release it.
THEOREM LockIsNeverStranded == Spec => []NoStrandedLock
  <1>1. Inv => NoStrandedLock
    BY DEF Inv, TypeOK, LeaderInv, ReplicaOK, NoStrandedLock, Mine, States
  <1> QED
    BY <1>1, InvHolds, PTL

\* A job pass starts on the lock's holder or behind a cut connection.
THEOREM JobsStartOnHolder == Spec => JobStartsOnHolder
  <1> DEFINE Starts == \A r \in Replicas : ~job[r] /\ job'[r] => Mine(r) \/ conn[r] = "cut"
  <1>1. ASSUME Inv, NEW r \in Replicas, Elector(r) PROVE UNCHANGED job
    BY <1>1 DEF Elector, tryAcquire, BecomeLeader, GrantLost, PingFails, Unlock, Stop
  <1>2. ASSUME Inv, NEW r \in Replicas, Environment(r) PROVE Starts
    <2>1. CASE JobStart(r)
      BY <1>2, <2>1 DEF JobStart, Inv, TypeOK, LeaderInv, ReplicaOK, Mine
    <2>2. CASE JobEnd(r) \/ Crash(r) \/ ServerCuts(r) \/ SessionEnds(r)
      BY <1>2, <2>2 DEF JobEnd, Crash, ServerCuts, SessionEnds, Inv, TypeOK
    <2> QED
      BY <1>2, <2>1, <2>2 DEF Environment
  <1>3. Inv /\ [Next]_vars => [Starts]_vars
    BY <1>1, <1>2 DEF Next
  <1> QED
    BY <1>3, InvHolds, PTL DEF Spec, JobStartsOnHolder

=============================================================================
