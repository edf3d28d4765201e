--------------------------- MODULE DisabledCache ---------------------------
(* middleware/auth.go, isUserDisabled: the cache of users.disabled that      *)
(* Middleware consults for every JWT.  A miss queries Postgres without a     *)
(* lock and stores the answer later, so the answers of overlapping queries   *)
(* may be stored in any order; expired entries are reclaimed from a queue.   *)
EXTENDS Clock, FiniteSets, Sequences, SequencesExt

CONSTANTS Subjects, Checks, TTL, MaxQuery,
          Changing  \* the bound: the subjects whose flag changes

VARIABLES
  disabled,  \* users.disabled, per subject (no row reads as FALSE)
  cache,     \* disabledCache: subject -> {} or {[disabled, expiresAt]}
  queue,     \* disabledCacheOrder: [sub, expiresAt] records
  check,     \* request -> where isUserDisabled is, for whom, and what it read
  heldAt,    \* history: subject -> flag -> the last tick users.disabled had it
  lag        \* history: the oldest truth an answer was based on, in ticks

disabledVars == <<disabled, cache, queue, check, heldAt, lag>>

NoCheck == [pc |-> "idle"]

DisabledInit ==
  /\ disabled = [s \in Subjects |-> FALSE]
  /\ cache = [s \in Subjects |-> {}]
  /\ queue = <<>>
  /\ check = [c \in Checks |-> NoCheck]
  /\ heldAt = [s \in Subjects |-> [d \in BOOLEAN |-> 0]]
  /\ lag = 0

(* Offboard sets the flag; onboarding the person again clears it.            *)
SetDisabled(s) ==
  /\ disabled' = [disabled EXCEPT ![s] = ~@]
  /\ heldAt' = [heldAt EXCEPT ![s] = [d \in BOOLEAN |-> now]]
  /\ UNCHANGED <<cache, queue, check, lag>>

(* Middleware admits or refuses the request on the flag it was given.        *)
Answer(s, d) ==
  lag' = IF now - heldAt[s][d] > lag THEN now - heldAt[s][d] ELSE lag

(* Mutant: an expired entry answers once more.                               *)
HitExpired(c, s) ==
  /\ check[c] = NoCheck
  /\ \E e \in cache[s] : Answer(s, e.disabled)
  /\ UNCHANGED <<disabled, cache, queue, check, heldAt>>

(* disabledCacheGet finds an entry that has not expired.                     *)
Hit(c, s) ==
  /\ check[c] = NoCheck
  /\ \E e \in cache[s] : now <= e.expiresAt /\ Answer(s, e.disabled)
  /\ UNCHANGED <<disabled, cache, queue, check, heldAt>>

(* disabledCacheGet finds nothing, or drops what has expired; the query      *)
(* reads users.disabled and its answer is on the way.                        *)
Miss(c, s) ==
  /\ check[c] = NoCheck
  /\ \A e \in cache[s] : now > e.expiresAt
  /\ cache' = [cache EXCEPT ![s] = {}]
  /\ check' = [check EXCEPT ![c] = [pc |-> "query", sub |-> s]]
  /\ UNCHANGED <<disabled, queue, heldAt, lag>>

Query(c) ==
  /\ check[c].pc = "query"
  /\ check' = [check EXCEPT ![c] =
       [pc |-> "store", sub |-> @.sub, at |-> now, answer |-> disabled[@.sub]]]
  /\ UNCHANGED <<disabled, cache, queue, heldAt, lag>>

(* A failed lookup refuses the request and caches nothing.                   *)
QueryFails(c) ==
  /\ check[c].pc \in {"query", "store"}
  /\ check' = [check EXCEPT ![c] = NoCheck]
  /\ UNCHANGED <<disabled, cache, queue, heldAt, lag>>

(* sweepDisabledCacheLocked: the records at the head that have expired go,   *)
(* and with each its subject's entry unless that was refreshed since.        *)
Expired(q) ==
  LET fresh == {i \in DOMAIN q : now < q[i].expiresAt}
  IN IF fresh = {} THEN Len(q) ELSE (CHOOSE i \in fresh : \A j \in fresh : i <= j) - 1

Swept(ca, gone) ==
  [s \in Subjects |-> {e \in ca[s] :
     \A i \in DOMAIN gone : gone[i].sub = s => e.expiresAt > gone[i].expiresAt}]

(* disabledCacheSet, with its sweep; the answer is used as it was read.      *)
Store(c) ==
  /\ check[c].pc = "store"
  /\ LET s == check[c].sub
         expiresAt == now + TTL
         q == Append(queue, [sub |-> s, expiresAt |-> expiresAt])
         ca == [cache EXCEPT ![s] =
                  {[disabled |-> check[c].answer, expiresAt |-> expiresAt]}]
     IN /\ queue' = SubSeq(q, Expired(q) + 1, Len(q))
        /\ cache' = Swept(ca, SubSeq(q, 1, Expired(q)))
        /\ Answer(s, check[c].answer)
  /\ check' = [check EXCEPT ![c] = NoCheck]
  /\ UNCHANGED <<disabled, heldAt>>

(* Time passes; an answer is at most MaxQuery ticks on its way.              *)
DisabledTick ==
  /\ \A c \in Checks : check[c].pc = "store" => now < check[c].at + MaxQuery
  /\ ClockTick
  /\ heldAt' = [s \in Subjects |-> [heldAt[s] EXCEPT ![disabled[s]] = now']]
  /\ UNCHANGED <<disabled, cache, queue, check, lag>>

DisabledNext ==
  \/ DisabledTick
  \/ /\ UNCHANGED now
     /\ \/ \E s \in Changing : SetDisabled(s)
        \/ \E c \in Checks, s \in Subjects : Hit(c, s) \/ Miss(c, s)
        \/ \E c \in Checks : Query(c) \/ QueryFails(c) \/ Store(c)

(* A request is admitted (or refused) only on a flag that users.disabled     *)
(* really had at most a cache lifetime plus one query ago, even when a slow  *)
(* query overwrites the newer answer of a faster one.                        *)
StaleAtMost == lag <= TTL + MaxQuery

(* Nothing is leaked: every cached entry has a queue record with its own     *)
(* expiry, and the queue is in order of expiry, so the sweep reaches it.     *)
EveryEntryIsQueued ==
  /\ \A s \in Subjects : \A e \in cache[s] :
       \E i \in DOMAIN queue : queue[i] = [sub |-> s, expiresAt |-> e.expiresAt]
  /\ \A i, j \in DOMAIN queue : i < j => queue[i].expiresAt <= queue[j].expiresAt

(* The cache is bounded in what it may get wrong and in what it keeps        *)
(* (isUserDisabled).                                                         *)
CacheIsBounded == StaleAtMost /\ EveryEntryIsQueued
=============================================================================
