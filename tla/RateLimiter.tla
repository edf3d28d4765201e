---------------------------- MODULE RateLimiter ----------------------------
(* The two rate limiters.                                                    *)
(*                                                                           *)
(* middleware/ratelimit.go: the sliding-window limiter a replica keeps in    *)
(* memory.  allow() has two critical sections: under rl.mu it finds or       *)
(* creates the client's entry, evicting the oldest keys at the cap; under    *)
(* entry.mu it drops old timestamps and decides.  Between the two, the       *)
(* entry may leave the map (eviction, GC) while the call still holds it, so  *)
(* entries are objects with an identity of their own.                        *)
EXTENDS Clock, FiniteSets, FiniteSetsExt, Sequences, SequencesExt

CONSTANTS Clients, Calls, Limit, Window, MaxEntries,
          LimiterTime  \* the bound on the run

ASSUME LimiterAssumption ==
  /\ Limit \in Nat \ {0} /\ Window \in Nat \ {0} /\ MaxEntries \in Nat \ {0}

(* Entry objects: a client has the one in the map, and every call may hold   *)
(* one that has left it.                                                     *)
Entries == Clients \X (0..Cardinality(Calls))

VARIABLES
  entries,   \* rl.entries: client -> the set holding its entry, or {}
  order,     \* rl.order
  times,     \* entry object -> its timestamps, oldest first
  call,      \* call -> {} or the <<client, entry>> it fetched under rl.mu
  admitted,  \* history: client that is not in forgot -> the ticks of the
             \* requests let through that are inside the window
  forgot     \* history: clients whose entry was dropped while it still counted

limiterVars == <<entries, order, times, call, admitted, forgot>>

LimiterInit ==
  /\ entries = [k \in Clients |-> {}]
  /\ order = <<>>
  /\ times = [e \in Entries |-> <<>>]
  /\ call = [c \in Calls |-> {}]
  /\ admitted = [k \in Clients |-> <<>>]
  /\ forgot = {}

Tracked == {k \in Clients : entries[k] # {}}

Held == {p[2] : p \in UNION {call[c] : c \in Calls}}

(* An entry still counts when a call is about to use it or when it has a     *)
(* timestamp inside the window.                                              *)
StillCounts(e) ==
  e \in Held \/ \E i \in DOMAIN times[e] : times[e][i] + Window > now

Forgets(keys) == {k \in keys : \E e \in entries[k] : StillCounts(e)}

Forget(keys) ==
  /\ forgot' = forgot \cup keys
  /\ admitted' = [k \in Clients |-> IF k \in forgot' THEN <<>> ELSE admitted[k]]

Drop(keys) == [k \in Clients |-> IF k \in keys THEN {} ELSE entries[k]]

(* entries that leave the map and that no call holds are garbage             *)
Collected(keys) ==
  [e \in Entries |-> IF e[1] \in keys /\ e \in entries[e[1]] \ Held
                     THEN <<>> ELSE times[e]]

(* how far into rl.order evictOldestLocked reads to make room for one entry  *)
EvictTo ==
  LET excess == Cardinality(Tracked) - MaxEntries + 1
      enough == {p \in 0..Len(order) :
                   Cardinality(Tracked \cap Range(SubSeq(order, 1, p))) >= excess}
  IN IF enough = {} THEN Len(order) ELSE Min(enough)

(* allow, first critical section: a known client's entry is fetched.         *)
Find(c, k) ==
  /\ call[c] = {} /\ k \in Tracked
  /\ call' = [call EXCEPT ![c] = {k} \X entries[k]]
  /\ UNCHANGED <<entries, order, times, admitted, forgot>>

(* allow, first critical section: an unknown client evicts the oldest keys   *)
(* until there is room, and gets an empty entry.                             *)
Create(c, k) ==
  /\ call[c] = {} /\ k \notin Tracked
  /\ LET evicted == Tracked \cap Range(SubSeq(order, 1, EvictTo))
         fresh == <<k, Min({g \in 0..Cardinality(Calls) : <<k, g>> \notin Held})>>
     IN /\ entries' = [Drop(evicted) EXCEPT ![k] = {fresh}]
        /\ order' = Append(SubSeq(order, EvictTo + 1, Len(order)), k)
        /\ times' = [Collected(evicted) EXCEPT ![fresh] = <<>>]
        /\ call' = [call EXCEPT ![c] = {<<k, fresh>>}]
        /\ Forget(Forgets(evicted))

(* The entries nobody can reach once call c is over; what they hold is       *)
(* forgotten.                                                                *)
Unreachable(c) ==
  Entries \ UNION ({entries[k] : k \in Clients}
                    \cup {{p[2] : p \in call[d]} : d \in Calls \ {c}})

(* allow, second critical section.                                           *)
Decide(c) ==
  /\ \E p \in call[c] :
       LET kept == SelectSeq(times[p[2]], LAMBDA t : t + Window > now)
           ok == Len(kept) < Limit
       IN /\ times' = [times EXCEPT ![p[2]] =
                         IF p[2] \in Unreachable(c) THEN <<>>
                         ELSE IF ok THEN Append(kept, now) ELSE kept]
          /\ admitted' = [admitted EXCEPT ![p[1]] =
                            IF ok /\ p[1] \notin forgot THEN Append(@, now) ELSE @]
  /\ call' = [call EXCEPT ![c] = {}]
  /\ UNCHANGED <<entries, order, forgot>>

(* gc: an entry with no timestamp in the window leaves the map, and the      *)
(* order keeps only the keys that are still tracked.                         *)
GCIdle(e) == times[e] = <<>> \/ Last(times[e]) + Window <= now

(* Mutant: the GC looks at the oldest timestamp.                             *)
GCByOldest ==
  LET idle == {k \in Tracked : \A e \in entries[k] :
                 times[e] = <<>> \/ Head(times[e]) + Window <= now}
  IN /\ idle # {}
     /\ entries' = Drop(idle)
     /\ order' = SelectSeq(order, LAMBDA k : k \in Tracked \ idle)
     /\ Forget({k \in idle : entries[k] \cap Held # {}})
     /\ times' = Collected(idle)
     /\ UNCHANGED call

GC ==
  LET idle == {k \in Tracked : \A e \in entries[k] : GCIdle(e)}
  IN /\ idle # {}
     /\ entries' = Drop(idle)
     /\ order' = SelectSeq(order, LAMBDA k : k \in Tracked \ idle)
     /\ Forget({k \in idle : entries[k] \cap Held # {}})
     /\ times' = Collected(idle)
     /\ UNCHANGED call

LimiterTick ==
  /\ now < LimiterTime /\ ClockTick
  /\ admitted' = [k \in Clients |->
                    SelectSeq(admitted[k], LAMBDA t : t + Window > now')]
  /\ UNCHANGED <<entries, order, times, call, forgot>>

LimiterNext ==
  \/ LimiterTick
  \/ UNCHANGED now /\ \/ \E c \in Calls, k \in Clients : Find(c, k) \/ Create(c, k)
                      \/ \E c \in Calls : Decide(c)
                      \/ GC

(* The map never holds more than the cap, and rl.order lists exactly the     *)
(* tracked keys, each once: eviction can always make room, and neither       *)
(* structure can outgrow the other through any mix of evictions, sweeps and  *)
(* returning clients.                                                        *)
OrderTracksEntries ==
  /\ Cardinality(Tracked) <= MaxEntries
  /\ Range(order) = Tracked
  /\ Len(order) = Cardinality(Tracked)

(* In every window of Window ticks at most Limit requests of a client pass,  *)
(* unless the client's entry was dropped while it still counted: the sweep   *)
(* of idle entries by itself never gives a client a second budget.           *)
WindowLimit ==
  \A k \in Clients \ forgot : Len(admitted[k]) <= Limit

(* The limiter in memory keeps its budget and its bound on memory (allow,    *)
(* evictOldestLocked, gc).                                                   *)
MemoryLimiterHolds == WindowLimit /\ OrderTracksEntries

-----------------------------------------------------------------------------
(* middleware/ratelimit_redis.go: the fixed-window limiter all replicas      *)
(* share.  The script increments the client's counter and arms its expiry    *)
(* when it has none; Redis runs it without interleaving other commands.  A   *)
(* call may fail before the script ran, after it ran (the answer is lost or  *)
(* late), or with PEXPIRE failing after INCR; every failure is answered 429. *)

CONSTANTS RedisLimit, RedisWindow

NoTTL == MaxTime + RedisWindow + 1

VARIABLES
  counter,  \* the client's key: its value (0: no key), its expiry, and whether
            \* the expiry was armed with the first increment
  counted,  \* history: tick -> increments of the key
  passed,   \* history: tick -> requests let through
  earned    \* history: every refusal by count followed Limit counted requests

redisVars == <<counter, counted, passed, earned>>

NoCounter == [n |-> 0, expires |-> NoTTL, whole |-> TRUE]

RedisInit ==
  /\ counter = NoCounter
  /\ counted = [t \in Times |-> 0]
  /\ passed = [t \in Times |-> 0]
  /\ earned = TRUE

(* PTTL < 0: only a key without an expiry gets one.                          *)
Arm(expires) == IF expires = NoTTL THEN now + RedisWindow ELSE expires

CountedInWindow ==
  MapThenSumSet(LAMBDA t : counted[t], WindowEnding(now, RedisWindow))

Incremented(expires) ==
  [n |-> counter.n + 1, expires |-> expires,
   whole |-> counter.whole /\ expires # NoTTL]

(* Mutant: the count before the increment is compared.                       *)
AllowOneMore ==
  LET ok == counter.n <= RedisLimit
  IN /\ counter' = Incremented(Arm(counter.expires))
     /\ counted' = [counted EXCEPT ![now] = @ + 1]
     /\ passed' = [passed EXCEPT ![now] = IF ok THEN @ + 1 ELSE @]
     /\ UNCHANGED earned

(* The script ran and its answer arrived.                                    *)
Allow ==
  LET ok == counter.n + 1 <= RedisLimit
  IN /\ counter' = Incremented(Arm(counter.expires))
     /\ counted' = [counted EXCEPT ![now] = @ + 1]
     /\ passed' = [passed EXCEPT ![now] = IF ok THEN @ + 1 ELSE @]
     /\ earned' = (earned /\ (ok \/ ~counter.whole \/ CountedInWindow >= RedisLimit))

(* The script ran, or stopped between INCR and PEXPIRE, and the caller got   *)
(* an error: the request is refused although it was counted.                 *)
AllowFails ==
  /\ counter' \in {Incremented(Arm(counter.expires)), Incremented(counter.expires)}
  /\ counted' = [counted EXCEPT ![now] = @ + 1]
  /\ UNCHANGED <<passed, earned>>

(* Time passes; Redis drops the key when its expiry is reached.  A key left  *)
(* without one by a failed PEXPIRE stays until the next request.             *)
RedisTick ==
  /\ ClockTick
  /\ counter' = IF counter.expires <= now' THEN NoCounter ELSE counter
  /\ UNCHANGED <<counted, passed, earned>>

(* the bound on the requests of one tick                                     *)
MaxPerTick == RedisLimit + 1

RedisNext ==
  \/ RedisTick
  \/ counted[now] < MaxPerTick /\ UNCHANGED now /\ (Allow \/ AllowFails)

(* A burst across a window boundary lets through at most twice the limit:    *)
(* no window of RedisWindow ticks, wherever it starts, sees more.            *)
TwiceTheLimit ==
  \A t \in Times :
    MapThenSumSet(LAMBDA s : passed[s], WindowEnding(t, RedisWindow))
      <= 2 * RedisLimit

(* No client stays blocked by requests of long ago: a refusal by count comes *)
(* only after RedisLimit requests counted within the last window, unless     *)
(* PEXPIRE failed on the first of them.                                      *)
RefusalIsEarned == earned

(* The limiter in Redis neither lets more through than a fixed window can    *)
(* nor refuses without cause (incrWithExpiryScript, allow).                  *)
RedisLimiterHolds == TwiceTheLimit /\ RefusalIsEarned
=============================================================================
