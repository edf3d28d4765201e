----------------------------- MODULE JwksCache -----------------------------
(* middleware/auth.go, keyForToken and refreshJWKS: the cache of the realm's *)
(* signing keys.  A token whose key is unknown, or any token once the cache  *)
(* is older than its lifetime, makes the caller join the one fetch in flight *)
(* (singleflight); a fetch starts at most once per interval, and a caller    *)
(* inside the interval goes on with the keys there are.                      *)
EXTENDS Clock, Integers, FiniteSets

CONSTANTS Kids, FirstKid, Bearers, KeysTTL, MinInterval, MaxFetch

Never == -1

VARIABLES
  realm,        \* kid -> "unborn", "published" or "dropped" at Keycloak
  keys,         \* keysByKid
  lastFetch, lastAttempt,
  flight,       \* {} or {[at, read]}: the fetch in flight and what it has read
  bearer,       \* request -> {} or {[pc, kid]}
  served,       \* history: kid -> the last tick the realm published it
  published,    \* history: kid -> the tick it was published
  calm,         \* history: no fetch failed since the last success
  oldest,       \* history: how long ago a key that was used had been dropped
  slowest       \* history: how long a published key had been when refused

jwksVars == <<realm, keys, lastFetch, lastAttempt, flight, bearer, served,
              published, calm, oldest, slowest>>

JwksInit ==
  /\ realm = [k \in Kids |-> IF k = FirstKid THEN "published" ELSE "unborn"]
  /\ keys = {} /\ lastFetch = Never /\ lastAttempt = Never
  /\ flight = {} /\ bearer = [b \in Bearers |-> {}]
  /\ served = [k \in Kids |-> 0] /\ published = [k \in Kids |-> 0]
  /\ calm = TRUE /\ oldest = 0 /\ slowest = 0

Published == {k \in Kids : realm[k] = "published"}

(* Keycloak rotates its keys: one is added, one that is not the last goes.   *)
Rotate(k) ==
  /\ \/ realm[k] = "unborn" /\ realm' = [realm EXCEPT ![k] = "published"]
     \/ Published \ {k} # {} /\ k \in Published
        /\ realm' = [realm EXCEPT ![k] = "dropped"]
  /\ served' = [served EXCEPT ![k] = now]
  /\ published' = IF realm[k] = "unborn" THEN [published EXCEPT ![k] = now]
                  ELSE published
  /\ UNCHANGED <<keys, lastFetch, lastAttempt, flight, bearer, calm, oldest, slowest>>

Fresh == lastFetch # Never /\ now - lastFetch < KeysTTL /\ keys # {}

Larger(a, b) == IF a > b THEN a ELSE b

(* Middleware verifies the signature with the cached keys: the token passes  *)
(* exactly when the key that signed it is among them.                        *)
Verify(k) ==
  /\ oldest' = IF k \in keys /\ calm THEN Larger(now - served[k], oldest) ELSE oldest
  /\ slowest' = IF k \notin keys /\ calm /\ k \in Published
                THEN Larger(now - published[k], slowest) ELSE slowest

(* keyForToken finds the token's kid in a fresh cache.                       *)
Known(b, k) ==
  /\ bearer[b] = {} /\ Fresh /\ k \in keys /\ Verify(k)
  /\ UNCHANGED <<realm, keys, lastFetch, lastAttempt, flight, bearer, served,
                 published, calm>>

(* A token without a kid tries every key of a fresh cache and fetches none.  *)
WithoutKid(b, k) ==
  /\ bearer[b] = {} /\ Fresh
  /\ oldest' = IF k \in keys /\ calm THEN Larger(now - served[k], oldest) ELSE oldest
  /\ UNCHANGED <<realm, keys, lastFetch, lastAttempt, flight, bearer, served,
                 published, calm, slowest>>

(* Mutant: an unknown kid is refused while the cache is fresh.               *)
NeedsFetchStale(k) == ~Fresh

(* a kid the cache does not know, or a cache past its lifetime               *)
NeedsFetch(k) == ~Fresh \/ k \notin keys

Limited == lastAttempt # Never /\ now - lastAttempt < MinInterval

(* refreshJWKSRateLimited lets nobody fetch twice in an interval: the caller *)
(* goes on with the keys there are.                                          *)
InInterval(b, k) ==
  /\ bearer[b] = {} /\ ~(Fresh /\ k \in keys)
  /\ NeedsFetch(k) => flight = {} /\ Limited
  /\ Verify(k)
  /\ UNCHANGED <<realm, keys, lastFetch, lastAttempt, flight, bearer, served,
                 published, calm>>

(* The first caller of an interval starts the fetch, the next ones join it.  *)
Fetch(b, k) ==
  /\ bearer[b] = {} /\ NeedsFetch(k)
  /\ \/ flight # {} /\ UNCHANGED <<flight, lastAttempt>>
     \/ /\ flight = {} /\ ~Limited
        /\ lastAttempt' = now /\ flight' = {[at |-> now, read |-> {}]}
  /\ bearer' = [bearer EXCEPT ![b] = {[pc |-> "wait", kid |-> k]}]
  /\ UNCHANGED <<realm, keys, lastFetch, served, published, calm, oldest, slowest>>

(* Keycloak answers with the keys it publishes at that moment ...            *)
FetchReads ==
  /\ \E f \in flight : f.read = {} /\ flight' = {[f EXCEPT !.read = Published]}
  /\ UNCHANGED <<realm, keys, lastFetch, lastAttempt, bearer, served, published,
                 calm, oldest, slowest>>

(* ... and refreshJWKS swaps them in; everyone in the flight looks again.    *)
FetchLands ==
  /\ \E f \in flight : f.read # {} /\ keys' = f.read
  /\ lastFetch' = now /\ flight' = {} /\ calm' = TRUE
  /\ bearer' = [b \in Bearers |-> {[w EXCEPT !.pc = "look"] : w \in bearer[b]}]
  /\ UNCHANGED <<realm, lastAttempt, served, published, oldest, slowest>>

(* A failed fetch refuses everyone who waited for it.                        *)
FetchFails ==
  /\ flight # {} /\ flight' = {} /\ calm' = FALSE
  /\ bearer' = [b \in Bearers |-> {w \in bearer[b] : w.pc = "look"}]
  /\ UNCHANGED <<realm, keys, lastFetch, lastAttempt, served, published, oldest,
                 slowest>>

LookAgain(b) ==
  /\ \E w \in bearer[b] : w.pc = "look" /\ Verify(w.kid)
  /\ bearer' = [bearer EXCEPT ![b] = {}]
  /\ UNCHANGED <<realm, keys, lastFetch, lastAttempt, flight, served, published, calm>>

(* Time passes; a fetch lasts at most MaxFetch ticks (the client's timeout)  *)
(* and nobody pauses between two lines of code for a tick.                   *)
JwksTick ==
  /\ \A f \in flight : now < f.at + MaxFetch
  /\ \A b \in Bearers : \A w \in bearer[b] : w.pc # "look"
  /\ ClockTick
  /\ served' = [k \in Kids |-> IF k \in Published THEN now' ELSE served[k]]
  /\ UNCHANGED <<realm, keys, lastFetch, lastAttempt, flight, bearer, published,
                 calm, oldest, slowest>>

JwksNext ==
  \/ JwksTick
  \/ /\ UNCHANGED now
     /\ \/ \E k \in Kids : Rotate(k)
        \/ \E b \in Bearers, k \in Kids :
             Known(b, k) \/ WithoutKid(b, k) \/ InInterval(b, k) \/ Fetch(b, k)
        \/ FetchReads \/ FetchLands \/ FetchFails
        \/ \E b \in Bearers : LookAgain(b)

(* While fetches succeed, a key the realm has dropped is used for less than  *)
(* the cache lifetime plus one fetch, whoever triggers the refresh.          *)
DroppedKeyExpires == oldest < KeysTTL + MaxFetch

(* While fetches succeed, a token signed with a new key is refused only in   *)
(* the rest of the interval of the fetch that missed the key, or by a fetch  *)
(* that was already under way.                                               *)
NewKeyIsFound == slowest < MinInterval \/ slowest <= MaxFetch

(* The cached keys follow the realm's in both directions (keyForToken,       *)
(* refreshJWKS).                                                             *)
KeysFollowRealm == DroppedKeyExpires /\ NewKeyIsFound
=============================================================================
