---------------------------- MODULE RequestGate ----------------------------
(* What stands between a request and its handler: the two rate limiters, the *)
(* two caches of the JWT check, and the organisation gate.  They share no    *)
(* state but the clock, so a behaviour exercises one of them, chosen at the  *)
(* start, and the others rest.                                               *)
EXTENDS RateLimiter, DisabledCache, JwksCache, OrgGate, TLC

VARIABLE gate

Gates == {"memory", "redis", "disabled", "jwks", "org"}

Init ==
  /\ gate \in Gates
  /\ ClockInit /\ LimiterInit /\ RedisInit /\ DisabledInit /\ JwksInit /\ OrgInit

vars == <<gate, now, limiterVars, redisVars, disabledVars, jwksVars, orgVars>>

Next ==
  /\ UNCHANGED gate
  /\ \/ /\ gate = "memory" /\ LimiterNext
        /\ UNCHANGED <<redisVars, disabledVars, jwksVars, orgVars>>
     \/ /\ gate = "redis" /\ RedisNext
        /\ UNCHANGED <<limiterVars, disabledVars, jwksVars, orgVars>>
     \/ /\ gate = "disabled" /\ DisabledNext
        /\ UNCHANGED <<limiterVars, redisVars, jwksVars, orgVars>>
     \/ /\ gate = "jwks" /\ JwksNext
        /\ UNCHANGED <<limiterVars, redisVars, disabledVars, orgVars>>
     \/ /\ gate = "org" /\ OrgNext
        /\ UNCHANGED <<now, limiterVars, redisVars, disabledVars, jwksVars>>

Spec == Init /\ [][Next]_vars

(* Clients, and people who are not super-admins, are only compared for       *)
(* equality.                                                                 *)
GateSymmetry == Permutations(Clients) \cup Permutations(People \ Supers)
=============================================================================
