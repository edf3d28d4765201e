----------------------------- MODULE MCEndpoints -----------------------------
(* Two of everything that can race; three generations of recovery codes, so  *)
(* that two can overlap over a third; a day of three ticks, so that a window *)
(* can wrap midnight.                                                        *)
EXTENDS Endpoints, TLC

CONSTANTS a1, a2, o1, o2

MCAdminOrg == (a1 :> o1) @@ (a2 :> o2)
MCPolicies == {[window |-> <<2, 1>>, restricted |-> FALSE],
               [window |-> <<1, 1>>, restricted |-> TRUE],
               [window |-> <<0, 2>>, restricted |-> TRUE]}
MCBodies == {<<>>, <<FALSE, TRUE>>, <<TRUE>>}

HostSymmetry == Permutations(Hosts)
==============================================================================
