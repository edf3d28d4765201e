--------------------------- MODULE MCDeployment ----------------------------
(* Deployment for TLC.  No symmetry: liveness is checked in the same run.  *)
EXTENDS Deployment

MCComponents == <<"length", "digits">>
MCWishes == {[length |-> 8, digits |-> 0], [length |-> 0, digits |-> 2]}

=============================================================================
