---------------------------- MODULE MCSiemStream ----------------------------
(***************************************************************************)
(* SiemStream for TLC.                                                     *)
(***************************************************************************)
EXTENDS SiemStream, TLC

\* Writers are interchangeable, and so are the replicas' streamers.
StreamSymmetry == Permutations(Writers) \cup Permutations(Streamers)

=============================================================================
