---------------------------- MODULE MCGeneration ----------------------------
(* Generation with small sets; the trips of a run are interchangeable in every  *)
(* run that checks no liveness.                                                 *)
EXTENDS Generation, TLC

TripSymmetry == Permutations(Trips)
=============================================================================
