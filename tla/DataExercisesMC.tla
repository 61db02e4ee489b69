-------------------------- MODULE DataExercisesMC --------------------------
(***************************************************************************)
(* A small instance of DataExercises.                                      *)
(***************************************************************************)
EXTENDS DataExercises

MCChanges == {-1, 0, 1}
=============================================================================
