---------------------------- MODULE DataExercises ---------------------------
(***************************************************************************)
(* The replicated data types, worked with in two ways: by any calls of     *)
(* their mutators (DeltaExchange), and by the requests to the entity of    *)
(* the compatibility kit (TckReplicatedEntity).  The two share no state;   *)
(* a behaviour is of one of them and the other stays as it is.             *)
(***************************************************************************)
EXTENDS DeltaExchange, TckReplicatedEntity

CONSTANT Exercises    (* the ways that are taken                            *)

VARIABLE exercise

ExercisesInit ==
  /\ exercise \in Exercises
  /\ Init /\ (exercise # "exchange" => kind = "counter")
  /\ TckDataInit /\ (exercise # "requests" => type = "counter")

ExercisesNext ==
  /\ \/ exercise = "exchange" /\ Next /\ UNCHANGED dataVars
     \/ exercise = "requests" /\ TckDataNext /\ UNCHANGED vars
  /\ UNCHANGED exercise

ExercisesSpec == ExercisesInit /\ [][ExercisesNext]_<<exercise, vars, dataVars>>

(* Every variable keeps its type, whichever type of data it is about.      *)
ExercisesTypeOK ==
  /\ exercise \in Exercises
  /\ TypeOK /\ TckDataTypeOK
=============================================================================
