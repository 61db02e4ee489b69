--------------------------- MODULE EntityRegister --------------------------
(***************************************************************************)
(* What a value entity promises to whoever reads its persisted state:      *)
(* every command is decided at most once, only a successful command        *)
(* changes the state, and it does so together with its answer.             *)
(***************************************************************************)
EXTENDS Naturals

CONSTANTS Commands,   (* the ids of the commands                            *)
          Stored      (* the persisted states, one of them for "no state"   *)

VARIABLES durable,    (* the persisted state                                *)
          outcome     (* what the client of each command was told           *)

rvars == <<durable, outcome>>

RInit ==
  /\ durable \in Stored
  /\ outcome = [c \in Commands |-> "pending"]

Execute(c) ==
  /\ outcome[c] = "pending"
  /\ outcome' = [outcome EXCEPT ![c] = "replied"]
  /\ durable' \in Stored

Reject(c) ==
  /\ outcome[c] = "pending"
  /\ outcome' = [outcome EXCEPT ![c] = "failed"]
  /\ UNCHANGED durable

RNext == \E c \in Commands : Execute(c) \/ Reject(c)

RSpec == RInit /\ [][RNext]_rvars
============================================================================
