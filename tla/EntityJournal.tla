--------------------------- MODULE EntityJournal ---------------------------
(***************************************************************************)
(* What an event sourced entity promises to whoever reads its journal:     *)
(* every command is decided at most once, a successful command appends the *)
(* whole sequence of events it emitted in one step, and a failed command   *)
(* leaves no trace.                                                        *)
(***************************************************************************)
EXTENDS Naturals, Sequences

CONSTANTS Commands,   (* the ids of the commands                          *)
          MaxBatch    (* how many events one command may emit             *)

VARIABLES journal,    (* the persisted events, oldest first               *)
          outcome     (* what the client of each command was told         *)

jvars == <<journal, outcome>>

(* An event is known by the command that emitted it and its position among *)
(* that command's events; ok says whether the entity can apply it.         *)
Event == [cmd : Commands, n : 1 .. MaxBatch, ok : BOOLEAN]

Outcomes == {"pending", "replied", "failed"}

(* The sequences of events that command c may have emitted. *)
Batch(c, evs) ==
  /\ evs \in Seq(Event)
  /\ Len(evs) <= MaxBatch
  /\ \A i \in DOMAIN evs : evs[i].cmd = c /\ evs[i].n = i

JInit ==
  /\ journal = <<>>
  /\ outcome = [c \in Commands |-> "pending"]

(* Command c succeeds with a whole batch of events. *)
Execute(c) ==
  /\ outcome[c] = "pending"
  /\ outcome' = [outcome EXCEPT ![c] = "replied"]
  /\ \E evs \in UNION {[1 .. k -> Event] : k \in 0 .. MaxBatch} :
       /\ Batch(c, evs)
       /\ journal' = journal \o evs

(* Command c fails: its client is told and nothing is persisted. *)
Reject(c) ==
  /\ outcome[c] = "pending"
  /\ outcome' = [outcome EXCEPT ![c] = "failed"]
  /\ UNCHANGED journal

JNext == \E c \in Commands : Execute(c) \/ Reject(c)

JSpec == JInit /\ [][JNext]_jvars
============================================================================
