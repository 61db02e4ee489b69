----------------------------- MODULE ValueEntity ---------------------------
(***************************************************************************)
(* One value entity: sdk/src/value-entity-support.ts and the CommandHelper *)
(* it runs on, talking over one gRPC stream at a time to the Kalix proxy,  *)
(* which owns the persisted state.                                         *)
(***************************************************************************)
EXTENDS EntityStream

CONSTANTS
  Values,         (* the states a handler may set                          *)
  InitialState,   (* what the initial callback returns                     *)
  MixesFailure    (* may a handler that set or deleted the state return    *)
                  (* normally and fail its command all the same            *)

ASSUME ValueAssumption ==
  /\ Nothing \notin Values
  /\ InitialState \in Values
  /\ MixesFailure \in BOOLEAN

VARIABLES
  durable,    (* the state the proxy has persisted, or Nothing             *)
  anyState    (* the serialized state in memory, or Nothing when null      *)

entityVars == <<durable, anyState>>
vars == <<streamVars, entityVars>>

Stored == Values \cup {Nothing}

(* What one command asked for: the last state set, and whether the state   *)
(* is to be deleted.                                                       *)
Work == [update : Stored, deleted : BOOLEAN]
NoWork == [update |-> Nothing, deleted |-> FALSE]

(* The state action of a reply. *)
StateActions == [action : {"update", "delete", "none"}, value : Stored]

TypeOK ==
  /\ StreamTypeOK(Values, Work, StateActions)
  /\ durable \in Stored
  /\ anyState \in Stored

(* withState: a null state becomes the initial one. *)
Ensure(st) == IF st = Nothing THEN InitialState ELSE st

Init ==
  /\ StreamInit
  /\ durable = Nothing /\ anyState = Nothing

----------------------------------------------------------------------------
(* The life of a stream. *)

OpenStream == StreamOpens /\ anyState' = Nothing /\ UNCHANGED durable

(* Init: the handler is created with the persisted state; an empty         *)
(* InitState message means that there is none.                             *)
InitKeepsMessage ==
  StreamStarts /\ anyState' = [value |-> durable] /\ UNCHANGED durable
InitStream == StreamStarts /\ anyState' = durable /\ UNCHANGED durable

(* A second Init, an unknown service, a message before Init, or a message  *)
(* that is not a command.                                                  *)
ProtocolError == StreamFails /\ UNCHANGED entityVars

HalfClose == StreamHalfCloses /\ UNCHANGED entityVars

LoseStream == StreamLost /\ anyState' = Nothing /\ UNCHANGED durable

----------------------------------------------------------------------------
(* The command handler. *)

(* withState gives a copy of the state to the user's handler. *)
ReceiveCommand ==
  /\ anyState' = Ensure(anyState)
  /\ CommandReceived(Ensure(anyState), NoWork)
  /\ UNCHANGED durable

(* The state was ensured when the handler was looked up. *)
RefuseCommand ==
  /\ CommandRefused
  /\ anyState' \in {anyState, Ensure(anyState)}
  /\ UNCHANGED durable

(* The payload cannot be decoded, or the entity has no initial callback    *)
(* that returns a state: withState throws before the state changes.        *)
FailCommand ==
  /\ CommandFails
  /\ UNCHANGED entityVars

Records(work) ==
  /\ MayContinue
  /\ ctx' = [ctx EXCEPT !.work = work]
  /\ UNCHANGED <<proxySide, wire, started, ended, entityVars>>

(* ctx.updateState: an update after a delete cancels the delete.  When the *)
(* new state cannot be serialized the call throws after that.              *)
UpdateState(v) == Records([update |-> v, deleted |-> FALSE])
UpdateThrows == Records([ctx.work EXCEPT !.deleted = FALSE])

(* ctx.deleteState *)
DeleteState == Records([ctx.work EXCEPT !.deleted = TRUE])

RecordAction == HandlerActs /\ UNCHANGED entityVars

Fail == HandlerFails /\ UNCHANGED entityVars

(* The state action of what a command asked for: the delete goes first. *)
StateAction(work) ==
  IF work.deleted THEN [action |-> "delete", value |-> Nothing]
  ELSE IF work.update # Nothing THEN [action |-> "update", value |-> work.update]
  ELSE [action |-> "none", value |-> Nothing]

(* The memory after a state action, and what the proxy persists of it. *)
MemoryKeepsDeleted(act, st) == IF act.action = "update" THEN act.value ELSE st
MemoryAfter(act, st) == IF act.action = "none" THEN st ELSE act.value
Persisted(act, st) == IF act.action = "none" THEN st ELSE act.value

(* The handler's promise settles with r.  Unless it was rejected, the      *)
(* state action goes into the reply and the memory follows it at once: no  *)
(* look is taken at a failed Reply or at ctx.fail.                         *)
Settle(r) ==
  /\ ctx.pc = "running"
  /\ LET act == StateAction(ctx.work)
         fails == ctx.error \/ IsFailure(r)
     IN
     IF r.kind = "throw"
     THEN HandlerSettles(r, r, Nothing) /\ UNCHANGED anyState
     ELSE /\ fails /\ act.action # "none" => MixesFailure
          /\ anyState' = MemoryAfter(act, anyState)
          /\ HandlerSettles(r, r, act)
  /\ UNCHANGED durable

WriteAnswer == AnswerWritten(ctx) /\ UNCHANGED entityVars

----------------------------------------------------------------------------
(* The proxy reads the stream. *)

(* The state action of a reply is persisted. *)
ReadReply ==
  /\ ReplyRead
  /\ durable' = IF Head(wire).body = Nothing THEN durable
                ELSE Persisted(Head(wire).body, durable)
  /\ UNCHANGED anyState

ReadFailure == FailureRead /\ UNCHANGED entityVars

ReadEnd == EndRead /\ anyState' = Nothing /\ UNCHANGED durable

Next ==
  \/ OpenStream \/ InitStream \/ ProtocolError \/ HalfClose \/ LoseStream
  \/ ReceiveCommand \/ RefuseCommand \/ FailCommand
  \/ (\E v \in Values : UpdateState(v)) \/ UpdateThrows \/ DeleteState
  \/ RecordAction \/ Fail \/ (\E r \in Results : Settle(r)) \/ WriteAnswer
  \/ ReadReply \/ ReadFailure \/ ReadEnd

Spec == Init /\ [][Next]_vars

----------------------------------------------------------------------------
(* Properties. *)

(* The entity's memory is the persisted state: on a stream the service has *)
(* not ended, with no reply under way, both mean the same state to the     *)
(* next command, an absent one being the initial one.                      *)
MemoryIsStored ==
  started /\ ~ ended /\ ctx.pc # "settled"
    /\ (\A i \in DOMAIN wire : wire[i].kind # "reply")
  => Ensure(anyState) = Ensure(durable)

(* A command handler decides on the persisted state, after any sequence of *)
(* updates, deletes, failures, passivations and lost streams.              *)
HandlerSeesStored ==
  ctx.pc = "running" /\ ~ ended => ctx.saw = Ensure(durable)

(* The store and the clients see an atomic register: only a command        *)
(* answered with success changes the persisted state, once and together    *)
(* with its answer.                                                        *)
Abstract == INSTANCE EntityRegister
ImplementsRegister == Abstract!RSpec
============================================================================
