-------------------------- MODULE ReplicatedEntity --------------------------
(***************************************************************************)
(* One replicated entity, of a counter: sdk/src/replicated-entity-support  *)
(* .ts and the CommandHelper it runs on, talking over one gRPC stream at a *)
(* time to the Kalix proxy, which owns the replica.  What other nodes do   *)
(* to the entity reaches the proxy's replica at once and the service as a  *)
(* delta or a delete, in a turn of its own that may come while a command's *)
(* handler awaits.                                                         *)
(***************************************************************************)
EXTENDS EntityStream

CONSTANTS
  MaxChange,      (* bound on the net change of one command                *)
  MaxRemotes,     (* bound: changes by other nodes                         *)
  MixesFailure,   (* may a handler that changed or deleted the entity fail *)
                  (* its command without ending the stream                 *)
  DeletesMerged   (* may a handler that found no entity delete the one it  *)
                  (* made after another node's change was merged into it   *)

ASSUME ReplicatedAssumption ==
  /\ MaxChange \in Nat
  /\ MaxRemotes \in Nat
  /\ MixesFailure \in BOOLEAN
  /\ DeletesMerged \in BOOLEAN

INSTANCE ReplicatedData
  WITH Elements <- {}, Keys <- {}, Values <- {}, EmptyObject <- Nothing

VARIABLES
  (* the proxy *)
  status,        (* of the replica: "none", "exists" or "deleted"          *)
  replica,       (* its value                                              *)
  remotes,       (* number of changes by other nodes                       *)
  inbox,         (* deltas and deletes sent to the service, not yet read   *)
  (* the service *)
  currentState,  (* the counter in memory, or Nothing when null            *)
  (* history *)
  asked,         (* what the command awaited did to the counter            *)
  acked,         (* what all commands answered with success did to it      *)
  others,        (* what other nodes did to it                             *)
  unread         (* the sum of the deltas in inbox                         *)

history == <<asked, acked, others, unread>>
proxyReplica == <<status, replica, remotes>>
vars == <<streamVars, proxyReplica, inbox, currentState, history>>

Counters == [value : Int, delta : Int]

(* The state management of one command's context: ctx.noState, ctx.deleted *)
(* and the change the handler made.                                        *)
Work == [noState : BOOLEAN, deleted : BOOLEAN, change : -MaxChange .. MaxChange]

(* The state action of a reply. *)
StateActions == [action : {"update", "delete"}, change : Int]

DeltaIn == [kind : {"delta", "delete"}, change : Int]

TypeOK ==
  /\ StreamTypeOK({Nothing}, Work, StateActions)
  /\ status \in {"none", "exists", "deleted"}
  /\ replica \in Int
  /\ remotes \in 0 .. MaxRemotes
  /\ inbox \in Seq(DeltaIn)
  /\ currentState \in Counters \cup {Nothing}
  /\ asked \in Int /\ acked \in Int /\ others \in Int /\ unread \in Int

Init ==
  /\ StreamInit
  /\ status = "none" /\ replica = 0 /\ remotes = 0 /\ inbox = <<>>
  /\ currentState = Nothing
  /\ asked = 0 /\ acked = 0 /\ others = 0 /\ unread = 0

Steady == UNCHANGED <<proxyReplica, inbox, currentState, history>>

----------------------------------------------------------------------------
(* The life of a stream. *)

Forgets ==
  /\ inbox' = <<>> /\ unread' = 0
  /\ currentState' = Nothing
  /\ UNCHANGED <<proxyReplica, asked, acked, others>>

OpenStream == StreamOpens /\ Forgets

(* handleInitialDelta: the state of an Init, or a delta when there is no   *)
(* state, is applied to a new object.                                      *)
MergedAnew(state, change) == CounterApply(NewCounter, [change |-> change])
Merged(state, change) ==
  CounterApply(IF state = Nothing THEN NewCounter ELSE state, [change |-> change])

(* Init: the handler is created, with the replica when there is one. *)
InitKeepsMessage ==
  /\ StreamStarts
  /\ status # "deleted"
  /\ currentState' = IF status = "exists" THEN [change |-> replica] ELSE Nothing
  /\ UNCHANGED <<proxyReplica, inbox, history>>
InitStream ==
  /\ StreamStarts
  /\ status # "deleted"
  /\ currentState' = IF status = "exists" THEN Merged(Nothing, replica) ELSE Nothing
  /\ UNCHANGED <<proxyReplica, inbox, history>>

(* A second Init, an unknown service, a message before Init, or a message  *)
(* that is none of delta, delete and command.                              *)
ProtocolError == StreamFails /\ Steady

HalfClose == StreamHalfCloses /\ Steady

LoseStream == StreamLost /\ Forgets

----------------------------------------------------------------------------
(* What other nodes do. *)

Tells(message) ==
  IF link = "open" /\ started
  THEN inbox' = Append(inbox, message) /\ unread' = unread + message.change
  ELSE UNCHANGED <<inbox, unread>>

(* The proxy merges a change of another node and passes it on. *)
RemoteChange(n) ==
  /\ remotes < MaxRemotes /\ status # "deleted"
  /\ remotes' = remotes + 1
  /\ status' = "exists" /\ replica' = replica + n
  /\ others' = others + n
  /\ Tells([kind |-> "delta", change |-> n])
  /\ UNCHANGED <<streamVars, currentState, asked, acked>>

(* Another node has deleted the entity. *)
RemoteDelete ==
  /\ remotes < MaxRemotes /\ status = "exists"
  /\ remotes' = remotes + 1
  /\ status' = "deleted"
  /\ Tells([kind |-> "delete", change |-> 0])
  /\ UNCHANGED <<streamVars, replica, currentState, asked, acked, others>>

(* handleReplicatedEntityStreamIn, whether a handler is running or not. *)
ReceiveRemote ==
  /\ CanRead /\ inbox # <<>>
  /\ inbox' = Tail(inbox) /\ unread' = unread - Head(inbox).change
  /\ currentState' = IF Head(inbox).kind = "delete" THEN Nothing
                     ELSE Merged(currentState, Head(inbox).change)
  /\ UNCHANGED <<streamVars, proxyReplica, asked, acked, others>>

----------------------------------------------------------------------------
(* The command handler.  The proxy refuses commands for a deleted entity,  *)
(* and a command is read after the deltas that were sent before it.        *)

MaySend == status # "deleted" /\ inbox = <<>>

NoWork(state) == [noState |-> state = Nothing, deleted |-> FALSE, change |-> 0]

(* addStateManagementToContext: a null state becomes the default one, which *)
(* may be null as well.                                                    *)
ReceiveCommand ==
  /\ MaySend
  /\ CommandReceived(Nothing, NoWork(currentState))
  /\ currentState' \in IF currentState = Nothing THEN {Nothing, NewCounter} ELSE {currentState}
  /\ UNCHANGED <<proxyReplica, inbox, history>>

RefuseCommand == MaySend /\ CommandRefused /\ Steady

(* The payload cannot be decoded, or defaultValue throws. *)
FailCommand == MaySend /\ CommandFails /\ Steady

Handles(state, work) ==
  /\ MayContinue
  /\ currentState' = state
  /\ ctx' = [ctx EXCEPT !.work = work]
  /\ UNCHANGED <<proxySide, wire, started, ended, proxyReplica, inbox, history>>

(* ctx.state = new ReplicatedCounter(); the setter throws when there is a  *)
(* state.                                                                  *)
SetState == currentState = Nothing /\ Handles(NewCounter, ctx.work)

(* ctx.state.increment(n) *)
Change(n) ==
  /\ currentState # Nothing
  /\ ctx.work # Nothing /\ ctx.work.change + n \in -MaxChange .. MaxChange
  /\ Handles(CounterIncrement(currentState, n), [ctx.work EXCEPT !.change = @ + n])

(* ctx.delete throws when there is no state; for a command that found none *)
(* it only takes back the state that was made since.                       *)
DeleteNew ==
  /\ currentState # Nothing /\ MayContinue /\ ctx.work.noState
  /\ DeletesMerged \/ currentState.value = currentState.delta
  /\ Handles(Nothing, [ctx.work EXCEPT !.change = 0])

Delete ==
  /\ currentState # Nothing /\ MayContinue /\ ~ ctx.work.noState
  /\ Handles(currentState, [ctx.work EXCEPT !.deleted = TRUE])

RecordAction == HandlerActs /\ Steady

Fail == HandlerFails /\ Steady

(* setStateActionOnReply: the state action, and the state it leaves. *)
StateAction(work) ==
  IF work.deleted THEN [action |-> "delete", change |-> 0]
  ELSE IF currentState # Nothing /\ CounterChanged(currentState)
       THEN [action |-> "update", change |-> CounterDelta(currentState).change]
       ELSE Nothing

StateLeftKeepsDelta(work) == IF work.deleted THEN Nothing ELSE currentState
StateLeft(work) ==
  IF work.deleted THEN Nothing
  ELSE IF currentState # Nothing THEN CounterReset(currentState) ELSE Nothing

(* The handler's promise settles with r.  When it was rejected nothing is  *)
(* done, and a pending delta stays in the state; otherwise the delta is    *)
(* taken without a look at a failed Reply or at ctx.fail.                  *)
Settle(r) ==
  /\ ctx.pc = "running"
  /\ ctx.error \/ IsFailure(r)
       => MixesFailure \/ (ctx.work.change = 0 /\ ~ ctx.work.deleted)
  /\ asked' = ctx.work.change
  /\ IF r.kind = "throw"
     THEN HandlerSettles(r, r, Nothing) /\ UNCHANGED currentState
     ELSE /\ HandlerSettles(r, r, StateAction(ctx.work))
          /\ currentState' = StateLeft(ctx.work)
  /\ UNCHANGED <<proxyReplica, inbox, acked, others, unread>>

WriteAnswer == AnswerWritten(ctx) /\ Steady

----------------------------------------------------------------------------
(* The proxy reads the stream. *)

(* The state action of a reply is carried out on the replica; an entity    *)
(* that was deleted meanwhile stays deleted.                               *)
ReadReply ==
  /\ ReplyRead
  /\ LET act == Head(wire).body IN
     IF act = Nothing \/ status = "deleted" THEN UNCHANGED <<status, replica>>
     ELSE IF act.action = "delete" THEN status' = "deleted" /\ UNCHANGED replica
     ELSE status' = "exists" /\ replica' = replica + act.change
  /\ acked' = IF Head(wire).action = "failure" THEN acked ELSE acked + asked
  /\ UNCHANGED <<remotes, inbox, currentState, asked, others, unread>>

ReadFailure == FailureRead /\ Steady

ReadEnd == EndRead /\ Forgets

Next ==
  \/ OpenStream \/ InitStream \/ ProtocolError \/ HalfClose \/ LoseStream
  \/ (\E n \in {-1, 1} : RemoteChange(n) \/ Change(n)) \/ RemoteDelete \/ ReceiveRemote
  \/ ReceiveCommand \/ RefuseCommand \/ FailCommand
  \/ SetState \/ DeleteNew \/ Delete
  \/ RecordAction \/ Fail \/ (\E r \in Results : Settle(r)) \/ WriteAnswer
  \/ ReadReply \/ ReadFailure \/ ReadEnd

Spec == Init /\ [][Next]_vars

----------------------------------------------------------------------------
(* Properties. *)

(* The replica holds what its clients were told and what other nodes did:  *)
(* the change of each command answered with success, of no failed one, and *)
(* none twice or under the name of another command, whatever happened      *)
(* between the two: remote deltas, failures, lost streams.                 *)
AcknowledgedIsReplica == status # "deleted" => replica = acked + others

(* The state actions under way to the proxy. *)
UnderWay == ({ctx.body} \cup {wire[i].body : i \in DOMAIN wire}) \ {Nothing}

(* No change is lost or counted twice between memory and replica: on a     *)
(* live stream the counter in memory, with the deltas it was not given     *)
(* yet, is the replica with the change that was not taken from the counter *)
(* yet and the one that is under way.                                      *)
ChangesBalance ==
  started /\ ~ ended /\ status # "deleted"
    /\ (\A act \in UnderWay : act.action = "update")
  => LET sent == IF UnderWay = {} THEN {0} ELSE {act.change : act \in UnderWay} IN
     IF currentState = Nothing THEN \E n \in sent : unread = replica + n
     ELSE \E n \in sent : currentState.value + unread = replica + currentState.delta + n

(* What one node deletes stays deleted, and only success deletes: an       *)
(* entity is deleted by another node, or by a command that called delete   *)
(* and is answered with success in the same step.                          *)
DeletedBySuccess ==
  [][status' # status /\ status' = "deleted" =>
       \/ remotes' # remotes
       \/ \E c \in Commands : outcome[c] = "pending" /\ outcome'[c] = "replied"]_vars
=============================================================================
