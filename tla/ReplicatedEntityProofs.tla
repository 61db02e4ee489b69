----------------------- MODULE ReplicatedEntityProofs -----------------------
(***************************************************************************)
(* Theorems about ReplicatedEntity, for every number of commands, streams  *)
(* and changes by other nodes.                                             *)
(***************************************************************************)
EXTENDS ReplicatedEntity, EntityStreamProofs

----------------------------------------------------------------------------
(* Type correctness.                                                       *)

LEMMA TypeInit == Init => TypeOK
<1> SUFFICES ASSUME Init PROVE TypeOK
  OBVIOUS
<1>1. StreamTypeOK({Nothing}, Work, StateActions)
  BY StreamInitType DEF Init
<1>2. remotes \in 0 .. MaxRemotes /\ inbox \in Seq(DeltaIn)
  BY ReplicatedAssumption DEF Init
<1> QED BY <1>1, <1>2 DEF Init, TypeOK

(* The running command and its work. *)
LEMMA WorkType ==
  ASSUME TypeOK, ctx.pc # "none"
  PROVE  ctx \in ContextOf({Nothing}, Work, StateActions) /\ ctx.work \in Work /\ started
BY RunningContext DEF TypeOK, ContextOf

(* A counter is not Nothing, and what is done to one is a counter. *)
LEMMA CounterIsSome ==
  ASSUME NEW c \in Counters
  PROVE  c # Nothing
<1>1. DOMAIN c = {"value", "delta"} /\ DOMAIN Nothing = {"none"}
  BY DEF Counters, Nothing
<1> QED BY <1>1

LEMMA CounterTypes ==
  ASSUME NEW c \in Counters, NEW n \in Int
  PROVE  /\ NewCounter \in Counters /\ CounterReset(c) \in Counters
         /\ CounterIncrement(c, n) \in Counters /\ CounterApply(c, [change |-> n]) \in Counters
         /\ CounterDelta(c).change \in Int
BY DEF Counters, NewCounter, CounterReset, CounterIncrement, CounterApply, CounterDelta

LEMMA MergedType ==
  ASSUME NEW state \in Counters \cup {Nothing}, NEW n \in Int
  PROVE  Merged(state, n) \in Counters
<1>1. NewCounter \in Counters
  BY DEF NewCounter, Counters
<1> QED BY <1>1, CounterTypes DEF Merged

LEMMA StateActionType ==
  ASSUME TypeOK, NEW work \in Work
  PROVE  /\ StateAction(work) \in StateActions \cup {Nothing}
         /\ StateLeft(work) \in Counters \cup {Nothing}
<1>1. currentState # Nothing =>
        CounterReset(currentState) \in Counters /\ CounterDelta(currentState).change \in Int
  BY CounterTypes DEF TypeOK
<1> QED BY <1>1 DEF StateAction, StateLeft, StateActions

(* What a handler does to the state. *)
LEMMA HandlesType ==
  ASSUME TypeOK, NEW state \in Counters \cup {Nothing}, NEW work \in Work,
         Handles(state, work)
  PROVE  TypeOK'
<1>1. ctx \in ContextOf({Nothing}, Work, StateActions) /\ started
  BY RunningContext DEF TypeOK, Handles, MayContinue
<1>2. ctx' \in ContextOf({Nothing}, Work, StateActions)
  BY <1>1 DEF Handles, ContextOf
<1> QED
  BY <1>1, <1>2 DEF Handles, TypeOK, StreamTypeOK, proxySide, proxyReplica, history

LEMMA HandlerHandles ==
  ASSUME TypeOK, SetState \/ (\E n \in {-1, 1} : Change(n)) \/ DeleteNew \/ Delete
  PROVE  \E state \in Counters \cup {Nothing}, work \in Work : Handles(state, work)
<1>1. ctx.work \in Work
  BY WorkType DEF SetState, Change, DeleteNew, Delete, Handles, MayContinue
<1>2. CASE SetState
  BY <1>1, <1>2 DEF SetState, NewCounter, Counters
<1>3. CASE \E n \in {-1, 1} : Change(n)
  <2>1. PICK n \in {-1, 1} : Change(n)
    BY <1>3
  <2>2. CounterIncrement(currentState, n) \in Counters
    <3>1. currentState \in Counters /\ n \in Int
      BY <2>1 DEF TypeOK, Change
    <3> QED BY <3>1, CounterTypes
  <2>3. [ctx.work EXCEPT !.change = @ + n] \in Work
    <3>1. ctx.work.change + n \in -MaxChange .. MaxChange
      BY <2>1 DEF Change
    <3> QED BY <1>1, <3>1 DEF Work
  <2> QED BY <2>1, <2>2, <2>3 DEF Change
<1>4. CASE DeleteNew
  <2>1. [ctx.work EXCEPT !.change = 0] \in Work
    BY <1>1, ReplicatedAssumption DEF Work
  <2> QED BY <1>4, <2>1 DEF DeleteNew
<1>5. CASE Delete
  <2>1. [ctx.work EXCEPT !.deleted = TRUE] \in Work
    BY <1>1 DEF Work
  <2> QED BY <1>5, <2>1 DEF Delete, TypeOK
<1> QED BY <1>2, <1>3, <1>4, <1>5

LEMMA RemoteType ==
  ASSUME TypeOK, (\E n \in {-1, 1} : RemoteChange(n)) \/ RemoteDelete
  PROVE  TypeOK'
<1>1. PICK n \in {-1, 0, 1}, kind \in {"delta", "delete"} :
        /\ Tells([kind |-> kind, change |-> n])
        /\ \/ RemoteChange(n)
           \/ RemoteDelete
  BY DEF RemoteChange, RemoteDelete
<1>2. inbox' \in Seq(DeltaIn) /\ unread' \in Int
  <2>1. [kind |-> kind, change |-> n] \in DeltaIn /\ inbox \in Seq(DeltaIn) /\ unread \in Int
    BY <1>1 DEF DeltaIn, TypeOK
  <2>2. PICK message \in DeltaIn : Tells(message)
    BY <1>1, <2>1
  <2>3. message.change \in Int
    BY DEF DeltaIn
  <2>4. inbox' \in Seq(DeltaIn)
    BY <2>1, <2>2 DEF Tells
  <2>5. unread' \in Int
    BY <2>1, <2>2, <2>3 DEF Tells
  <2> QED BY <2>4, <2>5
<1>3. /\ remotes' \in 0 .. MaxRemotes /\ status' \in {"exists", "deleted"}
      /\ UNCHANGED <<streamVars, currentState, asked, acked>>
  BY <1>1, ReplicatedAssumption DEF RemoteChange, RemoteDelete, TypeOK
<1>4. replica' \in Int /\ others' \in Int
  BY DEF RemoteChange, RemoteDelete, TypeOK
<1> QED BY <1>2, <1>3, <1>4 DEF TypeOK, StreamTypeOK, streamVars

LEMMA ReceiveRemoteType ==
  ASSUME TypeOK, ReceiveRemote
  PROVE  TypeOK'
<1>1. Head(inbox) \in DeltaIn /\ Tail(inbox) \in Seq(DeltaIn)
  BY DEF TypeOK, ReceiveRemote
<1>2. Head(inbox).change \in Int
  BY <1>1 DEF DeltaIn
<1>3. Merged(currentState, Head(inbox).change) \in Counters
  BY <1>2, MergedType DEF TypeOK
<1>4. currentState' \in Counters \cup {Nothing}
  BY <1>3 DEF ReceiveRemote
<1>5. unread' \in Int
  BY <1>2 DEF TypeOK, ReceiveRemote
<1> QED
  BY <1>1, <1>4, <1>5 DEF TypeOK, StreamTypeOK, ReceiveRemote, streamVars, proxyReplica

LEMMA SettleType ==
  ASSUME TypeOK, NEW r \in Results, Settle(r)
  PROVE  TypeOK'
<1>1. ctx.work \in Work /\ ctx.work.change \in Int
  BY WorkType, ReplicatedAssumption DEF Settle, Work
<1>2. PICK body \in StateActions \cup {Nothing} : HandlerSettles(r, r, body)
  BY <1>1, StateActionType DEF Settle
<1>3. StreamTypeOK({Nothing}, Work, StateActions)'
  BY <1>2, HandlerSettlesType DEF TypeOK
<1>4. currentState' \in Counters \cup {Nothing}
  BY <1>1, StateActionType DEF Settle, TypeOK
<1>5. asked' \in Int /\ UNCHANGED <<proxyReplica, inbox, acked, others, unread>>
  BY <1>1 DEF Settle
<1> QED BY <1>3, <1>4, <1>5 DEF TypeOK, proxyReplica

LEMMA ReadReplyType ==
  ASSUME TypeOK, ReadReply
  PROVE  TypeOK'
<1>1. StreamTypeOK({Nothing}, Work, StateActions)'
  BY ReplyReadType DEF TypeOK, ReadReply
<1>2. Head(wire) \in MessageOf(StateActions)
  BY ReadType DEF TypeOK, StreamTypeOK, ReadReply, ReplyRead, Reads
<1>3. Head(wire).body # Nothing => Head(wire).body.change \in Int
  BY <1>2 DEF MessageOf, StateActions
<1>4. status' \in {"none", "exists", "deleted"} /\ replica' \in Int /\ acked' \in Int
  BY <1>3 DEF TypeOK, ReadReply
<1>5. UNCHANGED <<remotes, inbox, currentState, asked, others, unread>>
  BY DEF ReadReply
<1> QED BY <1>1, <1>4, <1>5 DEF TypeOK

LEMMA TypeNext == TypeOK /\ [Next]_vars => TypeOK'
<1> SUFFICES ASSUME TypeOK, [Next]_vars PROVE TypeOK'
  OBVIOUS
<1>1. CASE OpenStream \/ LoseStream \/ ReadEnd
  <2>1. StreamTypeOK({Nothing}, Work, StateActions)'
    BY <1>1, ResetType DEF TypeOK, OpenStream, LoseStream, ReadEnd
  <2>2. Forgets
    BY <1>1 DEF OpenStream, LoseStream, ReadEnd
  <2> QED BY <2>1, <2>2 DEF TypeOK, Forgets, proxyReplica
<1>2. CASE InitStream
  <2>1. currentState' \in Counters \cup {Nothing}
    BY <1>2, MergedType DEF InitStream, TypeOK
  <2> QED BY <1>2, <2>1, StreamStartsType DEF TypeOK, InitStream, proxyReplica, history
<1>3. CASE ProtocolError \/ HalfClose
  BY <1>3, StreamFailsType, StreamHalfClosesType
     DEF TypeOK, ProtocolError, HalfClose, Steady, proxyReplica, history
<1>4. CASE ReceiveCommand
  <2>1. NoWork(currentState) \in Work
    BY ReplicatedAssumption DEF NoWork, Work
  <2>2. currentState' \in Counters \cup {Nothing}
    BY <1>4 DEF ReceiveCommand, TypeOK, NewCounter, Counters
  <2>3. StreamTypeOK({Nothing}, Work, StateActions)'
    BY <1>4, <2>1, CommandReceivedType DEF TypeOK, ReceiveCommand
  <2> QED BY <1>4, <2>2, <2>3 DEF TypeOK, ReceiveCommand, proxyReplica, history
<1>5. CASE RefuseCommand \/ FailCommand
  BY <1>5, CommandRefusedType
     DEF TypeOK, RefuseCommand, FailCommand, Steady, proxyReplica, history
<1>6. CASE SetState \/ (\E n \in {-1, 1} : Change(n)) \/ DeleteNew \/ Delete
  BY <1>6, HandlerHandles, HandlesType
<1>7. CASE RecordAction \/ Fail
  BY <1>7, HandlerActsType DEF TypeOK, RecordAction, Fail, Steady, proxyReplica, history
<1>8. CASE \E r \in Results : Settle(r)
  BY <1>8, SettleType
<1>9. CASE WriteAnswer
  BY <1>9, WorkType, AnswerWrittenType
     DEF TypeOK, WriteAnswer, AnswerWritten, Steady, proxyReplica, history
<1>10. CASE (\E n \in {-1, 1} : RemoteChange(n)) \/ RemoteDelete
  BY <1>10, RemoteType
<1>11. CASE ReceiveRemote
  BY <1>11, ReceiveRemoteType
<1>12. CASE ReadReply
  BY <1>12, ReadReplyType
<1>13. CASE ReadFailure
  BY <1>13, ReplyReadType DEF TypeOK, ReadFailure, Steady, proxyReplica, history
<1>14. CASE UNCHANGED vars
  BY <1>14 DEF vars, streamVars, proxyReplica, history, TypeOK, StreamTypeOK
<1> QED
  BY <1>1, <1>2, <1>3, <1>4, <1>5, <1>6, <1>7, <1>8, <1>9, <1>10, <1>11, <1>12, <1>13,
     <1>14
  DEF Next

(* Every variable of the replicated entity and its stream keeps its type.  *)
THEOREM TypeCorrect == Spec => []TypeOK
BY TypeInit, TypeNext, PTL DEF Spec

----------------------------------------------------------------------------
(* Every command is answered at most once.                                 *)

(* What other nodes do, and the reading of it, leaves the stream alone. *)
Remote ==
  (\E n \in {-1, 1} : RemoteChange(n)) \/ RemoteDelete \/ ReceiveRemote

LEMMA RemoteStep == Remote => UNCHANGED streamVars
BY DEF Remote, RemoteChange, RemoteDelete, ReceiveRemote

(* The steps of a handler, which write nothing. *)
Handler ==
  \/ SetState \/ (\E n \in {-1, 1} : Change(n)) \/ DeleteNew \/ Delete
  \/ RecordAction \/ Fail \/ \E r \in Results : Settle(r)

LEMMA HandlerStep ==
  ASSUME TypeOK, Handler
  PROVE  /\ ctx.pc = "running" /\ ctx'.pc # "none" /\ ctx'.id = ctx.id
         /\ UNCHANGED <<proxySide, wire, started, ended, proxyReplica, inbox, acked, others,
                        unread>>
<1>1. ctx.pc = "running"
  BY DEF Handler, SetState, Change, DeleteNew, Delete, Handles, RecordAction, HandlerActs,
         Fail, HandlerFails, MayContinue, Settle
<1>2. ctx \in ContextOf({Nothing}, Work, StateActions)
  BY <1>1, WorkType
<1>3. CASE SetState \/ (\E n \in {-1, 1} : Change(n)) \/ DeleteNew \/ Delete
  <2>1. PICK state, work : Handles(state, work)
    BY <1>3 DEF SetState, Change, DeleteNew, Delete
  <2> QED BY <1>1, <1>2, <2>1 DEF Handles, ContextOf, history
<1>4. CASE RecordAction \/ Fail
  BY <1>1, <1>2, <1>4
     DEF RecordAction, HandlerActs, Fail, HandlerFails, ContextOf, Steady, history
<1>5. CASE \E r \in Results : Settle(r)
  <2>1. PICK r, body : HandlerSettles(r, r, body)
    BY <1>5 DEF Settle
  <2>2. UNCHANGED <<proxyReplica, inbox, acked, others, unread>>
    BY <1>5 DEF Settle
  <2> QED BY <1>1, <1>2, <2>1, <2>2 DEF HandlerSettles, ContextOf
<1> QED BY <1>3, <1>4, <1>5 DEF Handler

LEMMA OneAnswerNext == TypeOK /\ OneAnswer /\ [Next]_vars => OneAnswer'
<1> SUFFICES ASSUME TypeOK, OneAnswer, [Next]_vars PROVE OneAnswer'
  OBVIOUS
<1>0. /\ wire \in Seq(MessageOf(StateActions))
      /\ StreamTypeOK({Nothing}, Work, StateActions)
  BY DEF TypeOK, StreamTypeOK
<1>1. CASE OpenStream \/ LoseStream \/ ReadEnd
  BY <1>0, <1>1, OneAnswerReset DEF OpenStream, LoseStream, ReadEnd
<1>2. CASE InitStream \/ Remote \/ UNCHANGED vars
  BY <1>2, RemoteStep DEF InitStream, StreamStarts, proxySide, vars, streamVars, OneAnswer
<1>3. CASE Handler
  BY <1>3, HandlerStep DEF OneAnswer, proxySide
<1>4. CASE ProtocolError \/ HalfClose
  <2>1. UNCHANGED <<outcome, issued, awaiting, ctx>> /\ link' # "down"
    BY <1>4 DEF ProtocolError, StreamFails, HalfClose, StreamHalfCloses, proxySide, CanRead
  <2>2. GiveUp(0) \/ Put(<<End>>)
    BY <1>4 DEF ProtocolError, HalfClose, StreamFails, StreamHalfCloses
  <2> QED BY <1>0, <2>1, <2>2, OneAnswerGivesUp
<1>5. CASE ReceiveCommand
  BY <1>0, <1>5, OneAnswerReceived DEF ReceiveCommand
<1>6. CASE RefuseCommand \/ FailCommand
  BY <1>0, <1>6, OneAnswerRefused DEF RefuseCommand, FailCommand
<1>7. CASE WriteAnswer
  BY <1>0, <1>7, WorkType, OneAnswerWritten DEF WriteAnswer, AnswerWritten
<1>8. CASE ReadReply \/ ReadFailure
  <2>1. wire # <<>> /\ wire' = Tail(wire) /\ UNCHANGED <<issued, link, ctx>>
        /\ Head(wire) = wire[1] /\ 1 \in DOMAIN wire
    BY <1>0, <1>8 DEF ReadReply, ReadFailure, ReplyRead, FailureRead, Reads
  <2>2. CASE ReadReply
    <3>1. Head(wire).id # 0
      BY <2>1, <2>2 DEF OneAnswer, ReadReply, ReplyRead, Reads
    <3> QED BY <1>0, <2>1, <2>2, <3>1, OneAnswerRead DEF ReadReply, ReplyRead
  <2>3. CASE ReadFailure
    BY <1>0, <2>1, <2>3, OneAnswerRead DEF ReadFailure, FailureRead
  <2> QED BY <1>8, <2>2, <2>3
<1> QED
  BY <1>1, <1>2, <1>3, <1>4, <1>5, <1>6, <1>7, <1>8 DEF Next, Handler, Remote

LEMMA AnswerInvariant == Spec => [](TypeOK /\ OneAnswer)
<1>1. Init => TypeOK /\ OneAnswer
  BY TypeInit, OneAnswerInit DEF Init
<1>2. TypeOK /\ OneAnswer /\ [Next]_vars => (TypeOK /\ OneAnswer)'
  BY TypeNext, OneAnswerNext
<1> QED BY <1>1, <1>2, PTL DEF Spec

(* OneAnswer, for every handler and whatever other nodes do.               *)
THEOREM AnswersOnce == Spec => []OneAnswer
BY AnswerInvariant, PTL

----------------------------------------------------------------------------
(* Only success deletes.                                                   *)

(* What is under way: a reply that is a failure has no state action, and   *)
(* no other message has one.                                               *)
ActionInv ==
  /\ \A i \in DOMAIN wire :
       wire[i].body # Nothing => wire[i].kind = "reply" /\ wire[i].action # "failure"
  /\ ctx.pc # "settled" => ctx.body = Nothing

(* A reply or a state action on the wire was there before, or it is that   *)
(* of the answer just written.                                             *)
LEMMA RepliesWritten ==
  ASSUME TypeOK, [Next]_vars, NEW i \in DOMAIN wire',
         wire'[i].kind = "reply" \/ wire'[i].body # Nothing
  PROVE  \/ \E j \in DOMAIN wire : wire'[i] = wire[j]
         \/ WriteAnswer /\ ~ ended /\ ~ EndsStream(ctx) /\ wire'[i] = Answer(ctx)[1]
<1>0. wire \in Seq(MessageOf(StateActions)) /\ issued \in Nat /\ 0 \in 0 .. MaxCommands
  BY StreamAssumption DEF TypeOK, StreamTypeOK
<1>1. CASE OpenStream \/ LoseStream \/ ReadEnd
  BY <1>1 DEF OpenStream, LoseStream, ReadEnd, StreamOpens, EndRead, StreamLost, ResetStream
<1>2. CASE InitStream \/ ReceiveCommand \/ Remote \/ UNCHANGED vars
  BY <1>2, RemoteStep
     DEF InitStream, StreamStarts, ReceiveCommand, CommandReceived, vars, streamVars
<1>3. CASE Handler
  BY <1>3, HandlerStep
<1>4. CASE ProtocolError \/ HalfClose
  <2>1. Put(<<Failure(0), End>>) \/ Put(<<End>>)
    BY <1>4 DEF ProtocolError, HalfClose, StreamFails, StreamHalfCloses, GiveUp
  <2> QED BY <1>0, <2>1, FailuresPut DEF Failures
<1>5. CASE RefuseCommand \/ FailCommand
  <2>1. issued + 1 \in 0 .. MaxCommands
    BY <1>0, <1>5, StreamAssumption
       DEF RefuseCommand, FailCommand, CommandRefused, CommandFails, CommandSent
  <2>2. Put(<<Failure(issued + 1)>>) \/ Put(<<Failure(issued + 1), End>>)
    BY <1>5 DEF RefuseCommand, FailCommand, CommandRefused, CommandFails, GiveUp
  <2> QED BY <1>0, <2>1, <2>2, FailuresPut DEF Failures
<1>6. CASE WriteAnswer
  BY <1>0, <1>6, WorkType, AnswerPut DEF WriteAnswer, AnswerWritten
<1>7. CASE ReadReply \/ ReadFailure
  BY <1>0, <1>7, ReadMessages DEF ReadReply, ReadFailure, ReplyRead, FailureRead, Reads
<1> QED
  BY <1>1, <1>2, <1>3, <1>4, <1>5, <1>6, <1>7 DEF Next, Handler, Remote

(* What a step does to the context's body. *)
LEMMA BodyStep ==
  ASSUME TypeOK, ctx.pc # "settled" => ctx.body = Nothing, [Next]_vars
  PROVE  ctx'.pc # "settled" => ctx'.body = Nothing
<1>1. CASE \/ OpenStream \/ LoseStream \/ ReadEnd \/ WriteAnswer
  BY <1>1 DEF OpenStream, LoseStream, ReadEnd, StreamOpens, EndRead, StreamLost, ResetStream,
              WriteAnswer, AnswerWritten, NoContext
<1>2. CASE ReceiveCommand
  BY <1>2 DEF ReceiveCommand, CommandReceived, NewContext, NoContext
<1>3. CASE Handler
  <2>1. ctx \in ContextOf({Nothing}, Work, StateActions) /\ ctx.pc = "running"
    BY <1>3, HandlerStep, WorkType
  <2>2. CASE \E state, work : Handles(state, work)
    BY <2>1, <2>2 DEF Handles, ContextOf
  <2>3. CASE RecordAction \/ Fail
    BY <2>1, <2>3 DEF RecordAction, HandlerActs, Fail, HandlerFails, ContextOf
  <2>4. CASE \E r \in Results : Settle(r)
    BY <2>1, <2>4 DEF Settle, HandlerSettles, ContextOf
  <2> QED BY <1>3, <2>2, <2>3, <2>4 DEF Handler, SetState, Change, DeleteNew, Delete
<1>4. CASE \/ InitStream \/ Remote \/ ProtocolError \/ HalfClose \/ RefuseCommand
           \/ FailCommand \/ ReadReply \/ ReadFailure \/ UNCHANGED vars
  <2>1. ctx' = ctx
    BY <1>4, RemoteStep
       DEF InitStream, StreamStarts, ProtocolError, StreamFails, HalfClose, StreamHalfCloses,
           RefuseCommand, CommandRefused, FailCommand, CommandFails, ReadReply, ReplyRead,
           ReadFailure, FailureRead, vars, streamVars
  <2> QED BY <2>1
<1> QED BY <1>1, <1>2, <1>3, <1>4 DEF Next, Handler, Remote

LEMMA ActionNext == TypeOK /\ ActionInv /\ [Next]_vars => ActionInv'
<1> SUFFICES ASSUME TypeOK, ActionInv, [Next]_vars PROVE ActionInv'
  OBVIOUS
<1>1. ASSUME NEW i \in DOMAIN wire', wire'[i].body # Nothing
      PROVE  wire'[i].kind = "reply" /\ wire'[i].action # "failure"
  <2>1. CASE \E j \in DOMAIN wire : wire'[i] = wire[j]
    BY <1>1, <2>1 DEF ActionInv
  <2>2. CASE ~ EndsStream(ctx) /\ wire'[i] = Answer(ctx)[1]
    <3>1. Answer(ctx)[1].kind = "reply"
      BY <2>2 DEF Answer, Message
    <3> QED BY <1>1, <2>2, <3>1, AnswerIsReply
  <2> QED BY <1>1, <2>1, <2>2, RepliesWritten
<1> QED BY <1>1, BodyStep DEF ActionInv

LEMMA ActionInvariant == Spec => [](TypeOK /\ OneAnswer /\ ActionInv)
<1>1. Init => ActionInv
  BY DEF Init, StreamInit, ActionInv, NoContext
<1> QED BY <1>1, AnswerInvariant, ActionNext, PTL DEF Spec

(* DeletedBySuccess, for every handler and whatever other nodes do.        *)
THEOREM DeletedTheorem == Spec => DeletedBySuccess
<1> DEFINE Deletes == status' # status /\ status' = "deleted" =>
       \/ remotes' # remotes
       \/ \E c \in Commands : outcome[c] = "pending" /\ outcome'[c] = "replied"
<1>1. TypeOK /\ OneAnswer /\ ActionInv /\ [Next]_vars => [Deletes]_vars
  <2> SUFFICES ASSUME TypeOK, OneAnswer, ActionInv, Next, status' # status,
                      status' = "deleted"
               PROVE  Deletes
    BY DEF vars, proxyReplica
  <2>1. CASE RemoteDelete
    BY <2>1 DEF RemoteDelete, TypeOK
  <2>2. CASE ReadReply
    <3> DEFINE msg == Head(wire)
    <3>1. 1 \in DOMAIN wire /\ msg = wire[1] /\ msg.kind = "reply" /\ msg.body # Nothing
      BY <2>2 DEF ReadReply, ReplyRead, Reads, TypeOK, StreamTypeOK
    <3>2. msg.action # "failure" /\ msg.id # 0 /\ msg.id = awaiting
      BY <3>1 DEF ActionInv, OneAnswer
    <3>3. msg.id \in Commands /\ outcome[msg.id] = "pending"
      <4>1. awaiting \in 0 .. issued /\ issued \in 0 .. MaxCommands
        BY DEF TypeOK, StreamTypeOK
      <4> QED BY <3>2, <4>1, StreamAssumption DEF OneAnswer, Commands
    <3>4. outcome'[msg.id] = "replied"
      BY <2>2, <3>2, <3>3 DEF ReadReply, ReplyRead, TypeOK, StreamTypeOK
    <3> QED BY <3>3, <3>4
  <2>3. CASE ~ RemoteDelete /\ ~ ReadReply
    <3>1. status' = status \/ status' = "exists"
      BY <2>3, HandlerStep
         DEF Next, Handler, OpenStream, LoseStream, ReadEnd, Forgets, InitStream,
             ProtocolError, HalfClose, RemoteChange, ReceiveRemote, ReceiveCommand,
             RefuseCommand, FailCommand, WriteAnswer, ReadFailure, Steady, proxyReplica
    <3> QED BY <3>1
  <2> QED BY <2>1, <2>2, <2>3
<1> QED BY <1>1, ActionInvariant, PTL DEF Spec, DeletedBySuccess

----------------------------------------------------------------------------
(* The replica is what was acknowledged.                                   *)

(* The change that was not taken from the counter in memory yet. *)
Left == IF currentState = Nothing THEN 0 ELSE currentState.delta

(* A state action says what the command asked for, if it deletes nothing. *)
SaysAsked(body, change) ==
  IF body = Nothing THEN change = 0 ELSE body.action = "update" => body.change = change

(* As long as the entity is not deleted, what is left in the counter is    *)
(* what the running command changed, it is all taken when the command      *)
(* settles, and nothing of it goes out with a failure.                     *)
ReplicaInv ==
  status # "deleted" =>
    /\ replica = acked + others
    /\ \A i \in DOMAIN inbox : inbox[i].kind = "delta"
    /\ ~ ended =>
         /\ ctx.pc = "none" => Left = 0
         /\ ctx.pc = "running" => Left = ctx.work.change
         /\ ctx.pc = "settled" =>
              /\ AnswersFailure(ctx) => Left = 0 /\ ctx.body = Nothing
              /\ ~ AnswersFailure(ctx) /\ ~ EndsStream(ctx) => Left = 0 /\ SaysAsked(ctx.body, asked)
    /\ \A i \in DOMAIN wire :
         wire[i].kind = "reply" /\ wire[i].action # "failure" => SaysAsked(wire[i].body, asked)

LEMMA ReplicaInit == Init => ReplicaInv
BY DEF Init, StreamInit, NoContext, ReplicaInv, Left

(* While a command runs or is settled, and when none is awaited, no reply  *)
(* and no state action is on the wire.                                     *)
LEMMA NoReply ==
  ASSUME OneAnswer, ActionInv, ctx.pc # "none" \/ awaiting = 0
  PROVE  \A i \in DOMAIN wire : wire[i].kind # "reply" /\ wire[i].body = Nothing
BY DEF OneAnswer, ActionInv

(* What is said of the wire, after a step that writes no answer. *)
LEMMA WireKept ==
  ASSUME TypeOK, ReplicaInv, [Next]_vars, ~ WriteAnswer, asked' = asked,
         status # "deleted", NEW i \in DOMAIN wire', wire'[i].kind = "reply",
         wire'[i].action # "failure"
  PROVE  SaysAsked(wire'[i].body, asked')
<1>1. PICK j \in DOMAIN wire : wire'[i] = wire[j]
  BY RepliesWritten
<1> QED BY <1>1 DEF ReplicaInv, SaysAsked

(* Nothing is left in a counter that is merged for the first time, and a   *)
(* merge leaves what is left alone.                                        *)
LEMMA MergeKeeps ==
  ASSUME NEW state \in Counters \cup {Nothing}, NEW n \in Int
  PROVE  LET merged == Merged(state, n) IN
         /\ merged # Nothing
         /\ state = Nothing => merged.delta = 0 /\ merged.value = n
         /\ state # Nothing => merged.delta = state.delta /\ merged.value = state.value + n
<1>1. Merged(state, n) # Nothing
  BY MergedType, CounterIsSome
<1>2. state = Nothing => Merged(state, n).delta = 0 /\ Merged(state, n).value = n
  BY DEF Merged, CounterApply, NewCounter
<1>3. state # Nothing => /\ Merged(state, n).delta = state.delta
                         /\ Merged(state, n).value = state.value + n
  BY DEF Merged, CounterApply, Counters
<1> QED BY <1>1, <1>2, <1>3

LEMMA ReplicaStream ==
  ASSUME TypeOK, ReplicaInv, Next,
         OpenStream \/ LoseStream \/ ReadEnd \/ InitStream
  PROVE  ReplicaInv'
<1>1. CASE OpenStream \/ LoseStream \/ ReadEnd
  <2>1. wire' = <<>> /\ ctx' = NoContext /\ currentState' = Nothing /\ inbox' = <<>>
        /\ UNCHANGED <<status, replica, acked, others>>
    BY <1>1 DEF OpenStream, LoseStream, ReadEnd, StreamOpens, EndRead, StreamLost,
                ResetStream, Forgets, proxyReplica
  <2> QED BY <2>1 DEF ReplicaInv, Left, NoContext
<1>2. CASE InitStream
  <2>1. /\ ~ started /\ UNCHANGED <<status, replica, acked, others, asked, inbox, wire, ctx>>
        /\ ctx = NoContext
    BY <1>2 DEF InitStream, StreamStarts, proxyReplica, history, TypeOK, StreamTypeOK
  <2>2. Left' = 0
    BY <1>2, MergeKeeps DEF InitStream, Left, TypeOK
  <2> QED BY <2>1, <2>2 DEF ReplicaInv, NoContext, SaysAsked
<1> QED BY <1>1, <1>2

(* A step of the stream that leaves the entity alone, if it has one. *)
LEMMA ReplicaSteady ==
  ASSUME TypeOK, ReplicaInv, Next, Steady, ~ WriteAnswer,
         ended' \/ (ended' = ended /\ ctx' = ctx)
  PROVE  ReplicaInv'
<1>1. UNCHANGED <<status, replica, acked, others, asked, inbox, currentState>>
  BY DEF Steady, proxyReplica, history
<1>2. ASSUME status # "deleted", NEW i \in DOMAIN wire', wire'[i].kind = "reply",
             wire'[i].action # "failure"
      PROVE  SaysAsked(wire'[i].body, asked')
  BY <1>1, <1>2, WireKept
<1> QED BY <1>1, <1>2 DEF ReplicaInv, Left, SaysAsked

LEMMA ReplicaReceives ==
  ASSUME TypeOK, OneAnswer, ReplicaInv, Next, ReceiveCommand
  PROVE  ReplicaInv'
<1>1. /\ UNCHANGED <<status, replica, acked, others, asked, inbox, wire, ended>>
      /\ ctx'.pc = "running" /\ ctx'.work = NoWork(currentState) /\ ctx.pc # "settled"
      /\ awaiting = 0
  BY DEF ReceiveCommand, CommandReceived, CommandSent, CanRead, NewContext, NoContext,
         proxyReplica, history
<1>2. ctx.pc = "none"
  <2>1. ctx.pc # "none" => ctx.id = 0 /\ ctx.id \in Commands
    BY <1>1, WorkType DEF OneAnswer, ContextOf
  <2> QED BY <1>1, <2>1, WorkType DEF Commands, ContextOf
<1>3. Left' = Left
  BY DEF ReceiveCommand, Left, NewCounter, Nothing
<1> QED BY <1>1, <1>2, <1>3 DEF ReplicaInv, SaysAsked, NoWork

LEMMA ReplicaRemote ==
  ASSUME TypeOK, ReplicaInv, Next, Remote
  PROVE  ReplicaInv'
<1>1. UNCHANGED <<wire, ended, ctx, asked, acked>>
  BY RemoteStep DEF Remote, RemoteChange, RemoteDelete, ReceiveRemote, streamVars
<1>2. CASE \E n \in {-1, 1} : RemoteChange(n)
  <2>1. PICK n \in {-1, 1} : RemoteChange(n)
    BY <1>2
  <2>2. status # "deleted" /\ replica' = acked' + others'
    BY <1>1, <2>1 DEF RemoteChange, ReplicaInv, TypeOK
  <2>3. \A i \in DOMAIN inbox' : inbox'[i].kind = "delta"
    <3>1. PICK message \in DeltaIn : message.kind = "delta" /\ Tells(message)
      BY <2>1 DEF RemoteChange, DeltaIn
    <3>2. inbox \in Seq(DeltaIn) /\ \A i \in DOMAIN inbox : inbox[i].kind = "delta"
      BY <2>2 DEF TypeOK, ReplicaInv
    <3> QED BY <3>1, <3>2 DEF Tells
  <2>4. currentState' = currentState
    BY <2>1 DEF RemoteChange
  <2> QED BY <1>1, <2>2, <2>3, <2>4 DEF ReplicaInv, Left, SaysAsked
<1>3. CASE RemoteDelete
  BY <1>3 DEF RemoteDelete, ReplicaInv
<1>4. CASE ReceiveRemote
  <2>1. inbox # <<>> /\ inbox' = Tail(inbox) /\ UNCHANGED <<status, replica, others>>
    BY <1>4 DEF ReceiveRemote, proxyReplica
  <2>2. ASSUME status # "deleted"
        PROVE  /\ \A i \in DOMAIN inbox' : inbox'[i].kind = "delta"
               /\ Left' = Left
    <3>1. inbox \in Seq(DeltaIn) /\ \A i \in DOMAIN inbox : inbox[i].kind = "delta"
      BY <2>2 DEF TypeOK, ReplicaInv
    <3>2. Head(inbox).kind = "delta" /\ Head(inbox) \in DeltaIn
          /\ \A i \in DOMAIN inbox' : inbox'[i].kind = "delta"
      BY <2>1, <3>1
    <3>3. Head(inbox).change \in Int /\ currentState \in Counters \cup {Nothing}
      BY <3>2 DEF DeltaIn, TypeOK
    <3>4. currentState' = Merged(currentState, Head(inbox).change)
      BY <1>4, <3>2 DEF ReceiveRemote
    <3> QED BY <3>2, <3>3, <3>4, MergeKeeps DEF Left
  <2> QED BY <1>1, <2>1, <2>2 DEF ReplicaInv, SaysAsked
<1> QED BY <1>2, <1>3, <1>4 DEF Remote

(* What the handler does changes the counter and its work alike. *)
LEMMA ReplicaRuns ==
  ASSUME TypeOK, ReplicaInv, Next,
         \/ SetState \/ (\E n \in {-1, 1} : Change(n)) \/ DeleteNew \/ Delete
         \/ RecordAction \/ Fail
  PROVE  ReplicaInv'
<1>1. /\ ctx.pc = "running" /\ ctx \in ContextOf({Nothing}, Work, StateActions)
      /\ ctx.work.change \in Int
      /\ UNCHANGED <<wire, ended, status, replica, inbox, acked, others>>
  <2>1. Handler
    BY DEF Handler
  <2>2. ctx.pc = "running" /\ ctx \in ContextOf({Nothing}, Work, StateActions)
        /\ ctx.work \in Work
    BY <2>1, HandlerStep, WorkType
  <2> QED BY <2>1, <2>2, HandlerStep, ReplicatedAssumption DEF Work, proxyReplica
<1>2. asked' = asked
  BY DEF SetState, Change, DeleteNew, Delete, Handles, RecordAction, Fail, Steady, history
<1>3. ctx'.pc = "running" /\ (Left = ctx.work.change => Left' = ctx'.work.change)
  <2>1. CASE SetState
    BY <1>1, <2>1 DEF SetState, Handles, ContextOf, Left, NewCounter, Nothing
  <2>2. CASE \E n \in {-1, 1} : Change(n)
    <3>1. PICK n \in {-1, 1} : Change(n)
      BY <2>2
    <3>2. currentState \in Counters /\ n \in Int
      BY <3>1 DEF Change, TypeOK
    <3>3. currentState' \in Counters /\ currentState' = CounterIncrement(currentState, n)
      BY <3>1, <3>2, CounterTypes DEF Change, Handles
    <3>4. currentState' # Nothing /\ currentState # Nothing
      BY <3>2, <3>3, CounterIsSome
    <3>5. Left' = Left + n
      BY <3>2, <3>3, <3>4 DEF Left, CounterIncrement, Counters
    <3>6. ctx'.pc = "running" /\ ctx'.work.change = ctx.work.change + n
      BY <1>1, <3>1 DEF Change, Handles, ContextOf, Work
    <3> QED BY <3>5, <3>6
  <2>3. CASE DeleteNew
    BY <1>1, <2>3 DEF DeleteNew, Handles, ContextOf, Work, Left
  <2>4. CASE Delete
    BY <1>1, <2>4 DEF Delete, Handles, ContextOf, Work, Left
  <2>5. CASE RecordAction \/ Fail
    BY <1>1, <2>5 DEF RecordAction, HandlerActs, Fail, HandlerFails, Steady, ContextOf, Left
  <2> QED BY <2>1, <2>2, <2>3, <2>4, <2>5
<1> QED BY <1>1, <1>2, <1>3 DEF ReplicaInv, SaysAsked

LEMMA ReplicaSettles ==
  ASSUME ~ MixesFailure, TypeOK, OneAnswer, ActionInv, ReplicaInv, NEW r \in Results,
         Settle(r)
  PROVE  ReplicaInv'
<1>1. /\ ctx.pc = "running" /\ ctx \in ContextOf({Nothing}, Work, StateActions)
      /\ ctx.work \in Work
      /\ UNCHANGED <<wire, ended, status, replica, inbox, acked, others>>
  <2>1. Handler
    BY DEF Handler
  <2> QED BY <2>1, HandlerStep, WorkType DEF proxyReplica
<1>2. \A i \in DOMAIN wire' : wire'[i].kind # "reply"
  BY <1>1, NoReply
<1>3. PICK body : HandlerSettles(r, r, body) /\ (r.kind = "throw" => body = Nothing)
                  /\ (r.kind # "throw" => body = StateAction(ctx.work))
  BY DEF Settle
<1>4. /\ ctx'.pc = "settled" /\ ctx'.result = r /\ ctx'.error = ctx.error /\ ctx'.body = body
      /\ asked' = ctx.work.change /\ ctx.work.change \in Int
  BY <1>1, <1>3, ReplicatedAssumption DEF HandlerSettles, ContextOf, Settle, Work
<1>5. ASSUME Left = ctx.work.change
      PROVE  /\ AnswersFailure(ctx') => Left' = 0 /\ ctx'.body = Nothing
             /\ ~ AnswersFailure(ctx') /\ ~ EndsStream(ctx')
                  => Left' = 0 /\ SaysAsked(ctx'.body, asked')
  <2>1. AnswersFailure(ctx') => ctx.work.change = 0 /\ ~ ctx.work.deleted
    BY <1>4 DEF AnswersFailure, Settle
  <2>2. CASE r.kind = "throw"
    <3>1. currentState' = currentState /\ ctx'.body = Nothing
      BY <1>3, <1>4, <2>2 DEF Settle
    <3>2. ~ AnswersFailure(ctx') => EndsStream(ctx')
      BY <1>4, <2>2 DEF EndsStream
    <3>3. Left' = Left
      BY <3>1 DEF Left
    <3> QED BY <1>5, <2>1, <3>1, <3>2, <3>3
  <2>3. CASE r.kind # "throw"
    <3>1. currentState' = StateLeft(ctx.work) /\ ctx'.body = StateAction(ctx.work)
      BY <1>3, <1>4, <2>3 DEF Settle
    <3>2. Left' = 0
      <4>1. currentState # Nothing => CounterReset(currentState).delta = 0
        BY DEF TypeOK, CounterReset, Counters
      <4> QED BY <3>1, <4>1 DEF StateLeft, Left
    <3>3. CASE ctx.work.deleted
      <4>1. ~ AnswersFailure(ctx')
        BY <2>1, <3>3
      <4>2. ctx'.body = [action |-> "delete", change |-> 0]
        BY <3>1, <3>3 DEF StateAction
      <4>3. ctx'.body # Nothing
        <5>1. ctx'.body \in StateActions
          BY <4>2 DEF StateActions
        <5>2. DOMAIN ctx'.body = {"action", "change"} /\ DOMAIN Nothing = {"none"}
          BY <5>1 DEF StateActions, Nothing
        <5> QED BY <5>2
      <4> QED BY <3>2, <4>1, <4>2, <4>3 DEF SaysAsked
    <3>4. CASE ~ ctx.work.deleted /\ Left = 0
      <4>1. ctx'.body = Nothing
        BY <3>1, <3>4 DEF StateAction, CounterChanged, Left
      <4> QED BY <1>4, <1>5, <3>2, <3>4, <4>1 DEF SaysAsked
    <3>5. CASE ~ ctx.work.deleted /\ Left # 0
      <4>1. ~ AnswersFailure(ctx')
        BY <1>5, <2>1, <3>5
      <4>2. ctx'.body.change = asked'
        BY <1>4, <1>5, <3>1, <3>5 DEF StateAction, CounterChanged, CounterDelta, Left
      <4>3. ctx'.body # Nothing
        <5>1. ctx'.body = [action |-> "update", change |-> CounterDelta(currentState).change]
          BY <3>1, <3>5 DEF StateAction, CounterChanged, Left
        <5>2. DOMAIN ctx'.body = {"action", "change"} /\ DOMAIN Nothing = {"none"}
          BY <5>1 DEF Nothing
        <5> QED BY <5>2
      <4> QED BY <3>2, <4>1, <4>2, <4>3 DEF SaysAsked
    <3> QED BY <3>3, <3>4, <3>5
  <2> QED BY <2>2, <2>3
<1> QED BY <1>1, <1>2, <1>4, <1>5 DEF ReplicaInv

LEMMA ReplicaWrites ==
  ASSUME TypeOK, OneAnswer, ActionInv, ReplicaInv, WriteAnswer
  PROVE  ReplicaInv'
<1>1. /\ ctx.pc = "settled" /\ ctx' = NoContext /\ ended' = (ended \/ EndsStream(ctx))
      /\ UNCHANGED <<status, replica, acked, others, asked, inbox, currentState>>
  BY DEF WriteAnswer, AnswerWritten, Steady, proxyReplica, history
<1>2. Left' = Left /\ ctx'.pc = "none"
  BY <1>1 DEF Left, NoContext
<1>3. EndsStream(ctx) => ~ AnswersFailure(ctx)
  BY DEF EndsStream
<1>4. ASSUME status # "deleted", NEW i \in DOMAIN wire', wire'[i].kind = "reply",
             wire'[i].action # "failure"
      PROVE  SaysAsked(wire'[i].body, asked')
  <2>1. /\ ~ ended /\ ~ EndsStream(ctx) /\ wire'[i] = Answer(ctx)[1]
    <3>1. ~ \E j \in DOMAIN wire : wire'[i] = wire[j]
      BY <1>1, <1>4, NoReply
    <3> QED BY <1>4, <3>1, RepliesWritten DEF Next
  <2>2. ~ AnswersFailure(ctx)
    BY <1>4, <2>1 DEF Answer, Message
  <2>3. wire'[i].body = ctx.body
    BY <2>1, <2>2 DEF Answer, Message
  <2> QED BY <1>1, <1>4, <2>1, <2>2, <2>3 DEF ReplicaInv, SaysAsked
<1>5. status # "deleted" /\ ~ ended' => Left' = 0
  BY <1>1, <1>2, <1>3 DEF ReplicaInv
<1> QED BY <1>1, <1>2, <1>4, <1>5 DEF ReplicaInv

LEMMA ReplicaReads ==
  ASSUME TypeOK, OneAnswer, ActionInv, ReplicaInv, Next, ReadReply \/ ReadFailure
  PROVE  ReplicaInv'
<1>1. UNCHANGED <<ended, ctx, inbox, currentState, asked, others>>
  BY DEF ReadReply, ReplyRead, ReadFailure, FailureRead, Steady, history
<1>2. ~ WriteAnswer
  <2>1. link # "down" /\ ctx' = ctx
    BY <1>1 DEF ReadReply, ReplyRead, ReadFailure, FailureRead, Reads
  <2> QED BY <2>1 DEF WriteAnswer, AnswerWritten, NoContext
<1>3. status = "deleted" => status' = "deleted"
  BY DEF ReadReply, ReadFailure, Steady, proxyReplica
<1>4. ASSUME status' # "deleted" PROVE replica' = acked' + others'
  <2>1. replica = acked + others /\ status # "deleted"
    BY <1>3, <1>4 DEF ReplicaInv
  <2>2. CASE ReadFailure
    BY <2>1, <2>2 DEF ReadFailure, Steady, proxyReplica, history
  <2>3. CASE ReadReply
    <3> DEFINE msg == Head(wire)
    <3>1. 1 \in DOMAIN wire /\ msg = wire[1] /\ msg.kind = "reply"
          /\ msg \in MessageOf(StateActions)
      BY <2>3, ReadType DEF ReadReply, ReplyRead, Reads, TypeOK, StreamTypeOK
    <3>2. msg.body # Nothing => /\ msg.action # "failure" /\ msg.body.action # "delete"
                                /\ msg.body \in StateActions
      BY <1>4, <2>1, <2>3, <3>1 DEF ActionInv, ReadReply, MessageOf
    <3>3. CASE msg.action = "failure"
      BY <1>1, <2>1, <2>3, <3>2, <3>3 DEF ReadReply
    <3>4. CASE msg.action # "failure" /\ msg.body = Nothing
      <4>1. asked = 0
        BY <2>1, <3>1, <3>4 DEF ReplicaInv, SaysAsked
      <4> QED BY <1>1, <2>1, <2>3, <3>4, <4>1 DEF ReadReply, TypeOK
    <3>5. CASE msg.action # "failure" /\ msg.body # Nothing
      <4>1. msg.body.action = "update" /\ msg.body.change = asked
        BY <2>1, <3>1, <3>2, <3>5 DEF ReplicaInv, SaysAsked, StateActions
      <4> QED BY <1>1, <2>1, <2>3, <3>5, <4>1 DEF ReadReply, TypeOK
    <3> QED BY <3>3, <3>4, <3>5
  <2> QED BY <2>2, <2>3
<1>5. ASSUME status # "deleted", NEW i \in DOMAIN wire', wire'[i].kind = "reply",
             wire'[i].action # "failure"
      PROVE  SaysAsked(wire'[i].body, asked')
  BY <1>1, <1>2, <1>5, WireKept
<1> QED BY <1>1, <1>3, <1>4, <1>5 DEF ReplicaInv, Left, SaysAsked

LEMMA ReplicaNext ==
  ASSUME ~ MixesFailure, TypeOK, OneAnswer, ActionInv, ReplicaInv, [Next]_vars
  PROVE  ReplicaInv'
<1> SUFFICES ASSUME Next PROVE ReplicaInv'
  BY DEF vars, streamVars, proxyReplica, history, ReplicaInv, Left, SaysAsked
<1>1. CASE OpenStream \/ LoseStream \/ ReadEnd \/ InitStream
  BY <1>1, ReplicaStream
<1>2. CASE ProtocolError \/ HalfClose \/ FailCommand \/ RefuseCommand
  <2>1. Steady /\ (ended' \/ (ended' = ended /\ ctx' = ctx))
    BY <1>2 DEF ProtocolError, StreamFails, HalfClose, StreamHalfCloses, FailCommand,
                CommandFails, GiveUp, RefuseCommand, CommandRefused
  <2>2. ~ WriteAnswer
    BY <1>2 DEF ProtocolError, StreamFails, HalfClose, StreamHalfCloses, FailCommand,
                CommandFails, RefuseCommand, CommandRefused, CommandSent, CanRead,
                WriteAnswer, AnswerWritten
  <2> QED BY <2>1, <2>2, ReplicaSteady
<1>3. CASE ReceiveCommand
  BY <1>3, ReplicaReceives
<1>4. CASE Remote
  BY <1>4, ReplicaRemote
<1>5. CASE \/ SetState \/ (\E n \in {-1, 1} : Change(n)) \/ DeleteNew \/ Delete
           \/ RecordAction \/ Fail
  BY <1>5, ReplicaRuns
<1>6. CASE \E r \in Results : Settle(r)
  BY <1>6, ReplicaSettles
<1>7. CASE WriteAnswer
  BY <1>7, ReplicaWrites
<1>8. CASE ReadReply \/ ReadFailure
  BY <1>8, ReplicaReads
<1> QED BY <1>1, <1>2, <1>3, <1>4, <1>5, <1>6, <1>7, <1>8 DEF Next, Remote

LEMMA ReplicaInvariant ==
  ASSUME ~ MixesFailure
  PROVE  Spec => [](TypeOK /\ OneAnswer /\ ActionInv /\ ReplicaInv)
<1>1. TypeOK /\ OneAnswer /\ ActionInv /\ ReplicaInv /\ [Next]_vars => ReplicaInv'
  BY ReplicaNext
<1> QED BY <1>1, ReplicaInit, ActionInvariant, PTL DEF Spec

(* AcknowledgedIsReplica, for handlers that do not return a failure after  *)
(* they have changed or deleted the entity.                                *)
THEOREM AcknowledgedTheorem == ASSUME ~ MixesFailure PROVE Spec => []AcknowledgedIsReplica
<1>1. ReplicaInv => AcknowledgedIsReplica
  BY DEF ReplicaInv, AcknowledgedIsReplica
<1> QED BY <1>1, ReplicaInvariant, PTL

----------------------------------------------------------------------------
(* No change is lost or counted twice.                                     *)

Held == IF currentState = Nothing THEN 0 ELSE currentState.value

(* By how much the memory, with the deltas it was not given yet and without *)
(* what is left in the counter, is ahead of the replica.                   *)
Ahead == Held + unread - Left - replica

Live == started /\ ~ ended /\ status # "deleted"

BaseInv ==
  /\ awaiting # 0 => started
  /\ ~ started => inbox = <<>> /\ unread = 0
  /\ started /\ ~ ended => link = "open"
  /\ status = "none" => replica = 0

BalanceInv ==
  Live =>
    /\ ctx.body = Nothing /\ (\A i \in DOMAIN wire : wire[i].body = Nothing) => Ahead = 0
    /\ ctx.body # Nothing /\ ctx.body.action = "update" => Ahead = ctx.body.change
    /\ \A i \in DOMAIN wire :
         wire[i].body # Nothing /\ wire[i].body.action = "update"
           => Ahead = wire[i].body.change

LEMMA BalanceInit == Init => BalanceInv
BY DEF Init, StreamInit, BalanceInv, Live

(* ChangesBalance sums up what is under way. *)
LEMMA BalanceImplies ==
  ASSUME TypeOK, BalanceInv
  PROVE  ChangesBalance
<1> SUFFICES ASSUME Live, \A act \in UnderWay : act.action = "update"
             PROVE  \E n \in IF UnderWay = {} THEN {0} ELSE {act.change : act \in UnderWay} :
                      Ahead = n
  <2>1. replica \in Int /\ unread \in Int /\ currentState \in Counters \cup {Nothing}
    BY DEF TypeOK
  <2> QED BY <2>1 DEF ChangesBalance, Live, Ahead, Held, Left, Counters
<1>1. CASE UnderWay = {}
  <2>1. ctx.body = Nothing /\ \A i \in DOMAIN wire : wire[i].body = Nothing
    BY <1>1 DEF UnderWay
  <2> QED BY <1>1, <2>1 DEF BalanceInv
<1>2. CASE UnderWay # {}
  <2>1. PICK act \in UnderWay : TRUE
    BY <1>2
  <2>2. Ahead = act.change
    BY <2>1 DEF UnderWay, BalanceInv
  <2> QED BY <1>2, <2>1, <2>2
<1> QED BY <1>1, <1>2

LEMMA BaseInit == Init => BaseInv
BY DEF Init, StreamInit, BaseInv

LEMMA BaseNext == TypeOK /\ BaseInv /\ [Next]_vars => BaseInv'
<1> SUFFICES ASSUME TypeOK, BaseInv, [Next]_vars PROVE BaseInv'
  OBVIOUS
<1>1. CASE OpenStream \/ LoseStream \/ ReadEnd
  BY <1>1 DEF OpenStream, LoseStream, ReadEnd, StreamOpens, EndRead, StreamLost, ResetStream,
              Forgets, proxyReplica, BaseInv
<1>2. CASE InitStream
  BY <1>2 DEF InitStream, StreamStarts, CanRead, proxySide, proxyReplica, history, BaseInv
<1>3. CASE \/ ProtocolError \/ HalfClose \/ ReceiveCommand \/ RefuseCommand \/ FailCommand
           \/ WriteAnswer
  <2>1. /\ UNCHANGED <<inbox, unread, status, replica, started>>
        /\ ~ ended' => ~ ended /\ link' = link
        /\ awaiting' # 0 => awaiting # 0 \/ started
    <3>1. CASE ProtocolError \/ HalfClose
      BY <3>1 DEF ProtocolError, StreamFails, HalfClose, StreamHalfCloses, GiveUp, Steady,
                  proxySide, proxyReplica, history
    <3>2. CASE ReceiveCommand
      BY <3>2 DEF ReceiveCommand, CommandReceived, CommandSent, proxyReplica, history
    <3>3. CASE RefuseCommand \/ FailCommand
      BY <3>3 DEF RefuseCommand, CommandRefused, FailCommand, CommandFails, CommandSent,
                  GiveUp, Steady, proxyReplica, history
    <3>4. CASE WriteAnswer
      BY <3>4 DEF WriteAnswer, AnswerWritten, Steady, proxySide, proxyReplica, history
    <3> QED BY <1>3, <3>1, <3>2, <3>3, <3>4
  <2> QED BY <2>1 DEF BaseInv
<1>4. CASE Handler
  BY <1>4, HandlerStep DEF BaseInv, proxySide, proxyReplica
<1>5. CASE (\E n \in {-1, 1} : RemoteChange(n)) \/ RemoteDelete
  BY <1>5 DEF RemoteChange, RemoteDelete, Tells, streamVars, BaseInv
<1>6. CASE ReceiveRemote
  BY <1>6 DEF ReceiveRemote, streamVars, proxyReplica, BaseInv
<1>7. CASE ReadReply \/ ReadFailure
  <2>1. /\ UNCHANGED <<inbox, unread, started, ended, link>> /\ awaiting' \in {0, awaiting}
        /\ status' = "none" => status = "none" /\ replica' = replica
    BY <1>7 DEF ReadReply, ReplyRead, ReadFailure, FailureRead, Steady, proxyReplica, history
  <2> QED BY <2>1 DEF BaseInv
<1>8. CASE UNCHANGED vars
  BY <1>8 DEF vars, streamVars, proxyReplica, history, BaseInv
<1> QED BY <1>1, <1>2, <1>3, <1>4, <1>5, <1>6, <1>7, <1>8 DEF Next, Handler

(* A step that keeps the balance and what is under way. *)
LEMMA BalanceKept ==
  ASSUME TypeOK, BalanceInv, [Next]_vars, ~ WriteAnswer,
         Live' => /\ Live /\ Ahead' = Ahead /\ ctx'.body = ctx.body
                  /\ \A j \in DOMAIN wire :
                       wire[j].body # Nothing => \E i \in DOMAIN wire' : wire'[i] = wire[j]
  PROVE  BalanceInv'
<1>1. \A i \in DOMAIN wire' :
        wire'[i].body # Nothing => \E j \in DOMAIN wire : wire'[i] = wire[j]
  BY RepliesWritten
<1>2. ASSUME Live', ctx'.body = Nothing, \A i \in DOMAIN wire' : wire'[i].body = Nothing
      PROVE  Ahead' = 0
  <2>1. \A j \in DOMAIN wire : wire[j].body = Nothing
    BY <1>2
  <2> QED BY <1>2, <2>1 DEF BalanceInv
<1>3. ASSUME Live', NEW i \in DOMAIN wire', wire'[i].body # Nothing,
             wire'[i].body.action = "update"
      PROVE  Ahead' = wire'[i].body.change
  BY <1>1, <1>3 DEF BalanceInv
<1>4. Live' /\ ctx'.body # Nothing /\ ctx'.body.action = "update"
        => Ahead' = ctx'.body.change
  BY DEF BalanceInv
<1> QED BY <1>2, <1>3, <1>4 DEF BalanceInv

(* Nothing that was on the wire is lost by a write. *)
LEMMA PutKeeps ==
  ASSUME NEW Body, wire \in Seq(MessageOf(Body)), NEW msgs \in Seq(MessageOf(Body)),
         Put(msgs)
  PROVE  \A j \in DOMAIN wire : \E i \in DOMAIN wire' : wire'[i] = wire[j]
<1>1. CASE ended
  BY <1>1 DEF Put
<1>2. CASE ~ ended
  <2>1. wire' = wire \o msgs
    BY <1>2 DEF Put
  <2>2. \A j \in DOMAIN wire : j \in DOMAIN (wire \o msgs) /\ (wire \o msgs)[j] = wire[j]
    OBVIOUS
  <2> QED BY <2>1, <2>2
<1> QED BY <1>1, <1>2

(* The state of memory, in the terms the balance is drawn up in. *)
LEMMA AheadIs ==
  ASSUME TypeOK
  PROVE  /\ Held \in Int /\ Left \in Int /\ unread \in Int /\ replica \in Int
         /\ currentState = Nothing => Held = 0 /\ Left = 0
         /\ currentState # Nothing => Held = currentState.value /\ Left = currentState.delta
BY DEF TypeOK, Held, Left, Counters

LEMMA BalanceStream ==
  ASSUME TypeOK, OneAnswer, ActionInv, BaseInv, BalanceInv, Next,
         \/ OpenStream \/ LoseStream \/ ReadEnd \/ InitStream
         \/ ProtocolError \/ HalfClose \/ FailCommand
  PROVE  BalanceInv'
<1>1. CASE OpenStream \/ LoseStream \/ ReadEnd \/ ProtocolError \/ HalfClose \/ FailCommand
  <2>1. ~ started' \/ ended'
    BY <1>1 DEF OpenStream, LoseStream, ReadEnd, StreamOpens, EndRead, StreamLost,
                ResetStream, ProtocolError, StreamFails, HalfClose, StreamHalfCloses,
                FailCommand, CommandFails, GiveUp
  <2> QED BY <2>1 DEF BalanceInv, Live
<1>2. CASE InitStream
  <2>1. ~ started /\ awaiting = 0 /\ unread = 0 /\ ctx.body = Nothing
    BY <1>2 DEF InitStream, StreamStarts, BaseInv, TypeOK, StreamTypeOK, NoContext
  <2>2. UNCHANGED <<wire, ctx, replica, unread, status>>
    BY <1>2 DEF InitStream, StreamStarts, proxyReplica, history
  <2>3. \A i \in DOMAIN wire' : wire'[i].body = Nothing
    BY <2>1, <2>2, NoReply
  <2>4. Ahead' = 0
    <3>1. CASE status = "exists"
      <4>1. currentState' = Merged(Nothing, replica) /\ replica \in Int
        BY <1>2, <3>1 DEF InitStream, TypeOK
      <4>2. currentState' # Nothing /\ currentState'.delta = 0 /\ currentState'.value = replica
        BY <4>1, MergeKeeps
      <4>3. Held' = replica /\ Left' = 0
        BY <4>2 DEF Held, Left
      <4> QED BY <2>1, <2>2, <4>1, <4>3 DEF Ahead
    <3>2. CASE status # "exists"
      <4>1. currentState' = Nothing /\ replica = 0
        BY <1>2, <3>2 DEF InitStream, BaseInv, TypeOK
      <4> QED BY <2>1, <2>2, <4>1 DEF Ahead, Held, Left
    <3> QED BY <3>1, <3>2
  <2> QED BY <2>1, <2>2, <2>3, <2>4 DEF BalanceInv
<1> QED BY <1>1, <1>2

LEMMA BalanceCommand ==
  ASSUME TypeOK, ActionInv, BalanceInv, Next, ReceiveCommand \/ RefuseCommand
  PROVE  BalanceInv'
<1>1. /\ ~ WriteAnswer /\ ctx'.body = ctx.body
      /\ UNCHANGED <<started, ended, status, replica, unread>>
  <2>1. CASE ReceiveCommand
    <3>1. /\ ctx.pc # "settled" /\ ctx'.body = Nothing
          /\ UNCHANGED <<started, ended, status, replica, unread>>
      BY <2>1 DEF ReceiveCommand, CommandReceived, CommandSent, CanRead, proxyReplica,
                  history, NewContext, NoContext
    <3> QED BY <3>1 DEF WriteAnswer, AnswerWritten, ActionInv
  <2>2. CASE RefuseCommand
    <3>1. /\ ctx.pc # "settled" /\ ctx' = ctx
          /\ UNCHANGED <<started, ended, status, replica, unread>>
      BY <2>2 DEF RefuseCommand, CommandRefused, CommandSent, CanRead, Steady, proxyReplica,
                  history
    <3> QED BY <3>1 DEF WriteAnswer, AnswerWritten
  <2> QED BY <2>1, <2>2
<1>2. Held' = Held /\ Left' = Left
  <2>1. currentState' = currentState \/ (currentState = Nothing /\ currentState' = NewCounter)
    BY DEF ReceiveCommand, RefuseCommand, Steady
  <2> QED BY <2>1 DEF Held, Left, NewCounter
<1>3. \A j \in DOMAIN wire : \E i \in DOMAIN wire' : wire'[i] = wire[j]
  <2>1. CASE ReceiveCommand
    BY <2>1 DEF ReceiveCommand, CommandReceived
  <2>2. CASE RefuseCommand
    <3>1. issued + 1 \in 0 .. MaxCommands /\ wire \in Seq(MessageOf(StateActions))
      BY <2>2, StreamAssumption
         DEF RefuseCommand, CommandRefused, CommandSent, TypeOK, StreamTypeOK
    <3>2. PICK msgs \in Seq(MessageOf(StateActions)) : Put(msgs)
      BY <2>2, <3>1, GiveUpType DEF RefuseCommand, CommandRefused
    <3> QED BY <3>1, <3>2, PutKeeps
  <2> QED BY <2>1, <2>2
<1> QED BY <1>1, <1>2, <1>3, BalanceKept DEF Live, Ahead

LEMMA BalanceRemote ==
  ASSUME TypeOK, ReplicaInv, BaseInv, BalanceInv, Next, Remote
  PROVE  BalanceInv'
<1>1. UNCHANGED <<wire, started, ended, ctx, link>>
  BY RemoteStep DEF Remote, RemoteChange, RemoteDelete, ReceiveRemote, streamVars
<1>2. ~ WriteAnswer
  BY <1>1 DEF WriteAnswer, AnswerWritten, NoContext
<1>3. ASSUME Live' PROVE Live /\ Ahead' = Ahead
  <2>1. started /\ ~ ended /\ link = "open"
    BY <1>1, <1>3 DEF Live, BaseInv
  <2>2. CASE \E n \in {-1, 1} : RemoteChange(n)
    <3>1. PICK n \in {-1, 1} : RemoteChange(n)
      BY <2>2
    <3>2. /\ status # "deleted" /\ replica' = replica + n /\ unread' = unread + n
          /\ currentState' = currentState
      BY <2>1, <3>1 DEF RemoteChange, Tells
    <3>3. Held' = Held /\ Left' = Left
      BY <3>2 DEF Held, Left
    <3>4. n \in Int /\ Held \in Int /\ Left \in Int /\ unread \in Int /\ replica \in Int
      BY AheadIs
    <3> QED BY <2>1, <3>2, <3>3, <3>4 DEF Live, Ahead
  <2>3. CASE RemoteDelete
    BY <1>3, <2>3 DEF RemoteDelete, Live
  <2>4. CASE ReceiveRemote
    <3> DEFINE change == Head(inbox).change
    <3>1. status # "deleted" /\ inbox # <<>> /\ UNCHANGED <<status, replica>>
          /\ unread' = unread - change
      BY <1>3, <2>4 DEF Live, ReceiveRemote, proxyReplica
    <3>2. inbox \in Seq(DeltaIn) /\ \A i \in DOMAIN inbox : inbox[i].kind = "delta"
      BY <3>1 DEF TypeOK, ReplicaInv
    <3>3. Head(inbox).kind = "delta" /\ Head(inbox) \in DeltaIn
      BY <3>1, <3>2
    <3>4. change \in Int /\ currentState \in Counters \cup {Nothing}
      BY <3>3 DEF DeltaIn, TypeOK
    <3>5. currentState' = Merged(currentState, change)
      BY <2>4, <3>3 DEF ReceiveRemote
    <3>6. Held' = Held + change /\ Left' = Left
      BY <3>4, <3>5, MergeKeeps DEF Held, Left
    <3>7. Held \in Int /\ Left \in Int /\ unread \in Int /\ replica \in Int
      BY AheadIs
    <3>8. Ahead' = Ahead
      BY <3>1, <3>4, <3>6, <3>7 DEF Ahead
    <3> QED BY <2>1, <3>1, <3>8 DEF Live
  <2> QED BY <2>2, <2>3, <2>4 DEF Remote
<1> QED BY <1>1, <1>2, <1>3, BalanceKept

(* The handler changes value and delta alike; what DeleteNew gives up was  *)
(* never anything but its own change.                                      *)
LEMMA BalanceRuns ==
  ASSUME ~ DeletesMerged, TypeOK, ActionInv, BalanceInv, Next,
         \/ SetState \/ (\E n \in {-1, 1} : Change(n)) \/ DeleteNew \/ Delete
         \/ RecordAction \/ Fail
  PROVE  BalanceInv'
<1>1. /\ ctx.pc = "running" /\ ctx \in ContextOf({Nothing}, Work, StateActions)
      /\ UNCHANGED <<wire, started, ended, status, replica, unread>>
  <2>1. Handler
    BY DEF Handler
  <2> QED BY <2>1, HandlerStep, WorkType DEF proxyReplica
<1>2. ~ WriteAnswer
  BY <1>1 DEF WriteAnswer, AnswerWritten
<1>3. ctx'.body = ctx.body
  BY <1>1 DEF SetState, Change, DeleteNew, Delete, Handles, RecordAction, HandlerActs, Fail,
              HandlerFails, ContextOf
<1>4. Held' - Left' = Held - Left
  <2>1. CASE SetState
    BY <2>1 DEF SetState, Handles, Held, Left, NewCounter
  <2>2. CASE \E n \in {-1, 1} : Change(n)
    <3>1. PICK n \in {-1, 1} : Change(n)
      BY <2>2
    <3>2. currentState \in Counters /\ n \in Int
      BY <3>1 DEF Change, TypeOK
    <3>3. currentState' \in Counters /\ currentState' = CounterIncrement(currentState, n)
      BY <3>1, <3>2, CounterTypes DEF Change, Handles
    <3>4. currentState' # Nothing /\ currentState # Nothing
      BY <3>2, <3>3, CounterIsSome
    <3>5. Left' = Left + n /\ Held' = Held + n
      BY <3>2, <3>3, <3>4 DEF Held, Left, CounterIncrement, Counters
    <3> QED BY <3>2, <3>5, AheadIs
  <2>3. CASE DeleteNew
    <3>1. Held = Left
      BY <2>3, AheadIs DEF DeleteNew
    <3>2. Held' = 0 /\ Left' = 0
      BY <2>3 DEF DeleteNew, Handles, Held, Left
    <3> QED BY <3>1, <3>2, AheadIs
  <2>4. CASE Delete \/ RecordAction \/ Fail
    BY <2>4 DEF Delete, Handles, RecordAction, Fail, Steady, Held, Left
  <2> QED BY <2>1, <2>2, <2>3, <2>4
<1>5. Ahead' = Ahead
  <2>1. Held' \in Int /\ Left' \in Int
    <3>1. TypeOK'
      BY TypeNext
    <3> QED BY <3>1 DEF TypeOK, Held, Left, Counters
  <2> QED BY <1>1, <1>4, <2>1, AheadIs DEF Ahead
<1> QED BY <1>1, <1>2, <1>3, <1>5, BalanceKept DEF Live

(* What the state action takes from the counter goes under way. *)
LEMMA BalanceSettles ==
  ASSUME TypeOK, OneAnswer, ActionInv, BalanceInv, NEW r \in Results, Settle(r)
  PROVE  BalanceInv'
<1>1. /\ ctx.pc = "running" /\ ctx \in ContextOf({Nothing}, Work, StateActions)
      /\ ctx.work \in Work
      /\ UNCHANGED <<wire, started, ended, status, replica, unread>>
  <2>1. Handler
    BY DEF Handler
  <2> QED BY <2>1, HandlerStep, WorkType DEF proxyReplica
<1>2. ctx.body = Nothing /\ \A i \in DOMAIN wire' : wire'[i].body = Nothing
  BY <1>1, NoReply DEF ActionInv
<1>3. ASSUME Live' PROVE Ahead = 0
  BY <1>1, <1>2, <1>3 DEF BalanceInv, Live
<1>4. CASE r.kind = "throw"
  <2>1. ctx'.body = Nothing /\ currentState' = currentState
    BY <1>1, <1>4 DEF Settle, HandlerSettles, ContextOf
  <2>2. Ahead' = Ahead
    BY <1>1, <2>1 DEF Ahead, Held, Left
  <2> QED BY <1>2, <1>3, <2>1, <2>2 DEF BalanceInv
<1>5. CASE r.kind # "throw"
  <2>1. ctx'.body = StateAction(ctx.work) /\ currentState' = StateLeft(ctx.work)
    BY <1>1, <1>5 DEF Settle, HandlerSettles, ContextOf
  <2>2. CASE ctx.work.deleted
    <3>1. ctx'.body = [action |-> "delete", change |-> 0]
      BY <2>1, <2>2 DEF StateAction
    <3>2. ctx'.body # Nothing /\ ctx'.body.action # "update"
      <4>1. DOMAIN ctx'.body = {"action", "change"} /\ DOMAIN Nothing = {"none"}
        BY <3>1 DEF Nothing
      <4> QED BY <3>1, <4>1
    <3> QED BY <1>2, <3>2 DEF BalanceInv
  <2>3. CASE ~ ctx.work.deleted
    <3>1. Held' = Held /\ Left' = 0
      <4>1. CASE currentState = Nothing
        BY <2>1, <2>3, <4>1 DEF StateLeft, Held, Left
      <4>2. CASE currentState # Nothing
        <5>1. currentState \in Counters
          BY <4>2 DEF TypeOK
        <5>2. currentState' = CounterReset(currentState) /\ currentState' \in Counters
          <6>1. currentState' = CounterReset(currentState)
            BY <2>1, <2>3, <4>2 DEF StateLeft
          <6>2. 0 \in Int
            OBVIOUS
          <6> QED BY <5>1, <6>1, <6>2, CounterTypes
        <5>3. currentState' # Nothing
          BY <5>2, CounterIsSome
        <5> QED BY <4>2, <5>1, <5>2, <5>3 DEF Held, Left, CounterReset, Counters
      <4> QED BY <4>1, <4>2
    <3>2. ASSUME Live' PROVE Ahead' = Left
      BY <1>1, <1>3, <3>1, <3>2, AheadIs DEF Ahead
    <3>3. \/ ctx'.body = Nothing /\ Left = 0
          \/ ctx'.body # Nothing /\ ctx'.body.change = Left
      <4>1. CASE currentState = Nothing \/ currentState.delta = 0
        BY <2>1, <2>3, <4>1 DEF StateAction, CounterChanged, Left
      <4>2. CASE currentState # Nothing /\ currentState.delta # 0
        <5>1. ctx'.body = [action |-> "update", change |-> Left]
          BY <2>1, <2>3, <4>2 DEF StateAction, CounterChanged, CounterDelta, Left
        <5>2. DOMAIN ctx'.body = {"action", "change"} /\ DOMAIN Nothing = {"none"}
          BY <5>1 DEF Nothing
        <5> QED BY <5>1, <5>2
      <4> QED BY <4>1, <4>2
    <3> QED BY <1>2, <3>2, <3>3 DEF BalanceInv
  <2> QED BY <2>2, <2>3
<1> QED BY <1>4, <1>5

(* The state action of an answer stays under way, that of a failure was    *)
(* none.                                                                   *)
LEMMA BalanceWrites ==
  ASSUME TypeOK, OneAnswer, ActionInv, ReplicaInv, BalanceInv, WriteAnswer
  PROVE  BalanceInv'
<1>1. /\ ctx.pc = "settled" /\ ctx' = NoContext /\ ended' = (ended \/ EndsStream(ctx))
      /\ UNCHANGED <<started, status, replica, unread, currentState>>
  BY DEF WriteAnswer, AnswerWritten, Steady, proxyReplica, history
<1>2. \A i \in DOMAIN wire : wire[i].kind # "reply" /\ wire[i].body = Nothing
  BY <1>1, NoReply
<1>3. ctx'.body = Nothing
  BY <1>1 DEF NoContext
<1> SUFFICES ASSUME Live' PROVE BalanceInv'
  BY DEF BalanceInv
<1>4. Live /\ ~ EndsStream(ctx) /\ Ahead' = Ahead
  BY <1>1 DEF Live, Ahead, Held, Left
<1>5. ASSUME NEW i \in DOMAIN wire', wire'[i].body # Nothing
      PROVE  wire'[i].body = ctx.body
  <2>1. ~ \E j \in DOMAIN wire : wire'[i] = wire[j]
    BY <1>2, <1>5
  <2>2. wire'[i] = Answer(ctx)[1]
    BY <1>5, <2>1, RepliesWritten DEF Next
  <2> QED BY <1>4, <1>5, <2>2, AnswerIsReply
<1>6. ASSUME \A i \in DOMAIN wire' : wire'[i].body = Nothing
      PROVE  Ahead' = 0
  <2>1. ctx.body = Nothing
    <3>1. CASE AnswersFailure(ctx)
      BY <1>1, <1>4, <3>1 DEF ReplicaInv, Live
    <3>2. CASE ~ AnswersFailure(ctx)
      <4>1. 1 \in DOMAIN Answer(ctx) /\ Answer(ctx)[1].body = ctx.body
        BY <1>4, <3>2 DEF Answer, Message
      <4>2. PICK answer \in Seq(MessageOf(StateActions)) : answer = Answer(ctx)
        BY <1>1, WorkType, AnswerType
      <4>3. wire' = wire \o answer /\ wire \in Seq(MessageOf(StateActions))
        BY <1>4, <4>2 DEF WriteAnswer, AnswerWritten, Put, Live, TypeOK, StreamTypeOK
      <4>4. Len(wire) + 1 \in DOMAIN wire' /\ wire'[Len(wire) + 1] = answer[1]
        BY <4>1, <4>2, <4>3, ConcatAt
      <4> QED BY <1>6, <4>1, <4>2, <4>4
    <3> QED BY <3>1, <3>2
  <2> QED BY <1>2, <1>4, <2>1 DEF BalanceInv
<1>7. ASSUME NEW i \in DOMAIN wire', wire'[i].body # Nothing,
             wire'[i].body.action = "update"
      PROVE  Ahead' = wire'[i].body.change
  BY <1>4, <1>5, <1>7 DEF BalanceInv
<1> QED BY <1>3, <1>6, <1>7 DEF BalanceInv

(* The state action of a reply moves into the replica. *)
LEMMA BalanceReads ==
  ASSUME TypeOK, OneAnswer, ActionInv, BalanceInv, Next, ReadReply \/ ReadFailure
  PROVE  BalanceInv'
<1>1. /\ UNCHANGED <<started, ended, ctx, currentState, unread>> /\ link # "down"
      /\ wire # <<>> /\ wire' = Tail(wire)
  BY DEF ReadReply, ReplyRead, ReadFailure, FailureRead, Reads, Steady, history
<1>2. wire \in Seq(MessageOf(StateActions)) /\ 1 \in DOMAIN wire /\ Head(wire) = wire[1]
  BY <1>1 DEF TypeOK, StreamTypeOK
<1>3. \A j \in DOMAIN wire : j # 1 => \E i \in DOMAIN wire' : wire'[i] = wire[j]
  <2>1. \A j \in DOMAIN wire : j # 1 => j - 1 \in DOMAIN wire' /\ wire'[j - 1] = wire[j]
    BY <1>1, <1>2
  <2> QED BY <2>1
<1>4. ~ WriteAnswer
  BY <1>1 DEF WriteAnswer, AnswerWritten, NoContext
<1>5. Held' = Held /\ Left' = Left
  BY <1>1 DEF Held, Left
<1>6. Live' => Live
  BY <1>1 DEF Live, ReadReply, ReadFailure, Steady, proxyReplica
<1>7. CASE Head(wire).body = Nothing
  <2>1. replica' = replica
    BY <1>7 DEF ReadReply, ReadFailure, Steady, proxyReplica
  <2>2. Ahead' = Ahead
    BY <1>1, <1>5, <2>1 DEF Ahead
  <2> QED BY <1>1, <1>2, <1>3, <1>4, <1>6, <1>7, <2>2, BalanceKept
<1>8. CASE Head(wire).body # Nothing
  <2>1. ReadReply /\ Head(wire).id # 0 /\ ctx.pc = "none"
    BY <1>2, <1>8 DEF ActionInv, OneAnswer, ReadFailure, FailureRead, Reads
  <2>2. ctx'.body = Nothing
    BY <1>1, <2>1 DEF ActionInv
  <2>3. \A i \in DOMAIN wire' : wire'[i].body = Nothing
    <3>1. \A j \in DOMAIN wire : j # 1 => wire[j].body = Nothing
      BY <1>2, <2>1 DEF OneAnswer, ActionInv
    <3> QED BY <1>1, <1>2, <3>1, ReadMessages
  <2>4. ASSUME Live' PROVE Ahead' = 0
    <3>1. Head(wire).body \in StateActions
      BY <1>1, <1>2, <1>8, ReadType DEF MessageOf
    <3>2. /\ Head(wire).body.action = "update" /\ Head(wire).body.change \in Int
          /\ replica' = replica + Head(wire).body.change
      BY <1>8, <2>1, <2>4, <3>1 DEF ReadReply, Live, StateActions
    <3>3. Ahead = Head(wire).body.change
      BY <1>2, <1>6, <1>8, <2>4, <3>2 DEF BalanceInv
    <3> QED BY <1>1, <1>5, <3>2, <3>3, AheadIs DEF Ahead
  <2> QED BY <2>2, <2>3, <2>4 DEF BalanceInv
<1> QED BY <1>7, <1>8

LEMMA BalanceNext ==
  ASSUME ~ DeletesMerged, TypeOK, OneAnswer, ActionInv, ReplicaInv, BaseInv, BalanceInv,
         [Next]_vars
  PROVE  BalanceInv'
<1>1. CASE \/ OpenStream \/ LoseStream \/ ReadEnd \/ InitStream
           \/ ProtocolError \/ HalfClose \/ FailCommand
  BY <1>1, BalanceStream DEF Next
<1>2. CASE ReceiveCommand \/ RefuseCommand
  BY <1>2, BalanceCommand DEF Next
<1>3. CASE Remote
  BY <1>3, BalanceRemote DEF Next, Remote
<1>4. CASE \/ SetState \/ (\E n \in {-1, 1} : Change(n)) \/ DeleteNew \/ Delete
           \/ RecordAction \/ Fail
  BY <1>4, BalanceRuns DEF Next
<1>5. CASE \E r \in Results : Settle(r)
  BY <1>5, BalanceSettles
<1>6. CASE WriteAnswer
  BY <1>6, BalanceWrites
<1>7. CASE ReadReply \/ ReadFailure
  BY <1>7, BalanceReads DEF Next
<1>8. CASE UNCHANGED vars
  BY <1>8 DEF vars, streamVars, proxyReplica, history, BalanceInv, Live, Ahead, Held, Left
<1> QED BY <1>1, <1>2, <1>3, <1>4, <1>5, <1>6, <1>7, <1>8 DEF Next, Remote

(* ChangesBalance, for handlers that neither return a failure after they   *)
(* have changed or deleted the entity nor delete what was merged into it.  *)
THEOREM BalanceTheorem ==
  ASSUME ~ MixesFailure, ~ DeletesMerged
  PROVE  Spec => []ChangesBalance
<1> DEFINE Inv == TypeOK /\ OneAnswer /\ ActionInv /\ ReplicaInv
<1>1. Inv /\ BaseInv /\ BalanceInv /\ [Next]_vars => BaseInv' /\ BalanceInv'
  BY BaseNext, BalanceNext
<1>2. Spec => []Inv
  BY ReplicaInvariant
<1>3. Inv /\ BalanceInv => ChangesBalance
  BY BalanceImplies
<1> QED BY <1>1, <1>2, <1>3, BaseInit, BalanceInit, PTL DEF Spec
=============================================================================
