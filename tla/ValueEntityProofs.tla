-------------------------- MODULE ValueEntityProofs -------------------------
(***************************************************************************)
(* Theorems about ValueEntity, for every set of states, every number of    *)
(* commands and streams, and, but for the memory, any handler.             *)
(***************************************************************************)
EXTENDS ValueEntity, EntityStreamProofs

----------------------------------------------------------------------------
(* Type correctness.                                                       *)

LEMMA TypeInit == Init => TypeOK
BY StreamInitType DEF Init, TypeOK, Stored

LEMMA WorkType ==
  ASSUME TypeOK, ctx.pc # "none"
  PROVE  ctx \in ContextOf(Values, Work, StateActions) /\ ctx.work \in Work
BY RunningContext DEF TypeOK, ContextOf

LEMMA EnsureType ==
  ASSUME NEW st \in Stored
  PROVE  Ensure(st) \in Values /\ Ensure(Ensure(st)) = Ensure(st)
BY ValueAssumption DEF Ensure, Stored

LEMMA StateActionType ==
  ASSUME NEW work \in Work, NEW st \in Stored
  PROVE  /\ StateAction(work) \in StateActions
         /\ MemoryAfter(StateAction(work), st) \in Stored
<1>1. StateAction(work) \in StateActions
  BY DEF StateAction, StateActions, Work, Stored
<1> QED BY <1>1 DEF MemoryAfter, StateActions

(* A step of the handler that records its work. *)
LEMMA RecordsType ==
  ASSUME TypeOK, NEW work \in Work, Records(work)
  PROVE  TypeOK'
<1>1. ctx \in ContextOf(Values, Work, StateActions) /\ started
  BY RunningContext DEF TypeOK, Records, MayContinue
<1>2. ctx' \in ContextOf(Values, Work, StateActions)
  BY <1>1 DEF Records, ContextOf
<1>3. UNCHANGED <<proxySide, wire, started, ended, entityVars>>
  BY DEF Records
<1> QED BY <1>1, <1>2, <1>3 DEF TypeOK, StreamTypeOK, proxySide, entityVars

(* The handler's steps record a work. *)
LEMMA HandlerRecords ==
  ASSUME TypeOK, (\E v \in Values : UpdateState(v)) \/ UpdateThrows \/ DeleteState
  PROVE  \E work \in Work : Records(work)
<1>1. ctx.work \in Work
  BY WorkType DEF UpdateState, UpdateThrows, DeleteState, Records, MayContinue
<1>2. CASE \E v \in Values : UpdateState(v)
  BY <1>2 DEF UpdateState, Work, Stored
<1>3. CASE UpdateThrows \/ DeleteState
  BY <1>1, <1>3 DEF UpdateThrows, DeleteState, Work
<1> QED BY <1>2, <1>3

(* What one settling of the handler does. *)
LEMMA SettleCases ==
  ASSUME TypeOK, NEW r \in Results, Settle(r)
  PROVE  \/ r.kind = "throw" /\ HandlerSettles(r, r, Nothing) /\ UNCHANGED entityVars
         \/ /\ r.kind # "throw"
            /\ (ctx.error \/ IsFailure(r)) /\ StateAction(ctx.work).action # "none"
                 => MixesFailure
            /\ HandlerSettles(r, r, StateAction(ctx.work))
            /\ anyState' = MemoryAfter(StateAction(ctx.work), anyState) /\ durable' = durable
BY DEF Settle, entityVars

LEMMA SettleType ==
  ASSUME TypeOK, NEW r \in Results, Settle(r)
  PROVE  TypeOK'
<1>1. ctx.work \in Work
  BY WorkType DEF Settle
<1>2. CASE HandlerSettles(r, r, Nothing) /\ UNCHANGED entityVars
  BY <1>2, HandlerSettlesType DEF TypeOK, entityVars
<1>3. CASE /\ HandlerSettles(r, r, StateAction(ctx.work))
           /\ anyState' = MemoryAfter(StateAction(ctx.work), anyState) /\ durable' = durable
  BY <1>1, <1>3, HandlerSettlesType, StateActionType DEF TypeOK
<1> QED BY <1>2, <1>3, SettleCases

LEMMA ReadReplyType ==
  ASSUME TypeOK, ReadReply
  PROVE  TypeOK'
<1>1. StreamTypeOK(Values, Work, StateActions)'
  BY ReplyReadType DEF TypeOK, ReadReply
<1>2. Head(wire) \in MessageOf(StateActions)
  BY ReadType DEF TypeOK, StreamTypeOK, ReadReply, ReplyRead, Reads
<1>3. durable' \in Stored
  BY <1>2 DEF TypeOK, ReadReply, MessageOf, StateActions, Persisted
<1> QED BY <1>1, <1>3 DEF TypeOK, ReadReply

LEMMA TypeNext == TypeOK /\ [Next]_vars => TypeOK'
<1> SUFFICES ASSUME TypeOK, [Next]_vars PROVE TypeOK'
  OBVIOUS
<1>1. CASE OpenStream \/ LoseStream \/ ReadEnd
  BY <1>1, ResetType DEF TypeOK, OpenStream, LoseStream, ReadEnd, Stored
<1>2. CASE InitStream
  BY <1>2, StreamStartsType DEF TypeOK, InitStream
<1>3. CASE ProtocolError \/ HalfClose
  BY <1>3, StreamFailsType, StreamHalfClosesType DEF TypeOK, ProtocolError, HalfClose, entityVars
<1>4. CASE ReceiveCommand
  <2>1. NoWork \in Work /\ Ensure(anyState) \in Values
    BY EnsureType DEF NoWork, Work, Stored, TypeOK
  <2> QED BY <1>4, <2>1, CommandReceivedType DEF TypeOK, ReceiveCommand, Stored
<1>5. CASE RefuseCommand \/ FailCommand
  BY <1>5, CommandRefusedType, EnsureType
     DEF TypeOK, RefuseCommand, FailCommand, Stored, entityVars
<1>6. CASE (\E v \in Values : UpdateState(v)) \/ UpdateThrows \/ DeleteState
  BY <1>6, HandlerRecords, RecordsType
<1>7. CASE RecordAction \/ Fail
  BY <1>7, HandlerActsType DEF TypeOK, RecordAction, Fail, entityVars
<1>8. CASE \E r \in Results : Settle(r)
  BY <1>8, SettleType
<1>9. CASE WriteAnswer
  BY <1>9, WorkType, AnswerWrittenType DEF TypeOK, WriteAnswer, AnswerWritten, entityVars
<1>10. CASE ReadReply
  BY <1>10, ReadReplyType
<1>11. CASE ReadFailure
  BY <1>11, ReplyReadType DEF TypeOK, ReadFailure, entityVars
<1>12. CASE UNCHANGED vars
  BY <1>12 DEF vars, streamVars, entityVars, TypeOK, StreamTypeOK
<1> QED
  BY <1>1, <1>2, <1>3, <1>4, <1>5, <1>6, <1>7, <1>8, <1>9, <1>10, <1>11, <1>12 DEF Next

(* Every variable of the value entity and its stream keeps its type.       *)
THEOREM TypeCorrect == Spec => []TypeOK
BY TypeInit, TypeNext, PTL DEF Spec

----------------------------------------------------------------------------
(* Every command is answered at most once.                                 *)

(* The steps of a handler, which write nothing. *)
LEMMA HandlerStep ==
  ASSUME TypeOK,
         \/ (\E v \in Values : UpdateState(v)) \/ UpdateThrows \/ DeleteState
         \/ RecordAction \/ Fail \/ \E r \in Results : Settle(r)
  PROVE  /\ ctx.pc = "running" /\ ctx'.pc # "none"
         /\ ctx'.id = ctx.id /\ ctx'.saw = ctx.saw
         /\ UNCHANGED <<proxySide, wire, started, ended, durable>>
<1>1. ctx.pc = "running"
  BY DEF UpdateState, UpdateThrows, DeleteState, Records, RecordAction, HandlerActs, Fail,
         HandlerFails, MayContinue, Settle
<1>2. ctx \in ContextOf(Values, Work, StateActions)
  BY <1>1, WorkType
<1>3. CASE \E work \in Work : Records(work)
  BY <1>1, <1>2, <1>3 DEF Records, ContextOf, entityVars
<1>4. CASE RecordAction \/ Fail
  BY <1>1, <1>2, <1>4 DEF RecordAction, HandlerActs, Fail, HandlerFails, ContextOf, entityVars
<1>5. CASE \E r \in Results : Settle(r)
  <2>1. PICK r \in Results : Settle(r)
    BY <1>5
  <2>2. /\ \E body : HandlerSettles(r, r, body)
        /\ durable' = durable
    BY <2>1, SettleCases DEF entityVars
  <2> QED BY <1>1, <1>2, <2>2 DEF HandlerSettles, ContextOf
<1> QED BY <1>3, <1>4, <1>5, HandlerRecords

LEMMA OneAnswerNext == TypeOK /\ OneAnswer /\ [Next]_vars => OneAnswer'
<1> SUFFICES ASSUME TypeOK, OneAnswer, [Next]_vars PROVE OneAnswer'
  OBVIOUS
<1>0. /\ wire \in Seq(MessageOf(StateActions))
      /\ StreamTypeOK(Values, Work, StateActions)
  BY DEF TypeOK, StreamTypeOK
<1>1. CASE OpenStream \/ LoseStream \/ ReadEnd
  BY <1>0, <1>1, OneAnswerReset DEF OpenStream, LoseStream, ReadEnd
<1>2. CASE InitStream \/ UNCHANGED vars
  BY <1>2 DEF InitStream, StreamStarts, proxySide, vars, streamVars, OneAnswer
<1>3. CASE \/ (\E v \in Values : UpdateState(v)) \/ UpdateThrows \/ DeleteState
           \/ RecordAction \/ Fail \/ \E r \in Results : Settle(r)
  BY <1>3, HandlerStep DEF OneAnswer, proxySide
<1>4. CASE ProtocolError \/ HalfClose
  <2>1. UNCHANGED <<outcome, issued, awaiting, ctx>> /\ link' # "down"
    BY <1>4 DEF ProtocolError, StreamFails, HalfClose, StreamHalfCloses, proxySide, CanRead
  <2>2. GiveUp(0) \/ Put(<<End>>)
    BY <1>4 DEF ProtocolError, HalfClose, StreamFails, StreamHalfCloses
  <2> QED BY <1>0, <2>1, <2>2, OneAnswerGivesUp
<1>5. CASE ReceiveCommand
  BY <1>0, <1>5, OneAnswerReceived DEF ReceiveCommand
<1>6. CASE RefuseCommand \/ FailCommand
  BY <1>0, <1>6, OneAnswerRefused DEF RefuseCommand, FailCommand
<1>7. CASE WriteAnswer
  BY <1>0, <1>7, WorkType, OneAnswerWritten DEF WriteAnswer, AnswerWritten
<1>8. CASE ReadReply \/ ReadFailure
  <2>1. wire # <<>> /\ wire' = Tail(wire) /\ UNCHANGED <<issued, link, ctx>>
        /\ Head(wire) = wire[1] /\ 1 \in DOMAIN wire
    BY <1>0, <1>8 DEF ReadReply, ReadFailure, ReplyRead, FailureRead, Reads
  <2>2. CASE ReadReply
    <3>1. Head(wire).id # 0
      BY <2>1, <2>2 DEF OneAnswer, ReadReply, ReplyRead, Reads
    <3> QED BY <1>0, <2>1, <2>2, <3>1, OneAnswerRead DEF ReadReply, ReplyRead
  <2>3. CASE ReadFailure
    BY <1>0, <2>1, <2>3, OneAnswerRead DEF ReadFailure, FailureRead
  <2> QED BY <1>8, <2>2, <2>3
<1> QED BY <1>1, <1>2, <1>3, <1>4, <1>5, <1>6, <1>7, <1>8 DEF Next

LEMMA AnswerInvariant == Spec => [](TypeOK /\ OneAnswer)
<1>1. Init => TypeOK /\ OneAnswer
  BY TypeInit, OneAnswerInit DEF Init
<1>2. TypeOK /\ OneAnswer /\ [Next]_vars => (TypeOK /\ OneAnswer)'
  BY TypeNext, OneAnswerNext
<1> QED BY <1>1, <1>2, PTL DEF Spec

(* OneAnswer, for every handler.                                           *)
THEOREM AnswersOnce == Spec => []OneAnswer
BY AnswerInvariant, PTL

----------------------------------------------------------------------------
(* The entity implements the atomic register.                              *)

(* A reply with a state action is not a failure.                           *)
ActionInv ==
  \A i \in DOMAIN wire :
    wire[i].kind = "reply" /\ wire[i].body # Nothing => wire[i].action # "failure"

(* A reply on the wire was there before, or it is the answer just written. *)
LEMMA RepliesWritten ==
  ASSUME TypeOK, [Next]_vars, NEW i \in DOMAIN wire', wire'[i].kind = "reply"
  PROVE  \/ \E j \in DOMAIN wire : wire'[i] = wire[j]
         \/ /\ WriteAnswer /\ ~ ended /\ ~ EndsStream(ctx)
            /\ wire'[i] = Answer(ctx)[1]
<1>0. wire \in Seq(MessageOf(StateActions)) /\ issued \in Nat /\ 0 \in 0 .. MaxCommands
  BY StreamAssumption DEF TypeOK, StreamTypeOK
<1>1. CASE OpenStream \/ LoseStream \/ ReadEnd
  BY <1>1 DEF OpenStream, LoseStream, ReadEnd, StreamOpens, EndRead, StreamLost, ResetStream
<1>2. CASE InitStream \/ ReceiveCommand \/ UNCHANGED vars
  BY <1>2 DEF InitStream, StreamStarts, ReceiveCommand, CommandReceived, vars, streamVars
<1>3. CASE \/ (\E v \in Values : UpdateState(v)) \/ UpdateThrows \/ DeleteState
           \/ RecordAction \/ Fail \/ \E r \in Results : Settle(r)
  BY <1>3, HandlerStep
<1>4. CASE ProtocolError \/ HalfClose
  <2>1. Put(<<Failure(0), End>>) \/ Put(<<End>>)
    BY <1>4 DEF ProtocolError, HalfClose, StreamFails, StreamHalfCloses, GiveUp
  <2> QED BY <1>0, <2>1, FailuresPut DEF Failures
<1>5. CASE RefuseCommand \/ FailCommand
  <2>1. issued + 1 \in 0 .. MaxCommands
    BY <1>0, <1>5, StreamAssumption
       DEF RefuseCommand, FailCommand, CommandRefused, CommandFails, CommandSent
  <2>2. Put(<<Failure(issued + 1)>>) \/ Put(<<Failure(issued + 1), End>>)
    BY <1>5 DEF RefuseCommand, FailCommand, CommandRefused, CommandFails, GiveUp
  <2> QED BY <1>0, <2>1, <2>2, FailuresPut DEF Failures
<1>6. CASE WriteAnswer
  BY <1>0, <1>6, WorkType, AnswerPut DEF WriteAnswer, AnswerWritten
<1>7. CASE ReadReply \/ ReadFailure
  BY <1>0, <1>7, ReadMessages DEF ReadReply, ReadFailure, ReplyRead, FailureRead, Reads
<1> QED BY <1>1, <1>2, <1>3, <1>4, <1>5, <1>6, <1>7 DEF Next

LEMMA ActionNext ==
  ASSUME TypeOK, ActionInv, [Next]_vars
  PROVE  ActionInv'
BY RepliesWritten, AnswerIsReply DEF ActionInv

LEMMA RefineInit == Init => Abstract!RInit
BY DEF Init, StreamInit, Abstract!RInit, Stored

(* Reading an answer decides its command; every other step is one that the *)
(* register does not see.                                                  *)
LEMMA RefineNext ==
  ASSUME TypeOK, OneAnswer, ActionInv, [Next]_vars
  PROVE  [Abstract!RNext]_Abstract!rvars
<1> SUFFICES Abstract!RNext \/ UNCHANGED <<durable, outcome>>
  BY DEF Abstract!rvars
<1> DEFINE msg == Head(wire)
<1>1. CASE ReadReply \/ ReadFailure
  <2>1. 1 \in DOMAIN wire /\ msg = wire[1] /\ durable' \in Stored
    BY <1>1, ReadReplyType
       DEF ReadReply, ReplyRead, ReadFailure, FailureRead, Reads, TypeOK, StreamTypeOK, entityVars
  <2>2. msg.id # 0 => msg.id \in Commands /\ outcome[msg.id] = "pending"
    <3>1. msg.id # 0 => msg.id = awaiting /\ awaiting \in 0 .. issued /\ issued \in 0 .. MaxCommands
      BY <2>1 DEF OneAnswer, TypeOK, StreamTypeOK
    <3> QED BY <3>1, StreamAssumption DEF OneAnswer, Commands
  <2>3. CASE ReadReply
    <3>1. msg.id # 0 /\ msg.kind = "reply"
      BY <2>1, <2>3 DEF OneAnswer, ReadReply, ReplyRead, Reads
    <3>2. CASE msg.action = "failure"
      <4>1. msg.body = Nothing
        BY <2>1, <3>1, <3>2 DEF ActionInv
      <4>2. Abstract!Reject(msg.id)
        BY <2>2, <2>3, <3>1, <3>2, <4>1 DEF ReadReply, ReplyRead, Abstract!Reject
      <4> QED BY <2>2, <3>1, <4>2 DEF Abstract!RNext
    <3>3. CASE msg.action # "failure"
      <4>1. Abstract!Execute(msg.id)
        BY <2>1, <2>2, <2>3, <3>1, <3>3 DEF ReadReply, ReplyRead, Abstract!Execute
      <4> QED BY <2>2, <3>1, <4>1 DEF Abstract!RNext
    <3> QED BY <3>2, <3>3
  <2>4. CASE ReadFailure /\ msg.id = 0
    BY <2>4 DEF ReadFailure, FailureRead, entityVars
  <2>5. CASE ReadFailure /\ msg.id # 0
    <3>1. Abstract!Reject(msg.id)
      BY <2>2, <2>5 DEF ReadFailure, FailureRead, entityVars, Abstract!Reject
    <3> QED BY <2>2, <2>5, <3>1 DEF Abstract!RNext
  <2> QED BY <1>1, <2>3, <2>4, <2>5
<1>2. CASE OpenStream \/ LoseStream \/ ReadEnd
  BY <1>2 DEF OpenStream, LoseStream, ReadEnd, StreamOpens, EndRead, StreamLost
<1>3. CASE InitStream \/ ProtocolError \/ HalfClose \/ WriteAnswer
  BY <1>3 DEF InitStream, StreamStarts, ProtocolError, StreamFails, HalfClose,
              StreamHalfCloses, WriteAnswer, AnswerWritten, proxySide, entityVars
<1>4. CASE ReceiveCommand \/ RefuseCommand \/ FailCommand
  BY <1>4 DEF ReceiveCommand, CommandReceived, RefuseCommand, CommandRefused, FailCommand,
              CommandFails, CommandSent, entityVars
<1>5. CASE \/ (\E v \in Values : UpdateState(v)) \/ UpdateThrows \/ DeleteState
           \/ RecordAction \/ Fail \/ \E r \in Results : Settle(r)
  BY <1>5, HandlerStep DEF proxySide
<1>6. CASE UNCHANGED vars
  BY <1>6 DEF vars, streamVars, entityVars
<1> QED BY <1>1, <1>2, <1>3, <1>4, <1>5, <1>6 DEF Next

(* ImplementsRegister: whatever the handlers do, only a command answered   *)
(* with success changes the persisted state, together with its answer.     *)
THEOREM RegisterRefinement == Spec => ImplementsRegister
<1> DEFINE Inv == TypeOK /\ OneAnswer /\ ActionInv
<1>1. Init => Inv
  <2>1. Init => ActionInv
    BY DEF Init, ActionInv, StreamInit
  <2> QED BY <2>1, TypeInit, OneAnswerInit DEF Init
<1>2. Inv /\ [Next]_vars => Inv'
  BY TypeNext, OneAnswerNext, ActionNext
<1>3. Inv /\ [Next]_vars => [Abstract!RNext]_Abstract!rvars
  BY RefineNext
<1> QED BY <1>1, <1>2, <1>3, RefineInit, PTL DEF Spec, ImplementsRegister, Abstract!RSpec

----------------------------------------------------------------------------
(* The memory is the persisted state.                                      *)

(* The persisted state once the proxy has read a reply with this body. *)
AfterReply(body, st) == IF body = Nothing THEN st ELSE Persisted(body, st)

(* Between the settling of a command and the reading of its reply the      *)
(* memory is ahead by the state action of the reply; when the command is   *)
(* answered with a failure it is not ahead at all.                         *)
MemoryInv ==
  /\ MemoryIsStored
  /\ HandlerSeesStored
  /\ awaiting # 0 => started
  /\ ctx.pc = "settled" /\ ~ ended =>
       /\ AnswersFailure(ctx) => Ensure(anyState) = Ensure(durable)
       /\ ~ AnswersFailure(ctx) /\ ~ EndsStream(ctx)
            => Ensure(anyState) = Ensure(AfterReply(ctx.body, durable))
  /\ \A i \in DOMAIN wire :
       wire[i].kind = "reply" /\ ~ ended
         => Ensure(anyState) = Ensure(AfterReply(wire[i].body, durable))

LEMMA MemoryInit == Init => MemoryInv
BY DEF Init, StreamInit, NoContext, MemoryInv, MemoryIsStored, HandlerSeesStored

(* While a command runs or is settled, and when none is awaited, no reply  *)
(* is on the wire.                                                         *)
LEMMA NoReply ==
  ASSUME TypeOK, OneAnswer, ctx.pc # "none" \/ awaiting = 0
  PROVE  \A i \in DOMAIN wire : wire[i].kind # "reply"
BY DEF OneAnswer

LEMMA MemoryReset ==
  ASSUME TypeOK, MemoryInv, OpenStream \/ LoseStream \/ ReadEnd
  PROVE  MemoryInv'
<1>1. started' = FALSE /\ awaiting' = 0 /\ wire' = <<>> /\ ctx' = NoContext
  BY DEF OpenStream, LoseStream, ReadEnd, StreamOpens, EndRead, StreamLost, ResetStream
<1> QED BY <1>1 DEF MemoryInv, MemoryIsStored, HandlerSeesStored, NoContext

(* Nothing is said of a stream that the service has ended. *)
LEMMA MemoryEnded ==
  ASSUME MemoryInv, ended' = TRUE, awaiting' # 0 => started'
  PROVE  MemoryInv'
BY DEF MemoryInv, MemoryIsStored, HandlerSeesStored

LEMMA MemoryStarts ==
  ASSUME TypeOK, OneAnswer, MemoryInv, InitStream
  PROVE  MemoryInv'
<1>1. ~ started /\ ctx.pc = "none" /\ awaiting = 0
  BY DEF InitStream, StreamStarts, TypeOK, StreamTypeOK, NoContext, MemoryInv
<1>2. anyState' = durable /\ UNCHANGED <<proxySide, wire, ended, ctx, durable>> /\ started'
  BY DEF InitStream, StreamStarts
<1>3. \A i \in DOMAIN wire' : wire'[i].kind # "reply"
  BY <1>1, <1>2, NoReply
<1> QED BY <1>1, <1>2, <1>3 DEF MemoryInv, MemoryIsStored, HandlerSeesStored

LEMMA MemoryReceives ==
  ASSUME TypeOK, OneAnswer, MemoryInv, ReceiveCommand
  PROVE  MemoryInv'
<1>1. /\ started /\ ctx.pc # "settled" /\ awaiting = 0
      /\ anyState' = Ensure(anyState) /\ UNCHANGED <<durable, wire, ended, started>>
      /\ ctx'.pc = "running" /\ ctx'.saw = Ensure(anyState)
  BY DEF ReceiveCommand, CommandReceived, CommandSent, CanRead, NewContext, NoContext
<1>2. \A i \in DOMAIN wire : wire[i].kind # "reply"
  BY <1>1, NoReply
<1>3. ~ ended => Ensure(anyState) = Ensure(durable)
  BY <1>1, <1>2 DEF MemoryInv, MemoryIsStored
<1>4. Ensure(anyState)' = Ensure(anyState)
  BY <1>1, EnsureType DEF TypeOK
<1> QED BY <1>1, <1>2, <1>3, <1>4 DEF MemoryInv, MemoryIsStored, HandlerSeesStored

LEMMA MemoryRefuses ==
  ASSUME TypeOK, OneAnswer, MemoryInv, RefuseCommand
  PROVE  MemoryInv'
<1>1. /\ started /\ ctx.pc # "settled" /\ awaiting = 0
      /\ anyState' \in {anyState, Ensure(anyState)} /\ UNCHANGED <<durable, ctx, ended, started>>
  BY DEF RefuseCommand, CommandRefused, CommandSent, CanRead
<1>2. \A i \in DOMAIN wire : wire[i].kind # "reply"
  BY <1>1, NoReply
<1>3. \A i \in DOMAIN wire' : wire'[i].kind # "reply"
  BY <1>2, RepliesWritten DEF RefuseCommand, CommandRefused, CommandSent, CanRead, Next,
     WriteAnswer, AnswerWritten
<1>4. ~ ended => Ensure(anyState) = Ensure(durable)
  BY <1>1, <1>2 DEF MemoryInv, MemoryIsStored
<1>5. Ensure(anyState)' = Ensure(anyState)
  BY <1>1, EnsureType DEF TypeOK
<1> QED BY <1>1, <1>3, <1>4, <1>5 DEF MemoryInv, MemoryIsStored, HandlerSeesStored

LEMMA MemoryRuns ==
  ASSUME TypeOK, OneAnswer, MemoryInv,
         \/ (\E v \in Values : UpdateState(v)) \/ UpdateThrows \/ DeleteState
         \/ RecordAction \/ Fail
  PROVE  MemoryInv'
<1>1. /\ ctx.pc = "running" /\ ctx'.saw = ctx.saw
      /\ UNCHANGED <<proxySide, wire, started, ended, durable>>
  BY HandlerStep
<1>2. ctx \in ContextOf(Values, Work, StateActions)
  BY <1>1, WorkType
<1>3. ctx'.pc = "running" /\ anyState' = anyState
  BY <1>1, <1>2
     DEF UpdateState, UpdateThrows, DeleteState, Records, RecordAction, HandlerActs, Fail,
         HandlerFails, ContextOf, entityVars
<1> QED BY <1>1, <1>3 DEF MemoryInv, MemoryIsStored, HandlerSeesStored, proxySide

(* The memory follows the state action, which goes out with the reply      *)
(* unless the command fails; then there is none.                           *)
LEMMA MemorySettles ==
  ASSUME TypeOK, OneAnswer, MemoryInv, ~ MixesFailure, NEW r \in Results, Settle(r)
  PROVE  MemoryInv'
<1> DEFINE act == StateAction(ctx.work)
<1>1. /\ ctx.pc = "running" /\ ctx \in ContextOf(Values, Work, StateActions)
      /\ UNCHANGED <<proxySide, wire, started, ended, durable>>
  BY HandlerStep, WorkType
<1>2. started /\ \A i \in DOMAIN wire' : wire'[i].kind # "reply"
  BY <1>1, NoReply, RunningContext DEF TypeOK
<1>3. ~ ended => Ensure(anyState) = Ensure(durable)
  BY <1>1, <1>2 DEF MemoryInv, MemoryIsStored
<1>4. ctx'.pc = "settled" /\ ctx'.result = r /\ ctx'.error = ctx.error
  <2>1. PICK body : HandlerSettles(r, r, body)
    BY SettleCases
  <2> QED BY <1>1, <2>1 DEF HandlerSettles, ContextOf
<1>5. ASSUME ~ ended
      PROVE  /\ AnswersFailure(ctx') => Ensure(anyState)' = Ensure(durable)
             /\ ~ AnswersFailure(ctx') /\ ~ EndsStream(ctx')
                  => Ensure(anyState)' = Ensure(AfterReply(ctx'.body, durable))
  <2>1. CASE r.kind = "throw" /\ UNCHANGED entityVars
    <3>1. ~ AnswersFailure(ctx') => EndsStream(ctx')
      BY <1>4, <2>1 DEF EndsStream
    <3>2. Ensure(anyState)' = Ensure(durable)
      BY <1>3, <1>5, <2>1 DEF entityVars, Ensure
    <3> QED BY <3>1, <3>2
  <2>2. CASE /\ (ctx.error \/ IsFailure(r)) /\ act.action # "none" => MixesFailure
             /\ HandlerSettles(r, r, act) /\ anyState' = MemoryAfter(act, anyState)
    <3>1. ctx'.body = act /\ act \in StateActions /\ act # Nothing
      <4>1. ctx'.body = act
        BY <1>1, <2>2 DEF HandlerSettles, ContextOf
      <4>2. act \in StateActions
        BY <1>1, WorkType, StateActionType DEF TypeOK
      <4>3. DOMAIN act = {"action", "value"} /\ DOMAIN Nothing = {"none"}
        BY <4>2 DEF StateActions, Nothing
      <4> QED BY <4>1, <4>2, <4>3
    <3>2. CASE act.action = "none"
      <4>1. anyState' = anyState /\ AfterReply(ctx'.body, durable) = durable
        BY <2>2, <3>1, <3>2 DEF MemoryAfter, AfterReply, Persisted
      <4> QED BY <1>3, <1>5, <4>1 DEF Ensure
    <3>3. CASE act.action # "none"
      <4>1. ~ AnswersFailure(ctx')
        BY <1>4, <2>2, <3>3 DEF AnswersFailure
      <4>2. anyState' = act.value /\ AfterReply(ctx'.body, durable) = act.value
        BY <2>2, <3>1, <3>3 DEF MemoryAfter, AfterReply, Persisted
      <4> QED BY <4>1, <4>2 DEF Ensure
    <3> QED BY <3>2, <3>3
  <2> QED BY <2>1, <2>2, SettleCases
<1> QED BY <1>1, <1>2, <1>4, <1>5 DEF MemoryInv, MemoryIsStored, HandlerSeesStored, proxySide

LEMMA MemoryWrites ==
  ASSUME TypeOK, OneAnswer, MemoryInv, WriteAnswer
  PROVE  MemoryInv'
<1>1. /\ ctx.pc = "settled" /\ ctx' = NoContext /\ ended' = (ended \/ EndsStream(ctx))
      /\ UNCHANGED <<proxySide, started, entityVars>>
  BY DEF WriteAnswer, AnswerWritten
<1>2. CASE ended'
  BY <1>1, <1>2, MemoryEnded DEF MemoryInv, proxySide
<1>3. CASE ~ ended'
  <2>1. ~ ended /\ ~ EndsStream(ctx)
    BY <1>1, <1>3
  <2>2. \A i \in DOMAIN wire : wire[i].kind # "reply"
    BY <1>1, NoReply
  <2>3. ASSUME NEW i \in DOMAIN wire', wire'[i].kind = "reply"
        PROVE  wire'[i] = Answer(ctx)[1]
    BY <2>2, <2>3, RepliesWritten DEF Next
  <2>4. ASSUME NEW i \in DOMAIN wire', wire'[i].kind = "reply"
        PROVE  Ensure(anyState)' = Ensure(AfterReply(wire'[i].body, durable))
    <3>1. wire'[i] = Answer(ctx)[1]
      BY <2>3, <2>4
    <3>2. CASE AnswersFailure(ctx)
      <4>1. wire'[i].body = Nothing
        BY <2>1, <3>1, <3>2, AnswerIsReply
      <4>2. Ensure(anyState) = Ensure(durable)
        BY <1>1, <2>1, <3>2 DEF MemoryInv
      <4> QED BY <1>1, <4>1, <4>2 DEF AfterReply, entityVars, Ensure
    <3>3. CASE ~ AnswersFailure(ctx)
      <4>1. wire'[i].body = ctx.body
        BY <2>1, <3>1, <3>3 DEF Answer, Message
      <4>2. Ensure(anyState) = Ensure(AfterReply(ctx.body, durable))
        BY <1>1, <2>1, <3>3 DEF MemoryInv
      <4> QED BY <1>1, <4>1, <4>2 DEF entityVars, Ensure
    <3> QED BY <3>2, <3>3
  <2>5. ~ \A i \in DOMAIN wire' : wire'[i].kind # "reply"
    <3>1. DOMAIN Answer(ctx) = {1} /\ Answer(ctx)[1].kind = "reply"
      BY <2>1 DEF Answer, Message
    <3>2. PICK answer \in Seq(MessageOf(StateActions)) : answer = Answer(ctx)
      BY <1>1, WorkType, AnswerType
    <3>3. wire' = wire \o answer /\ 1 \in DOMAIN answer /\ answer[1].kind = "reply"
      BY <2>1, <3>1, <3>2 DEF WriteAnswer, AnswerWritten, Put
    <3>4. wire \in Seq(MessageOf(StateActions))
      BY DEF TypeOK, StreamTypeOK
    <3>5. Len(wire) + 1 \in DOMAIN wire' /\ wire'[Len(wire) + 1] = answer[1]
      BY <3>3, <3>4, ConcatAt
    <3> QED BY <3>3, <3>5
  <2>6. ctx'.pc = "none" /\ UNCHANGED <<awaiting, started, durable, anyState>>
    BY <1>1 DEF NoContext, proxySide, entityVars
  <2>7. MemoryIsStored' /\ HandlerSeesStored'
    BY <2>5, <2>6 DEF MemoryIsStored, HandlerSeesStored
  <2> QED BY <2>4, <2>6, <2>7 DEF MemoryInv
<1> QED BY <1>2, <1>3

LEMMA MemoryReads ==
  ASSUME TypeOK, OneAnswer, MemoryInv, ReadReply \/ ReadFailure
  PROVE  MemoryInv'
<1>1. /\ wire # <<>> /\ wire' = Tail(wire)
      /\ UNCHANGED <<started, ended, ctx, anyState>> /\ awaiting' \in {0, awaiting}
  BY DEF ReadReply, ReadFailure, ReplyRead, FailureRead, Reads, entityVars
<1>2. /\ 1 \in DOMAIN wire /\ Head(wire) = wire[1]
      /\ \A i \in DOMAIN wire' : i + 1 \in DOMAIN wire /\ wire'[i] = wire[i + 1] /\ i + 1 # 1
  BY <1>1, ReadMessages DEF TypeOK, StreamTypeOK
<1>3. CASE ReadReply
  <2>1. wire[1].kind = "reply" /\ durable' = AfterReply(wire[1].body, durable)
    BY <1>2, <1>3 DEF ReadReply, ReplyRead, Reads, AfterReply
  <2>2. wire[1].id # 0 /\ ctx.pc = "none"
    BY <1>2, <2>1 DEF OneAnswer
  <2>3. \A i \in DOMAIN wire' : wire'[i].kind # "reply"
    BY <1>2, <2>2 DEF OneAnswer
  <2>4. ~ ended => Ensure(anyState)' = Ensure(durable)'
    BY <1>1, <1>2, <2>1 DEF MemoryInv, Ensure
  <2> QED BY <1>1, <2>2, <2>3, <2>4 DEF MemoryInv, MemoryIsStored, HandlerSeesStored
<1>4. CASE ReadFailure
  <2>1. durable' = durable /\ wire[1].kind = "failure"
    BY <1>2, <1>4 DEF ReadFailure, FailureRead, Reads, entityVars
  <2>2. (\A i \in DOMAIN wire' : wire'[i].kind # "reply")
          => \A i \in DOMAIN wire : wire[i].kind # "reply"
    <3> SUFFICES ASSUME NEW i \in DOMAIN wire, wire[i].kind = "reply"
                 PROVE  \E j \in DOMAIN wire' : wire'[j].kind = "reply"
      OBVIOUS
    <3>1. wire \in Seq(MessageOf(StateActions)) /\ i # 1
      BY <2>1 DEF TypeOK, StreamTypeOK
    <3>2. i - 1 \in DOMAIN wire' /\ wire'[i - 1] = wire[i]
      BY <1>1, <3>1
    <3> QED BY <3>2
  <2> QED BY <1>1, <1>2, <2>1, <2>2 DEF MemoryInv, MemoryIsStored, HandlerSeesStored
<1> QED BY <1>3, <1>4

LEMMA MemoryNext ==
  ASSUME ~ MixesFailure, TypeOK, OneAnswer, MemoryInv, [Next]_vars
  PROVE  MemoryInv'
<1>1. CASE OpenStream \/ LoseStream \/ ReadEnd
  BY <1>1, MemoryReset
<1>2. CASE InitStream
  BY <1>2, MemoryStarts
<1>3. CASE ProtocolError \/ HalfClose \/ FailCommand
  <2>1. ended' = TRUE /\ started' = started /\ (awaiting' # 0 => started)
    BY <1>3 DEF ProtocolError, StreamFails, HalfClose, StreamHalfCloses, FailCommand,
                CommandFails, CommandSent, GiveUp, proxySide, MemoryInv
  <2> QED BY <2>1, MemoryEnded
<1>4. CASE ReceiveCommand
  BY <1>4, MemoryReceives
<1>5. CASE RefuseCommand
  BY <1>5, MemoryRefuses
<1>6. CASE \/ (\E v \in Values : UpdateState(v)) \/ UpdateThrows \/ DeleteState
           \/ RecordAction \/ Fail
  BY <1>6, MemoryRuns
<1>7. CASE \E r \in Results : Settle(r)
  BY <1>7, MemorySettles
<1>8. CASE WriteAnswer
  BY <1>8, MemoryWrites
<1>9. CASE ReadReply \/ ReadFailure
  BY <1>9, MemoryReads
<1>10. CASE UNCHANGED vars
  BY <1>10 DEF vars, streamVars, entityVars, MemoryInv, MemoryIsStored, HandlerSeesStored,
               Ensure
<1> QED BY <1>1, <1>2, <1>3, <1>4, <1>5, <1>6, <1>7, <1>8, <1>9, <1>10 DEF Next

LEMMA MemoryInvariant == ASSUME ~ MixesFailure PROVE Spec => []MemoryInv
<1>1. TypeOK /\ OneAnswer /\ MemoryInv /\ [Next]_vars => MemoryInv'
  BY MemoryNext
<1> QED BY MemoryInit, AnswerInvariant, <1>1, PTL DEF Spec

(* MemoryIsStored, for handlers that do not return a failure after they    *)
(* have set or deleted the state.                                          *)
THEOREM MemoryTheorem == ASSUME ~ MixesFailure PROVE Spec => []MemoryIsStored
<1>1. MemoryInv => MemoryIsStored
  BY DEF MemoryInv
<1> QED BY <1>1, MemoryInvariant, PTL

(* HandlerSeesStored, for the same handlers.                               *)
THEOREM HandlerTheorem == ASSUME ~ MixesFailure PROVE Spec => []HandlerSeesStored
<1>1. MemoryInv => HandlerSeesStored
  BY DEF MemoryInv
<1> QED BY <1>1, MemoryInvariant, PTL
=============================================================================
