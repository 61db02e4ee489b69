------------------------- MODULE EntityStreamProofs -------------------------
(***************************************************************************)
(* Facts about the stream that every kind of entity shares.  They are      *)
(* stated for one action of EntityStream at a time and for whatever        *)
(* states, work and reply bodies a component puts on its stream; the       *)
(* component's own proofs cite them action by action.                      *)
(***************************************************************************)
EXTENDS EntityStream, TLAPS

----------------------------------------------------------------------------
(* Messages. *)

(* What Answer writes is well-typed. *)
LEMMA AnswerType ==
  ASSUME NEW Saw, NEW Work, NEW Body, NEW full \in ContextOf(Saw, Work, Body)
  PROVE  Answer(full) \in Seq(MessageOf(Body))
<1>1. full.id \in 0 .. MaxCommands /\ full.effects \in 0 .. MaxEffects
      /\ full.result \in Results /\ full.body \in Body \cup {Nothing}
  BY DEF ContextOf, Commands
<1>2. Failure(full.id) \in MessageOf(Body) /\ End \in MessageOf(Body)
  BY <1>1, StreamAssumption, MaxEffectsAssumption DEF Failure, End, Message, MessageOf
<1>3. ClientAction(full) \in {"reply", "forward", "none"}
  BY DEF ClientAction
<1>4. SideEffects(full) \in 0 .. MaxEffects
  BY <1>1 DEF SideEffects, Results
<1>5. Message("reply", full.id, "failure", 0, Nothing) \in MessageOf(Body)
  BY <1>1, StreamAssumption, MaxEffectsAssumption DEF Message, MessageOf
<1>6. Message("reply", full.id, ClientAction(full), SideEffects(full), full.body)
        \in MessageOf(Body)
  BY <1>1, <1>3, <1>4 DEF Message, MessageOf
<1> QED BY <1>2, <1>5, <1>6 DEF Answer

(* The messages written on the stream of id, a command or 0. *)
LEMMA GiveUpType ==
  ASSUME NEW Body, NEW id \in 0 .. MaxCommands
  PROVE  /\ <<Failure(id)>> \in Seq(MessageOf(Body))
         /\ <<Failure(id), End>> \in Seq(MessageOf(Body))
         /\ <<End>> \in Seq(MessageOf(Body))
<1>1. Failure(id) \in MessageOf(Body) /\ End \in MessageOf(Body)
  BY StreamAssumption, MaxEffectsAssumption DEF Failure, End, Message, MessageOf
<1> QED BY <1>1

(* Those that are not an answer of the handler fail the command id, if     *)
(* there is one, and nothing else.                                         *)
Failures(id) == {<<Failure(id)>>, <<Failure(id), End>>, <<End>>}

LEMMA GiveUpMessages ==
  ASSUME NEW id, NEW msgs \in Failures(id), NEW k \in DOMAIN msgs
  PROVE  /\ msgs[k].kind \in {"failure", "end"}
         /\ msgs[k].id \in {0, id}
         /\ k # 1 => msgs[k].id = 0
         /\ msgs[k].body = Nothing
<1>1. /\ Failure(id).kind = "failure" /\ Failure(id).id = id /\ Failure(id).body = Nothing
      /\ End.kind = "end" /\ End.id = 0 /\ End.body = Nothing
  BY DEF Failure, End, Message
<1>2. CASE msgs = <<Failure(id)>>
  BY <1>1, <1>2
<1>3. CASE msgs = <<Failure(id), End>>
  BY <1>1, <1>3
<1>4. CASE msgs = <<End>>
  BY <1>1, <1>4
<1> QED BY <1>2, <1>3, <1>4 DEF Failures

LEMMA PutType ==
  ASSUME NEW Body, wire \in Seq(MessageOf(Body)), NEW msgs \in Seq(MessageOf(Body)),
         Put(msgs)
  PROVE  wire' \in Seq(MessageOf(Body))
BY DEF Put

----------------------------------------------------------------------------
(* Every action of the stream keeps the type of the stream's variables. *)

LEMMA StreamInitType ==
  ASSUME NEW Saw, NEW Work, NEW Body, StreamInit
  PROVE  StreamTypeOK(Saw, Work, Body)
<1>1. outcome \in [Commands -> {"pending", "replied", "failed"}]
  BY DEF StreamInit
<1>2. issued \in 0 .. MaxCommands /\ opened \in 0 .. MaxStreams /\ awaiting \in 0 .. issued
  BY StreamAssumption DEF StreamInit
<1>3. wire \in Seq(MessageOf(Body))
  BY DEF StreamInit
<1> QED BY <1>1, <1>2, <1>3 DEF StreamInit, StreamTypeOK

LEMMA ResetType ==
  ASSUME NEW Saw, NEW Work, NEW Body, StreamTypeOK(Saw, Work, Body),
         StreamOpens \/ StreamLost \/ EndRead
  PROVE  StreamTypeOK(Saw, Work, Body)'
<1>1. outcome' = outcome /\ issued' = issued /\ awaiting' = 0 /\ wire' = <<>>
      /\ started' = FALSE /\ ended' = FALSE /\ ctx' = NoContext
      /\ link' \in {"down", "open"} /\ opened' \in 0 .. MaxStreams
  BY StreamAssumption
     DEF StreamTypeOK, StreamOpens, StreamLost, EndRead, ResetStream
<1>2. wire' \in Seq(MessageOf(Body))
  BY <1>1
<1>3. awaiting' \in 0 .. issued'
  BY <1>1 DEF StreamTypeOK
<1> QED BY <1>1, <1>2, <1>3 DEF StreamTypeOK

LEMMA StreamStartsType ==
  ASSUME NEW Saw, NEW Work, NEW Body, StreamTypeOK(Saw, Work, Body), StreamStarts
  PROVE  StreamTypeOK(Saw, Work, Body)'
BY DEF StreamTypeOK, StreamStarts, proxySide

LEMMA StreamFailsType ==
  ASSUME NEW Saw, NEW Work, NEW Body, StreamTypeOK(Saw, Work, Body), StreamFails
  PROVE  StreamTypeOK(Saw, Work, Body)'
<1>1. <<Failure(0), End>> \in Seq(MessageOf(Body))
  BY GiveUpType, StreamAssumption
<1>2. wire' \in Seq(MessageOf(Body))
  BY <1>1, PutType DEF StreamTypeOK, StreamFails, GiveUp
<1> QED BY <1>2 DEF StreamTypeOK, StreamFails, GiveUp, proxySide

LEMMA StreamHalfClosesType ==
  ASSUME NEW Saw, NEW Work, NEW Body, StreamTypeOK(Saw, Work, Body), StreamHalfCloses
  PROVE  StreamTypeOK(Saw, Work, Body)'
<1>1. <<End>> \in Seq(MessageOf(Body))
  BY GiveUpType, StreamAssumption
<1>2. wire' \in Seq(MessageOf(Body))
  BY <1>1, PutType DEF StreamTypeOK, StreamHalfCloses
<1> QED BY <1>2 DEF StreamTypeOK, StreamHalfCloses

LEMMA CommandReceivedType ==
  ASSUME NEW Saw, NEW Work, NEW Body, StreamTypeOK(Saw, Work, Body),
         NEW saw \in Saw, NEW work \in Work, CommandReceived(saw, work)
  PROVE  StreamTypeOK(Saw, Work, Body)'
<1>1. issued + 1 \in Commands /\ issued' = issued + 1 /\ awaiting' = issued + 1
      /\ issued' \in 0 .. MaxCommands /\ awaiting' \in 0 .. issued'
  BY StreamAssumption DEF StreamTypeOK, CommandReceived, CommandSent, Commands
<1>2. ctx' = [id |-> issued + 1, pc |-> "running", error |-> FALSE, effects |-> 0,
              forward |-> FALSE, saw |-> saw, work |-> work, result |-> Thrown,
              body |-> Nothing]
  BY DEF CommandReceived, NewContext, NoContext
<1>3. Thrown \in Results
  BY MaxEffectsAssumption DEF Thrown, Results
<1>4. ctx' \in ContextOf(Saw, Work, Body)
  BY <1>1, <1>2, <1>3, MaxEffectsAssumption DEF ContextOf
<1> QED BY <1>1, <1>4 DEF StreamTypeOK, CommandReceived, CommandSent

LEMMA CommandRefusedType ==
  ASSUME NEW Saw, NEW Work, NEW Body, StreamTypeOK(Saw, Work, Body),
         CommandRefused \/ CommandFails
  PROVE  StreamTypeOK(Saw, Work, Body)'
<1>1. issued + 1 \in 0 .. MaxCommands /\ issued' = issued + 1 /\ awaiting' = issued + 1
      /\ issued' \in 0 .. MaxCommands /\ awaiting' \in 0 .. issued'
  BY StreamAssumption DEF StreamTypeOK, CommandRefused, CommandFails, CommandSent
<1>2. wire' \in Seq(MessageOf(Body))
  BY <1>1, GiveUpType, PutType DEF StreamTypeOK, CommandRefused, CommandFails, GiveUp
<1> QED
  BY <1>1, <1>2 DEF StreamTypeOK, CommandRefused, CommandFails, CommandSent, GiveUp

(* While the handler runs the context is one of a command. *)
LEMMA RunningContext ==
  ASSUME NEW Saw, NEW Work, NEW Body, StreamTypeOK(Saw, Work, Body), ctx.pc # "none"
  PROVE  ctx \in ContextOf(Saw, Work, Body) /\ started
BY DEF StreamTypeOK, NoContext

LEMMA HandlerActsType ==
  ASSUME NEW Saw, NEW Work, NEW Body, StreamTypeOK(Saw, Work, Body),
         HandlerActs \/ HandlerFails
  PROVE  StreamTypeOK(Saw, Work, Body)'
<1>1. ctx \in ContextOf(Saw, Work, Body) /\ started
  BY RunningContext DEF HandlerActs, HandlerFails, MayContinue
<1>2. ctx' \in ContextOf(Saw, Work, Body)
  <2>1. CASE ctx.effects < MaxEffects /\ ctx' = [ctx EXCEPT !.effects = @ + 1]
    BY <1>1, <2>1, MaxEffectsAssumption DEF ContextOf
  <2>2. CASE ctx' = [ctx EXCEPT !.forward = TRUE]
    BY <1>1, <2>2 DEF ContextOf
  <2>3. CASE ctx' = [ctx EXCEPT !.error = TRUE]
    BY <1>1, <2>3 DEF ContextOf
  <2> QED BY <2>1, <2>2, <2>3 DEF HandlerActs, HandlerFails
<1> QED BY <1>1, <1>2 DEF StreamTypeOK, HandlerActs, HandlerFails, proxySide

LEMMA HandlerSettlesType ==
  ASSUME NEW Saw, NEW Work, NEW Body, StreamTypeOK(Saw, Work, Body),
         NEW r, NEW result \in Results, NEW body \in Body \cup {Nothing},
         HandlerSettles(r, result, body)
  PROVE  StreamTypeOK(Saw, Work, Body)'
<1>1. ctx \in ContextOf(Saw, Work, Body) /\ started
  BY RunningContext DEF HandlerSettles
<1>2. ctx' \in ContextOf(Saw, Work, Body)
  BY <1>1 DEF HandlerSettles, ContextOf
<1> QED BY <1>1, <1>2 DEF StreamTypeOK, HandlerSettles, proxySide

LEMMA AnswerWrittenType ==
  ASSUME NEW Saw, NEW Work, NEW Body, StreamTypeOK(Saw, Work, Body),
         NEW full \in ContextOf(Saw, Work, Body), AnswerWritten(full)
  PROVE  StreamTypeOK(Saw, Work, Body)'
<1>1. wire' \in Seq(MessageOf(Body))
  BY AnswerType, PutType DEF StreamTypeOK, AnswerWritten
<1>2. ended' \in BOOLEAN
  BY DEF StreamTypeOK, AnswerWritten, EndsStream
<1> QED BY <1>1, <1>2 DEF StreamTypeOK, AnswerWritten, proxySide

(* What is read is a message, and the rest of the wire follows it. *)
LEMMA ReadType ==
  ASSUME NEW Body, wire \in Seq(MessageOf(Body)), wire # <<>>
  PROVE  Head(wire) \in MessageOf(Body) /\ Tail(wire) \in Seq(MessageOf(Body))
OBVIOUS

LEMMA ReplyReadType ==
  ASSUME NEW Saw, NEW Work, NEW Body, StreamTypeOK(Saw, Work, Body),
         ReplyRead \/ FailureRead
  PROVE  StreamTypeOK(Saw, Work, Body)'
<1>1. wire' \in Seq(MessageOf(Body))
  BY ReadType DEF StreamTypeOK, ReplyRead, FailureRead, Reads
<1>2. outcome' \in [Commands -> {"pending", "replied", "failed"}]
  BY DEF StreamTypeOK, ReplyRead, FailureRead
<1> QED BY <1>1, <1>2 DEF StreamTypeOK, ReplyRead, FailureRead

----------------------------------------------------------------------------
(* Every action of the stream keeps OneAnswer.                             *)

(* Where the messages of a write go. *)
LEMMA ConcatAt ==
  ASSUME NEW S, NEW s \in Seq(S), NEW t \in Seq(S), NEW k \in DOMAIN t
  PROVE  Len(s) + k \in DOMAIN (s \o t) /\ (s \o t)[Len(s) + k] = t[k]
<1>1. (s \o t)[Len(s) + k] = t[k]
  OBVIOUS
<1>2. DOMAIN (s \o t) = 1 .. Len(s) + Len(t)
  OBVIOUS
<1>3. Len(s) + k \in 1 .. Len(s) + Len(t)
  OBVIOUS
<1> QED BY <1>1, <1>2, <1>3

(* Where the messages of the wire come from after a write. *)
LEMMA PutMessages ==
  ASSUME NEW Body, wire \in Seq(MessageOf(Body)), NEW msgs \in Seq(MessageOf(Body)),
         Put(msgs), NEW i \in DOMAIN wire'
  PROVE  \/ i \in DOMAIN wire /\ wire'[i] = wire[i]
         \/ ~ ended /\ \E k \in DOMAIN msgs : i = Len(wire) + k /\ wire'[i] = msgs[k]
<1>1. CASE ended
  BY <1>1 DEF Put
<1>2. CASE ~ ended
  <2>1. wire' = wire \o msgs
    BY <1>2 DEF Put
  <2>2. CASE i \in DOMAIN wire
    BY <2>1, <2>2
  <2>3. CASE i \notin DOMAIN wire
    <3>1. i - Len(wire) \in DOMAIN msgs /\ wire'[i] = msgs[i - Len(wire)]
      BY <2>1, <2>3
    <3> QED BY <1>2, <3>1, <2>1
  <2> QED BY <2>2, <2>3
<1> QED BY <1>1, <1>2

(* And after a read. *)
LEMMA ReadMessages ==
  ASSUME NEW Body, wire \in Seq(MessageOf(Body)), wire # <<>>, wire' = Tail(wire)
  PROVE  /\ 1 \in DOMAIN wire /\ Head(wire) = wire[1]
         /\ \A i \in DOMAIN wire' : i + 1 \in DOMAIN wire /\ wire'[i] = wire[i + 1]
                                    /\ i + 1 # 1
OBVIOUS

(* No failure or end is a reply or has a body: what is was there before.   *)
LEMMA FailuresPut ==
  ASSUME NEW Body, wire \in Seq(MessageOf(Body)),
         \E id \in 0 .. MaxCommands : \E msgs \in Failures(id) : Put(msgs),
         NEW i \in DOMAIN wire', wire'[i].kind = "reply" \/ wire'[i].body # Nothing
  PROVE  \E j \in DOMAIN wire : wire'[i] = wire[j]
<1>1. PICK id \in 0 .. MaxCommands : \E msgs \in Failures(id) : Put(msgs)
  OBVIOUS
<1>2. PICK msgs \in Failures(id) : Put(msgs)
  BY <1>1
<1>3. msgs \in Seq(MessageOf(Body))
  BY <1>2, GiveUpType DEF Failures
<1>4. \A k \in DOMAIN msgs : msgs[k].kind # "reply" /\ msgs[k].body = Nothing
  BY <1>2, GiveUpMessages
<1> QED BY <1>2, <1>3, <1>4, PutMessages

(* A reply, or a body, was there before or is that of the answer.          *)
LEMMA AnswerPut ==
  ASSUME NEW Saw, NEW Work, NEW Body, wire \in Seq(MessageOf(Body)),
         NEW full \in ContextOf(Saw, Work, Body), AnswerWritten(full),
         NEW i \in DOMAIN wire', wire'[i].kind = "reply" \/ wire'[i].body # Nothing
  PROVE  \/ \E j \in DOMAIN wire : wire'[i] = wire[j]
         \/ ~ ended /\ ~ EndsStream(full) /\ wire'[i] = Answer(full)[1]
<1>1. Answer(full) \in Seq(MessageOf(Body)) /\ Put(Answer(full))
  BY AnswerType DEF AnswerWritten
<1>2. CASE EndsStream(full)
  <2>1. Answer(full) \in Failures(full.id)
    BY <1>2 DEF Answer, Failures
  <2>2. \A k \in DOMAIN Answer(full) : /\ Answer(full)[k].kind # "reply"
                                       /\ Answer(full)[k].body = Nothing
    BY <2>1, GiveUpMessages
  <2> QED BY <1>1, <2>2, PutMessages
<1>3. CASE ~ EndsStream(full)
  <2>1. DOMAIN Answer(full) = {1}
    BY <1>3 DEF Answer
  <2>2. PICK answer \in Seq(MessageOf(Body)) : answer = Answer(full)
    BY <1>1
  <2>3. Put(answer) /\ DOMAIN answer = {1}
    BY <1>1, <2>1, <2>2
  <2>4. \/ \E j \in DOMAIN wire : wire'[i] = wire[j]
        \/ ~ ended /\ wire'[i] = answer[1]
    BY <2>3, PutMessages
  <2> QED BY <1>3, <2>2, <2>4
<1> QED BY <1>2, <1>3

(* The one message of an answer that does not end the stream. *)
LEMMA AnswerIsReply ==
  ASSUME NEW full, ~ EndsStream(full)
  PROVE  LET m == Answer(full)[1] IN
         /\ m.id = full.id
         /\ m.body # Nothing => /\ ~ AnswersFailure(full) /\ m.body = full.body
                                /\ m.action # "failure"
<1>1. CASE AnswersFailure(full)
  BY <1>1 DEF Answer, Message
<1>2. CASE ~ AnswersFailure(full)
  <2>1. ClientAction(full) # "failure"
    BY DEF ClientAction
  <2> QED BY <1>2, <2>1 DEF Answer, Message
<1> QED BY <1>1, <1>2

LEMMA OneAnswerInit ==
  ASSUME StreamInit
  PROVE  OneAnswer
BY DEF StreamInit, OneAnswer, NoContext

LEMMA OneAnswerReset ==
  ASSUME OneAnswer, NEW Saw, NEW Work, NEW Body, StreamTypeOK(Saw, Work, Body),
         StreamOpens \/ StreamLost \/ EndRead
  PROVE  OneAnswer'
<1>1. outcome' = outcome /\ issued' = issued /\ awaiting' = 0 /\ wire' = <<>>
      /\ ctx' = NoContext
  BY DEF StreamOpens, StreamLost, EndRead, ResetStream
<1> QED BY <1>1 DEF OneAnswer, NoContext, Commands

(* A step that answers no command and tells no client anything. *)
LEMMA OneAnswerQuiet ==
  ASSUME OneAnswer, NEW Body, wire \in Seq(MessageOf(Body)),
         NEW msgs \in Seq(MessageOf(Body)), Put(msgs),
         \A k \in DOMAIN msgs : msgs[k].id = 0 /\ msgs[k].kind # "reply",
         UNCHANGED <<outcome, issued, awaiting>>,
         ctx'.pc # "none" => ctx.pc # "none" /\ ctx'.id = ctx.id /\ link' # "down"
  PROVE  OneAnswer'
<1>1. \A i \in DOMAIN wire' : \/ i \in DOMAIN wire /\ wire'[i] = wire[i]
                              \/ wire'[i].id = 0 /\ wire'[i].kind # "reply"
  BY PutMessages
<1> QED BY <1>1 DEF OneAnswer

(* A step that sends a command and writes messages for it at most. *)
LEMMA OneAnswerSent ==
  ASSUME OneAnswer, NEW Saw, NEW Work, NEW Body, StreamTypeOK(Saw, Work, Body),
         CommandSent, NEW msgs \in Seq(MessageOf(Body)), Put(msgs),
         \A k \in DOMAIN msgs : msgs[k].kind # "reply" /\ (k # 1 => msgs[k].id = 0)
                                /\ msgs[k].id \in {0, issued + 1},
         \/ msgs = <<>> /\ ctx'.id = issued + 1
         \/ ctx' = ctx
  PROVE  OneAnswer'
<1>1. awaiting = 0 /\ issued' = issued + 1 /\ awaiting' = issued + 1
      /\ outcome' = outcome /\ link' = link /\ link = "open" /\ issued + 1 \in Commands
      /\ issued \in Nat
  BY StreamAssumption DEF CommandSent, CanRead, StreamTypeOK, Commands
<1>2. ctx.pc = "none"
  <2>1. ctx.pc # "none" => ctx.id \in Commands
    BY RunningContext DEF ContextOf
  <2> QED BY <1>1, <2>1 DEF OneAnswer, Commands
<1>3. \A i \in DOMAIN wire : wire[i].id = 0 /\ wire[i].kind # "reply"
  BY <1>1 DEF OneAnswer
<1>4. \A i \in DOMAIN wire' :
        \/ wire'[i].id = 0 /\ wire'[i].kind # "reply"
        \/ /\ wire'[i].id = issued + 1 /\ wire'[i].kind # "reply"
           /\ i = Len(wire) + 1 /\ 1 \in DOMAIN msgs
  BY <1>3, PutMessages DEF StreamTypeOK
<1>5. \A c \in Commands : c > issued' \/ c = awaiting' => outcome'[c] = "pending"
  BY <1>1 DEF OneAnswer, Commands
<1>6. ctx'.pc # "none" => link' # "down" /\ ctx'.id = awaiting'
  BY <1>1, <1>2
<1>7. (\E k : k \in DOMAIN msgs) => ctx'.pc = "none"
  BY <1>2
<1> QED BY <1>1, <1>4, <1>5, <1>6, <1>7 DEF OneAnswer

(* The service gives the stream up, or ends it. *)
LEMMA OneAnswerGivesUp ==
  ASSUME OneAnswer, NEW Saw, NEW Work, NEW Body, StreamTypeOK(Saw, Work, Body),
         GiveUp(0) \/ Put(<<End>>),
         UNCHANGED <<outcome, issued, awaiting, ctx>>, link' # "down"
  PROVE  OneAnswer'
<1>0. <<Failure(0), End>> \in Failures(0) /\ <<End>> \in Failures(0)
  BY DEF Failures
<1>1. PICK msgs \in Failures(0) : Put(msgs)
  BY <1>0 DEF GiveUp
<1>2. msgs \in Seq(MessageOf(Body))
  <2>1. 0 \in 0 .. MaxCommands
    BY StreamAssumption
  <2> QED BY <2>1, GiveUpType DEF Failures
<1>3. \A k \in DOMAIN msgs : msgs[k].id = 0 /\ msgs[k].kind # "reply"
  BY GiveUpMessages
<1> QED BY <1>1, <1>2, <1>3, OneAnswerQuiet DEF StreamTypeOK

(* A command is refused, or handling it fails before its handler starts. *)
LEMMA OneAnswerRefused ==
  ASSUME OneAnswer, NEW Saw, NEW Work, NEW Body, StreamTypeOK(Saw, Work, Body),
         CommandRefused \/ CommandFails
  PROVE  OneAnswer'
<1>1. CommandSent /\ ctx' = ctx
  BY DEF CommandRefused, CommandFails
<1>0. /\ <<Failure(issued + 1)>> \in Failures(issued + 1)
      /\ <<Failure(issued + 1), End>> \in Failures(issued + 1)
  BY DEF Failures
<1>2. PICK msgs \in Failures(issued + 1) : Put(msgs)
  BY <1>0 DEF CommandRefused, CommandFails, GiveUp
<1>3. msgs \in Seq(MessageOf(Body))
  <2>1. issued + 1 \in 0 .. MaxCommands
    BY <1>1, StreamAssumption DEF CommandSent, StreamTypeOK
  <2> QED BY <2>1, GiveUpType DEF Failures
<1>4. \A k \in DOMAIN msgs : msgs[k].kind # "reply" /\ (k # 1 => msgs[k].id = 0)
                            /\ msgs[k].id \in {0, issued + 1}
  BY GiveUpMessages
<1> QED BY <1>1, <1>2, <1>3, <1>4, OneAnswerSent

(* The continuation of a settled command writes its answer. *)
LEMMA OneAnswerWritten ==
  ASSUME OneAnswer, NEW Saw, NEW Work, NEW Body, StreamTypeOK(Saw, Work, Body),
         NEW full \in ContextOf(Saw, Work, Body), full.id = ctx.id, AnswerWritten(full)
  PROVE  OneAnswer'
<1>1. ctx.pc = "settled" /\ ctx.id = awaiting /\ ctx.id # 0
  <2>1. ctx.pc = "settled"
    BY DEF AnswerWritten
  <2>2. ctx.id \in Commands
    BY <2>1, RunningContext DEF ContextOf
  <2> QED BY <2>1, <2>2 DEF OneAnswer, Commands
<1>2. \A k \in DOMAIN Answer(full) :
        /\ Answer(full)[k].id \in {0, ctx.id} /\ (k # 1 => Answer(full)[k].id = 0)
        /\ Answer(full)[k].kind = "reply" => Answer(full)[k].id = ctx.id
  BY DEF Answer, Failure, End, Message
<1>3. \A i \in DOMAIN wire : wire[i].id = 0 /\ wire[i].kind # "reply"
  BY <1>1 DEF OneAnswer
<1>4. \A i \in DOMAIN wire' :
        \/ wire'[i].id = 0 /\ wire'[i].kind # "reply"
        \/ wire'[i].id = ctx.id /\ i = Len(wire) + 1
  <2>1. Answer(full) \in Seq(MessageOf(Body)) /\ Put(Answer(full))
    BY AnswerType DEF AnswerWritten
  <2> QED BY <1>1, <1>2, <1>3, <2>1, PutMessages DEF StreamTypeOK
<1>5. UNCHANGED <<outcome, issued, awaiting>> /\ ctx' = NoContext
  BY DEF AnswerWritten, proxySide
<1> QED BY <1>1, <1>4, <1>5 DEF OneAnswer, NoContext

(* The command's handler is found and starts. *)
LEMMA OneAnswerReceived ==
  ASSUME OneAnswer, NEW Saw, NEW Work, NEW Body, StreamTypeOK(Saw, Work, Body),
         NEW saw, NEW work, CommandReceived(saw, work)
  PROVE  OneAnswer'
<1>1. CommandSent /\ UNCHANGED wire /\ ctx'.id = issued + 1
  BY DEF CommandReceived, NewContext, NoContext
<1>2. <<>> \in Seq(MessageOf(Body)) /\ Put(<<>>) /\ DOMAIN <<>> = {}
  BY <1>1 DEF Put, StreamTypeOK
<1> QED BY <1>1, <1>2, OneAnswerSent

(* Reading an answer, or a message that answers nothing. *)
LEMMA OneAnswerRead ==
  ASSUME OneAnswer, NEW Saw, NEW Work, NEW Body, StreamTypeOK(Saw, Work, Body),
         wire # <<>>, wire' = Tail(wire),
         UNCHANGED <<issued, link, ctx>>,
         \/ UNCHANGED <<outcome, awaiting>>
         \/ /\ Head(wire).id # 0 /\ awaiting' = 0
            /\ \E o : outcome' = [outcome EXCEPT ![Head(wire).id] = o]
  PROVE  OneAnswer'
<1>1. /\ 1 \in DOMAIN wire /\ Head(wire) = wire[1]
      /\ \A i \in DOMAIN wire' : i + 1 \in DOMAIN wire /\ wire'[i] = wire[i + 1]
                                 /\ i + 1 # 1
  BY ReadMessages DEF StreamTypeOK
<1>2. CASE UNCHANGED <<outcome, awaiting>>
  BY <1>1, <1>2 DEF OneAnswer, StreamTypeOK
<1>3. CASE Head(wire).id # 0 /\ awaiting' = 0
           /\ \E o : outcome' = [outcome EXCEPT ![Head(wire).id] = o]
  <2>1. Head(wire).id = awaiting /\ ctx.pc = "none" /\ awaiting \in 0 .. issued
        /\ issued \in Nat
    BY <1>1, <1>3 DEF OneAnswer, StreamTypeOK
  <2>2. \A i \in DOMAIN wire' : wire'[i].id = 0 /\ wire'[i].kind # "reply"
    BY <1>1, <1>3 DEF OneAnswer
  <2>3. \A c \in Commands : c > issued' \/ c = awaiting' => outcome'[c] = "pending"
    BY <1>3, <2>1 DEF OneAnswer, Commands, StreamTypeOK
  <2> QED BY <2>1, <2>2, <2>3 DEF OneAnswer
<1> QED BY <1>2, <1>3
============================================================================
