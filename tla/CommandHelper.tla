--------------------------- MODULE CommandHelper ---------------------------
(***************************************************************************)
(* What sdk/src/command-helper.ts does with one command of a stateful      *)
(* entity.  CommandHelper is shared by the event sourced, the value and    *)
(* the replicated entity: it makes the command context, hands it to the    *)
(* component's command handler, and turns what the handler left behind     *)
(* into exactly one answer on the entity's stream.                         *)
(*                                                                         *)
(* A context is a record                                                   *)
(*    id       the command's id                                            *)
(*    pc       "none" (no command), "running" (the user's handler has not  *)
(*             settled) or "settled" (the handler's promise has settled    *)
(*             and the component has done its part, but the continuation   *)
(*             of CommandHelper.invoke has not run)                        *)
(*    error    ctx.fail was called (accessor.error)                        *)
(*    effects  number of side effects recorded with ctx.effect             *)
(*    forward  ctx.forward was called                                      *)
(*    saw      the state handed to the user's handler                      *)
(*    work     what the component records for this command: the emitted    *)
(*             events, the updated state, ...                              *)
(*    result   how the handler settled (see Results)                       *)
(*    body     what the component put in ctx.reply                         *)
(* Messages carry the fields a property tells apart and nothing else.      *)
(***************************************************************************)
EXTENDS Integers, Sequences

CONSTANT MaxEffects   (* bound on the side effects of one command *)

ASSUME MaxEffectsAssumption == MaxEffects \in Nat

ReplyKinds == {"Reply.message", "Reply.forward", "Reply.empty", "Reply.failure"}

(* How a command handler's promise settles.  "throw" stands for any        *)
(* rejection, "undefined" and "message" for a plain return value, the rest *)
(* for a Reply of each sort.  A result is not serializable when            *)
(* AnySupport.serialize, the response type's create or the effect          *)
(* serializer throws on it.                                                *)
Results ==
  {r \in [kind : {"throw", "undefined", "message"} \cup ReplyKinds,
          effects : 0 .. MaxEffects,
          serializable : BOOLEAN] :
     /\ r.effects > 0 => r.kind \in ReplyKinds \ {"Reply.failure"}
     /\ ~ r.serializable => r.kind \notin {"throw", "undefined", "Reply.failure"}}

Thrown == [kind |-> "throw", effects |-> 0, serializable |-> TRUE]

(* What is absent: no body, no state, no work. *)
Nothing == [none |-> TRUE]

(* The context of no command at all. *)
NoContext ==
  [id |-> 0, pc |-> "none", error |-> FALSE, effects |-> 0, forward |-> FALSE,
   saw |-> Nothing, work |-> Nothing, result |-> Thrown, body |-> Nothing]

(* createContext: the context of command id, whose handler sees the state  *)
(* saw and starts with the empty work of its component.                    *)
NewContext(id, saw, work) ==
  [NoContext EXCEPT !.id = id, !.pc = "running", !.saw = saw, !.work = work]

(* ensureActive: the context stays active until the continuation of        *)
(* invoke has run, which is later than the component's own part.           *)
Active(ctx) == ctx.pc \in {"running", "settled"}

(* The result signals failure through a Reply. *)
IsFailure(r) == r.kind = "Reply.failure"

(* invokeHandlerLogic answers with a failed client action, and with        *)
(* nothing of what the component put in ctx.reply.                         *)
AnswersFailure(ctx) == ctx.error \/ IsFailure(ctx.result)

(* Handling ends in an error that handleCommand turns into a failure       *)
(* message followed by the end of the stream: the handler threw without    *)
(* having called ctx.fail, or the successful answer cannot be serialized.  *)
EndsStream(ctx) ==
  /\ ~ AnswersFailure(ctx)
  /\ \/ ctx.result.kind = "throw"
     \/ /\ ~ ctx.result.serializable
        /\ ctx.forward => ctx.result.kind \in ReplyKinds

(* The client action of a successful answer: a returned Reply decides      *)
(* alone, any other result gives way to ctx.forward.                       *)
ClientAction(ctx) ==
  LET r == ctx.result IN
  CASE r.kind \in {"Reply.message", "Reply.empty"} -> "reply"
    [] r.kind = "Reply.forward" -> "forward"
    [] r.kind \notin ReplyKinds /\ ctx.forward -> "forward"
    [] r.kind = "message" /\ ~ ctx.forward -> "reply"
    [] OTHER -> "none"

(* The side effects of a successful answer: those of the returned Reply,   *)
(* or those of the context when the result is not a Reply.                 *)
SideEffects(ctx) ==
  IF ctx.result.kind \in ReplyKinds THEN ctx.result.effects ELSE ctx.effects

(* The stream messages, one record shape for all of them. *)
Message(kind, id, action, effects, body) ==
  [kind |-> kind, id |-> id, action |-> action, effects |-> effects, body |-> body]

End == Message("end", 0, "none", 0, Nothing)

Failure(id) == Message("failure", id, "none", 0, Nothing)

AnswerKeepsBody(ctx) ==
  IF EndsStream(ctx) /\ ctx.result.kind = "throw" THEN <<Failure(ctx.id), End>>
  ELSE <<Message("reply", ctx.id,
                 IF AnswersFailure(ctx) \/ EndsStream(ctx) THEN "failure" ELSE "reply", 0,
                 ctx.body)>>
AnswerOnlyThrows(ctx) ==
  IF EndsStream(ctx) THEN <<>>
  ELSE <<Message("reply", ctx.id, IF AnswersFailure(ctx) THEN "failure" ELSE "reply", 0,
                 IF AnswersFailure(ctx) THEN Nothing ELSE ctx.body)>>

(* The one answer of a settled command (handleCommand and                  *)
(* invokeHandlerLogic), as the messages written to the stream.             *)
Answer(ctx) ==
  IF EndsStream(ctx) THEN <<Failure(ctx.id), End>>
  ELSE IF AnswersFailure(ctx)
       THEN <<Message("reply", ctx.id, "failure", 0, Nothing)>>
       ELSE <<Message("reply", ctx.id, ClientAction(ctx), SideEffects(ctx), ctx.body)>>
============================================================================
