----------------------------- MODULE ActionCall -----------------------------
(***************************************************************************)
(* One call of an action: sdk/src/action-support.ts.  The user's code runs *)
(* in turns of the node event loop: the command handler, the callbacks for *)
(* data, end and cancellation, and what an asynchronous handler does after *)
(* it has returned its promise.  In any of them it may answer through the  *)
(* context; the handler's return value, its promise and its errors are     *)
(* answers too.                                                            *)
(*                                                                         *)
(* In a unary and in a streamed in call an answer is the call of the gRPC  *)
(* callback, which may be called once; in a streamed out and in a streamed *)
(* call it is a write on the stream.                                       *)
(***************************************************************************)
EXTENDS Naturals, Sequences

CONSTANTS
  MaxEffects,   (* bound on the side effects of the call                   *)
  MaxWrites,    (* bound on the writes of a call with streamed answers     *)
  MaxData,      (* bound on the messages of a call with streamed requests  *)
  Habits        (* what the user's code may do besides:                    *)
                (*   "throws"    throw an error of its own, or of an       *)
                (*               effect, out of a unary command handler    *)
                (*   "repeats"   answer through the context a unary or a   *)
                (*               streamed in call that was answered        *)
                (*   "mixes"     end in an error, or in a value or a Reply *)
                (*               where one is not ignored, although the    *)
                (*               call was answered                         *)
                (*   "swallows"  catch the error of a context's function   *)

ASSUME ActionAssumption ==
  /\ MaxEffects \in Nat /\ MaxWrites \in Nat /\ MaxData \in Nat
  /\ Habits \subseteq {"throws", "repeats", "mixes", "swallows"}

VARIABLES
  kind,            (* of the call                                          *)
  turn,            (* the user's code that is running, "none", or          *)
                   (* "new" and "gone" for a call without a handler        *)
  thrown,          (* a function of the context threw into that code       *)
  promise,         (* of the command handler: "none", "pending", "ignored" *)
                   (* when nobody waits for it, or "settled"               *)
  listeners,       (* the events the user's code has callbacks for         *)
  received,        (* number of messages read                              *)
  halfClosed,      (* the end of the requests was read                     *)
  cancelled,       (* call.cancelled                                       *)
  alreadyReplied,  (* ctx.alreadyReplied                                   *)
  effects,         (* number of side effects the context holds             *)
  recorded,        (* history: number of side effects recorded             *)
  answers,         (* what was sent                                        *)
  ended,           (* call.end() was called                                *)
  uncaught         (* an exception or rejection has left the SDK           *)

callVars == <<kind, listeners, received, halfClosed, cancelled>>
replyVars == <<alreadyReplied, effects, recorded, answers, ended>>
vars == <<callVars, turn, thrown, promise, replyVars, uncaught>>

Kinds == {"unary", "streamedIn", "streamedOut", "streamed"}
StreamsIn == kind \in {"streamedIn", "streamed"}
StreamsOut == kind \in {"streamedOut", "streamed"}

AnswerKinds == {"reply", "forward", "failure"}

TypeOK ==
  /\ kind \in Kinds
  /\ turn \in {"new", "gone", "none", "command", "data", "end", "cancelled"}
  /\ thrown \in BOOLEAN
  /\ promise \in {"none", "pending", "ignored", "settled"}
  /\ listeners \subseteq {"data", "end", "cancelled"}
  /\ received \in 0 .. MaxData /\ halfClosed \in BOOLEAN /\ cancelled \in BOOLEAN
  /\ alreadyReplied \in BOOLEAN
  /\ effects \in 0 .. MaxEffects /\ recorded \in 0 .. MaxEffects
  /\ answers \in Seq([kind : AnswerKinds, effects : 0 .. MaxEffects])
  /\ ended \in BOOLEAN /\ uncaught \in BOOLEAN

Init ==
  /\ kind \in Kinds
  /\ turn = "new" /\ thrown = FALSE /\ promise = "none" /\ listeners = {}
  /\ received = 0 /\ halfClosed = FALSE /\ cancelled = FALSE
  /\ alreadyReplied = FALSE /\ effects = 0 /\ recorded = 0
  /\ answers = <<>> /\ ended = FALSE /\ uncaught = FALSE

----------------------------------------------------------------------------
(* Answers. *)

Answer(k, n) == [kind |-> k, effects |-> n]

(* A write on a stream that was ended goes nowhere. *)
Sent(new) == answers' = IF ended THEN answers ELSE answers \o new

Silent == UNCHANGED replyVars

(* A function of the context throws when the call was cancelled, or when   *)
(* the answer cannot be serialized, or a failure has no valid status.      *)
Raises(ok) == cancelled \/ ~ ok

(* ctx.write, ctx.forward and ctx.fail, with n more side effects that a    *)
(* Reply brings along.  A unary context is marked as having replied before *)
(* the answer is serialized; a streamed one forgets its side effects after *)
(* each write.                                                             *)
AnswersKeepEffects(k, ok, n) ==
  /\ recorded + n <= MaxEffects
  /\ recorded' = IF cancelled THEN recorded ELSE recorded + n
  /\ effects' = IF cancelled THEN effects ELSE effects + n
  /\ alreadyReplied' = (alreadyReplied \/ (~ StreamsOut /\ ~ cancelled))
  /\ IF Raises(ok) THEN UNCHANGED answers ELSE Sent(<<Answer(k, effects + n)>>)
  /\ UNCHANGED ended
AnswersWithTwice(k, ok, n) ==
  /\ recorded + n <= MaxEffects
  /\ recorded' = IF cancelled THEN recorded ELSE recorded + n
  /\ effects' = IF cancelled THEN effects ELSE effects + n + n
  /\ alreadyReplied' = (alreadyReplied \/ (~ StreamsOut /\ ~ cancelled))
  /\ IF Raises(ok) THEN UNCHANGED answers ELSE Sent(<<Answer(k, effects + n + n)>>)
  /\ UNCHANGED ended
Answers(k, ok, n) ==
  /\ recorded + n <= MaxEffects
  /\ recorded' = IF cancelled THEN recorded ELSE recorded + n
  /\ effects' = IF cancelled THEN effects
                ELSE IF StreamsOut /\ ok THEN 0 ELSE effects + n
  /\ alreadyReplied' = (alreadyReplied \/ (~ StreamsOut /\ ~ cancelled))
  /\ IF Raises(ok) THEN UNCHANGED answers ELSE Sent(<<Answer(k, effects + n)>>)
  /\ UNCHANGED ended

(* invokeUserCallback: an error of the user's code is answered with a      *)
(* failure without side effects, and ends a stream.  A unary handler has   *)
(* then returned undefined, to which handleSingleReturn answers as well.   *)
AnswersError ==
  /\ IF cancelled THEN UNCHANGED <<answers, ended>>
     ELSE /\ Sent(IF kind = "unary" /\ ~ alreadyReplied
                  THEN <<Answer("failure", 0), Answer("reply", effects)>>
                  ELSE <<Answer("failure", 0)>>)
          /\ ended' = (ended \/ StreamsOut)
  /\ alreadyReplied' = (alreadyReplied \/ (kind = "unary" /\ ~ cancelled))
  /\ uncaught' = (uncaught \/ (kind = "unary" /\ cancelled /\ ~ alreadyReplied))
  /\ UNCHANGED <<effects, recorded>>

----------------------------------------------------------------------------
(* The start of a call. *)

(* No service, method or handler of that name. *)
NotFound ==
  /\ turn = "new" /\ turn' = "gone"
  /\ Sent(<<Answer("failure", 0)>>) /\ ended' = StreamsOut
  /\ UNCHANGED <<callVars, thrown, promise, alreadyReplied, effects, recorded, uncaught>>

(* The command of a unary or a streamed out call cannot be deserialized. *)
Undecodable ==
  /\ turn = "new" /\ ~ StreamsIn /\ turn' = "gone"
  /\ uncaught' = TRUE
  /\ UNCHANGED <<callVars, thrown, promise, replyVars>>

Begin ==
  /\ turn = "new" /\ turn' = "command"
  /\ UNCHANGED <<callVars, thrown, promise, replyVars, uncaught>>

----------------------------------------------------------------------------
(* The functions of the context. *)

(* An asynchronous handler goes on in turns of its own. *)
Async == turn = "none" /\ promise \in {"pending", "ignored"}
UserRuns == ~ thrown /\ (turn \notin {"new", "gone", "none"} \/ Async)

(* What the user's code may do with a call that was answered. *)
Again == "repeats" \in Habits \/ StreamsOut \/ answers = <<>>
MayMix == "mixes" \in Habits \/ StreamsOut \/ answers = <<>>

MayThrow(raised) == thrown' \in (IF raised THEN {TRUE} ELSE {FALSE}) \cup
                                (IF "swallows" \in Habits THEN {FALSE} ELSE {})

Respond(k, ok) ==
  /\ UserRuns /\ Again /\ Len(answers) < MaxWrites
  /\ Answers(k, ok, 0)
  /\ MayThrow(Raises(ok))
  /\ UNCHANGED <<callVars, turn, promise, uncaught>>

(* An error of the user's own in the code that runs. *)
Errs == MayMix /\ (kind = "unary" /\ turn = "command" => "throws" \in Habits)

(* ctx.effect; throws when the call was cancelled or when the effect       *)
(* cannot be serialized.                                                   *)
Effect(ok) ==
  /\ UserRuns /\ recorded < MaxEffects
  /\ ok \/ Errs
  /\ IF Raises(ok) THEN UNCHANGED <<effects, recorded>>
     ELSE effects' = effects + 1 /\ recorded' = recorded + 1
  /\ MayThrow(Raises(ok))
  /\ UNCHANGED <<callVars, turn, promise, alreadyReplied, answers, ended, uncaught>>

Register(event) ==
  /\ UserRuns
  /\ event \in (IF StreamsIn THEN {"data", "end"} ELSE {})
               \cup (IF StreamsOut THEN {"cancelled"} ELSE {})
  /\ listeners' = listeners \cup {event}
  /\ UNCHANGED <<kind, received, halfClosed, cancelled, turn, thrown, promise, replyVars,
                 uncaught>>

(* ctx.end of a streamed out context *)
EndStream ==
  /\ UserRuns /\ StreamsOut
  /\ ended' = (ended \/ ~ cancelled)
  /\ UNCHANGED <<callVars, turn, thrown, promise, alreadyReplied, effects, recorded, answers,
                 uncaught>>

----------------------------------------------------------------------------
(* How the user's code ends. *)

(* handleSingleReturn with a message or a Reply that brings n side         *)
(* effects: ignored after a reply through the context.                     *)
SingleReturnAlways(k, ok, n) ==
  Answers(k, ok, n) /\ uncaught' = (uncaught \/ Raises(ok))
SingleReturnNever(k, ok, n) == Silent /\ UNCHANGED uncaught
SingleReturn(k, ok, n) ==
  IF alreadyReplied THEN Silent /\ UNCHANGED uncaught
  ELSE Answers(k, ok, n) /\ uncaught' = (uncaught \/ Raises(ok))

Returns == ~ thrown /\ turn \notin {"new", "gone", "none"} /\ turn' = "none"
           /\ UNCHANGED <<callVars, thrown>>

(* The command handler returns undefined. *)
ReturnNothing ==
  /\ turn = "command" /\ Returns
  /\ IF kind = "unary" THEN SingleReturn("reply", TRUE, 0) ELSE Silent /\ UNCHANGED uncaught
  /\ UNCHANGED promise

(* It returns a message or a Reply.  A streamed in call writes what it     *)
(* gets, a Reply too, as the message, unless it was cancelled, whether or  *)
(* not it was answered; streamed answers are only given through the        *)
(* context.                                                                *)
ReturnValue(k, ok, n) ==
  /\ turn = "command" /\ Returns
  /\ \/ kind = "unary" /\ SingleReturn(k, ok, n)
     \/ kind = "streamedIn" /\ cancelled /\ Silent /\ UNCHANGED uncaught
     \/ kind = "streamedIn" /\ ~ cancelled /\ MayMix
          /\ Answers("reply", ok, 0) /\ uncaught' = (uncaught \/ ~ ok)
     \/ StreamsOut /\ Silent /\ UNCHANGED uncaught
  /\ UNCHANGED promise

(* It returns a promise, which a streamed answer, a unary call that was    *)
(* answered and a streamed in call that was cancelled do not look at.      *)
ReturnPromise ==
  /\ turn = "command" /\ Returns
  /\ promise' = IF \/ StreamsOut
                   \/ kind = "unary" /\ alreadyReplied
                   \/ kind = "streamedIn" /\ cancelled
                THEN "ignored" ELSE "pending"
  /\ Silent /\ UNCHANGED uncaught

(* A callback returns; a Reply that the one for the end returns is the     *)
(* answer.                                                                 *)
CallbackReturns ==
  /\ turn \in {"data", "end", "cancelled"} /\ Returns
  /\ Silent /\ UNCHANGED <<promise, uncaught>>

EndReplies(k, ok, n) ==
  /\ turn = "end" /\ Returns /\ MayMix
  /\ Answers(k, ok, n) /\ uncaught' = (uncaught \/ Raises(ok))
  /\ UNCHANGED promise

(* An error leaves the code that was called: one of the context, or one of *)
(* the user's.                                                             *)
Throw ==
  /\ turn \notin {"new", "gone", "none"}
  /\ thrown \/ Errs
  /\ turn' = "none" /\ thrown' = FALSE
  /\ AnswersError
  /\ UNCHANGED <<callVars, promise>>

Settles == Async /\ promise' = "settled" /\ thrown' = FALSE /\ UNCHANGED <<callVars, turn>>

(* The promise is fulfilled with a message or a Reply.  ctx.write is then  *)
(* called for a streamed in call, whether or not it was answered.          *)
Fulfils(k, ok, n) ==
  /\ ~ thrown /\ Settles
  /\ \/ promise = "ignored" /\ Silent /\ UNCHANGED uncaught
     \/ promise = "pending" /\ kind = "unary" /\ SingleReturn(k, ok, n)
     \/ promise = "pending" /\ kind = "streamedIn" /\ MayMix
          /\ Answers("reply", ok, 0) /\ uncaught' = (uncaught \/ Raises(ok))

(* It is fulfilled with undefined, which is answered with an empty reply,  *)
(* by a streamed in call even if it was answered.                          *)
FulfilsNothing ==
  /\ ~ thrown /\ Settles /\ promise = "pending"
  /\ \/ kind = "unary" /\ SingleReturn("reply", TRUE, 0)
     \/ kind = "streamedIn" /\ Answers("reply", TRUE, 0) /\ uncaught' = (uncaught \/ cancelled)

(* The promise is rejected: unary and streamed in calls fail.  ctx.fail is *)
(* not asked whether the call was answered.                                *)
Rejects ==
  /\ thrown \/ MayMix \/ promise = "ignored"
  /\ Settles
  /\ \/ promise = "pending" /\ Answers("failure", TRUE, 0) /\ uncaught' = (uncaught \/ cancelled)
     \/ promise = "ignored" /\ Silent /\ uncaught' = TRUE

----------------------------------------------------------------------------
(* What the client does. *)

Idle == turn = "none" /\ ~ thrown

ReceiveData ==
  /\ Idle /\ StreamsIn /\ ~ halfClosed
  /\ received < MaxData /\ received' = received + 1
  /\ \/ /\ turn' = IF "data" \in listeners THEN "data" ELSE "none"
        /\ UNCHANGED uncaught
     \/ turn' = turn /\ uncaught' = TRUE
  /\ UNCHANGED <<kind, listeners, halfClosed, cancelled, thrown, promise, replyVars>>

ReceiveEnd ==
  /\ Idle /\ StreamsIn /\ ~ halfClosed /\ halfClosed' = TRUE
  /\ turn' = IF "end" \in listeners THEN "end" ELSE "none"
  /\ UNCHANGED <<kind, listeners, received, cancelled, thrown, promise, replyVars, uncaught>>

Cancel ==
  /\ Idle /\ ~ cancelled /\ cancelled' = TRUE
  /\ answers = <<>> \/ (StreamsOut /\ ~ ended)
  /\ turn' = IF StreamsOut /\ "cancelled" \in listeners THEN "cancelled" ELSE "none"
  /\ UNCHANGED <<kind, listeners, received, halfClosed, thrown, promise, replyVars, uncaught>>

----------------------------------------------------------------------------

Starts == NotFound \/ Undecodable \/ Begin

Uses ==
  \/ \E k \in AnswerKinds, ok \in BOOLEAN : Respond(k, ok)
  \/ (\E ok \in BOOLEAN : Effect(ok)) \/ EndStream
  \/ \E event \in {"data", "end", "cancelled"} : Register(event)

Finishes ==
  \/ ReturnNothing \/ ReturnPromise \/ CallbackReturns \/ Throw
  \/ FulfilsNothing \/ Rejects
  \/ \E k \in AnswerKinds, ok \in BOOLEAN, n \in 0 .. MaxEffects :
       ReturnValue(k, ok, n) \/ EndReplies(k, ok, n) \/ Fulfils(k, ok, n)

Next == Starts \/ Uses \/ Finishes \/ ReceiveData \/ ReceiveEnd \/ Cancel

Spec == Init /\ [][Next]_vars

(* A call is started, and the user's code ends what it was called for. *)
FairSpec == Spec /\ WF_vars(Starts) /\ WF_vars(Finishes)

----------------------------------------------------------------------------
(* Properties. *)

(* The gRPC callback of a unary call is called at most once, through       *)
(* whichever of the context, the return value and the promise the answer   *)
(* comes first; also when an answer that could not be serialized was first *)
(* (handleSingleReturn).                                                   *)
AnsweredOnce == kind = "unary" => Len(answers) <= 1

(* The same of a streamed in call, whose handler and callbacks keep to     *)
(* what action.ts says: who writes through the context returns undefined.  *)
StreamedInAnsweredOnce == kind = "streamedIn" => Len(answers) <= 1

(* The side effects that went out with a sequence of answers. *)
EffectsOf(s) ==
  LET sent[n \in 0 .. Len(s)] == IF n = 0 THEN 0 ELSE sent[n - 1] + s[n].effects
  IN  sent[Len(s)]

(* Each side effect goes out with exactly one answer of a stream, the      *)
(* first that follows it.                                                  *)
EffectsOnce == StreamsOut /\ ~ ended => EffectsOf(answers) + effects = recorded

(* A unary or a streamed in answer carries what was recorded before it,    *)
(* unless it reports an error of the user's code.                          *)
EffectsGoAlong ==
  [][~ StreamsOut /\ Len(answers') = 1 /\ answers = <<>> =>
       answers'[1].effects \in {recorded'} \cup (IF answers'[1].kind = "failure" THEN {0} ELSE {})]_vars

(* A cancelled call is not answered any more. *)
CancelledIsQuiet == [][cancelled => answers' = answers]_vars

(* A unary call is answered once its handler has settled, unless the       *)
(* client has gone or the error has gone to nobody.                        *)
UnaryIsAnswered == kind = "unary" ~> answers # <<>> \/ cancelled \/ uncaught
=============================================================================
