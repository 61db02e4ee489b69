------------------------------ MODULE TckModels ------------------------------
(***************************************************************************)
(* The components the technology compatibility kit serves (tck/src): the   *)
(* event sourced and the value entity and the action that do what the      *)
(* steps of a request tell them, answering with a Reply, and beside them a *)
(* component of one's own whose handler builds its Reply step by step.     *)
(*                                                                         *)
(* A request is handled in one turn; it is a step of the specification per *)
(* step of the request so that requests need not be enumerated.            *)
(***************************************************************************)
EXTENDS Replies, SequencesExt

CONSTANTS
  Values,       (* the texts of a request: sequences, "" being <<>>        *)
  Call,         (* two.service.methods.Call                                *)
  Methods,      (* what a component of one's own takes for a method        *)
  MaxSteps,     (* bound: the steps of a request                           *)
  MaxState,     (* bound: the length of the persisted value                *)
  MixesFailure  (* may a request to the value entity change the state and  *)
                (* fail as well?                                           *)

ASSUME TckAssumption ==
  /\ MaxSteps \in Nat /\ MaxState \in Nat /\ MixesFailure \in BOOLEAN
  /\ \A v \in Values : v \in Seq(Range(v)) /\ Len(v) <= MaxState
  /\ Call.style # "none"

VARIABLES
  model,    (* the component                                               *)
  busy,     (* is a request being handled?                                 *)
  steps,    (* how many steps it had                                       *)
  saved,    (* the value the proxy has persisted                           *)
  memory,   (* the value in anyState                                       *)
  shown,    (* the value in the state the handler was given                *)
  work,     (* the events emitted, or the value of the last update or      *)
            (* deletion                                                    *)
  reply,    (* the handler's variable reply                                *)
  kept,     (* the outer reply of processStreamedIn                        *)
  effects,  (* an entity handler's variable effects                        *)
  wanted,   (* history: what the answer should be, by the last step that   *)
            (* answers                                                     *)
  due,      (* history: the side effects an answer has yet to carry        *)
  fresh,    (* history: those of the group of steps being handled          *)
  answers   (* the answers of the last request                             *)

entityVars == <<saved, memory, shown, work, effects>>
tckVars == <<model, busy, steps, entityVars, reply, kept, wanted, due, fresh, answers>>

Entities == {"eventSourced", "value"}
Actions == {"unary", "streamedIn", "streamedOut"}
Models == Entities \cup Actions \cup {"own"}

TckInit ==
  /\ model \in Models
  /\ busy = FALSE /\ steps = 0
  /\ saved = <<>> /\ memory = <<>> /\ shown = <<>> /\ work = <<>>
  /\ reply = {} /\ kept = EmptyReply /\ effects = <<>>
  /\ wanted = "reply" /\ due = <<>> /\ fresh = <<>> /\ answers = <<>>

(* A handler of an entity has no reply yet, one of an action an empty one. *)
NewReply == IF model \in Entities THEN {} ELSE {EmptyReply}

Begin ==
  /\ ~ busy /\ busy' = TRUE
  /\ steps' = 0 /\ answers' = <<>>
  /\ shown' = memory /\ work' = <<>> /\ effects' = <<>>
  /\ reply' = NewReply /\ kept' = EmptyReply
  /\ wanted' = "reply" /\ due' = <<>> /\ fresh' = <<>>
  /\ UNCHANGED <<model, saved, memory>>

(* The entity's stream is closed and opened again between two requests.    *)
Restart ==
  /\ ~ busy /\ model \in Entities
  /\ memory' = saved
  /\ UNCHANGED <<model, busy, steps, saved, shown, work, effects, reply, kept, wanted, due,
                 fresh, answers>>

----------------------------------------------------------------------------
(* The steps of a request. *)

InRequest ==
  busy /\ steps < MaxSteps /\ steps' = steps + 1 /\ UNCHANGED <<model, busy, answers>>
Answering(r, kind) == reply' = {r} /\ wanted' = kind
SameReply == UNCHANGED <<reply, wanted>>

EmitOnly(v) ==
  /\ model = "eventSourced" /\ InRequest
  /\ Len(shown) + Len(v) <= MaxState
  /\ work' = Append(work, v)
  /\ UNCHANGED <<saved, memory, shown, effects, kept, due, fresh>> /\ SameReply
(* emit: the event is not handled before the command handler has returned, *)
(* so that the handler's own state is updated as well.                     *)
Emit(v) ==
  /\ model = "eventSourced" /\ InRequest
  /\ Len(shown) + Len(v) <= MaxState
  /\ work' = Append(work, v) /\ shown' = shown \o v
  /\ UNCHANGED <<saved, memory, effects, kept, due, fresh>> /\ SameReply

(* update, and delete, which leaves no value; each overrides the other.    *)
MayChange == model = "value" /\ InRequest /\ (wanted = "failure" => MixesFailure)
Update(v) ==
  /\ MayChange /\ shown' = v /\ work' = <<v>>
  /\ UNCHANGED <<saved, memory, effects, kept, due, fresh>> /\ SameReply
Delete ==
  /\ MayChange /\ shown' = <<>> /\ work' = <<<<>>>>
  /\ UNCHANGED <<saved, memory, effects, kept, due, fresh>> /\ SameReply

(* A step of an action that answers makes a new Reply, and the side        *)
(* effects of the steps before it are gone.                                *)
Forward(m) ==
  /\ model # "own" /\ InRequest
  /\ Answering(ReplyForward(Call, m), "forward")
  /\ fresh' = IF model \in Entities THEN fresh ELSE <<>>
  /\ UNCHANGED <<entityVars, kept, due>>

Fail ==
  /\ model # "own" /\ InRequest
  /\ model = "value" /\ work # <<>> => MixesFailure
  /\ Answering(ReplyFailure(NoStatus), "failure")
  /\ fresh' = IF model \in Entities THEN fresh ELSE <<>>
  /\ UNCHANGED <<entityVars, kept, due>>

ReplyStep(m) ==
  /\ model \in Actions /\ InRequest
  /\ Answering(ReplyMessage(m), "reply")
  /\ fresh' = <<>>
  /\ UNCHANGED <<entityVars, kept, due>>

(* Entities put their side effects into the Reply at the end.              *)
Effect ==
  /\ model # "own" /\ InRequest
  /\ fresh' = Append(fresh, Call)
  /\ IF model \in Entities THEN effects' = Append(effects, Call) /\ UNCHANGED reply
     ELSE reply' = {AddEffects(r, <<Call>>) : r \in reply} /\ UNCHANGED effects
  /\ UNCHANGED <<saved, memory, shown, work, kept, wanted, due>>

(* The functions of a Reply, which a handler may call in any order; one    *)
(* with a status that is none throws instead.                              *)
Build ==
  /\ model = "own" /\ InRequest
  /\ \E r \in reply :
       \/ \E v \in Values : reply' = {SetMessage(r, v)}
       \/ \E method \in Methods, v \in Values : reply' = {SetForward(r, method, v)}
       \/ \E status \in {NoStatus, 0, 1, 16, 17} :
            ValidStatus(status) /\ reply' = {SetFailure(r, status)}
       \/ \E method \in Methods : reply' = {AddEffects(r, <<method>>)}
  /\ UNCHANGED <<entityVars, kept, wanted, due, fresh>>

----------------------------------------------------------------------------
(* The end of a request. *)

(* What throws is answered with a failure that ends the call.              *)
OrError(as) == IF as = {} THEN {Answer("error", {}, {}, <<>>)} ELSE as

Persisted == IF model = "value" THEN (IF work = <<>> THEN memory ELSE work[1])
             ELSE memory \o FlattenSeq(work)

(* An event sourced entity that has failed keeps its state, a value entity *)
(* its update; what cannot be answered ends the stream.                    *)
MemoryAfter(r, kind) ==
  IF kind = "error" THEN saved
  ELSE IF r.failure # {} /\ model = "eventSourced" THEN memory
  ELSE Persisted

(* process: the answer shows the handler's own state unless a step has     *)
(* answered.  The proxy persists nothing of a request that has failed.     *)
EndEntity ==
  /\ model \in Entities /\ busy /\ busy' = FALSE
  /\ \E r \in IF reply = {} THEN {ReplyMessage(shown)} ELSE reply :
       LET final == AddEffects(r, effects) IN
       /\ reply' = {final}
       /\ answers' = <<CHOOSE a \in OrError(EntityAnswer(final)) : TRUE>>
       /\ saved' = IF answers'[1].kind \in {"reply", "forward"} THEN Persisted ELSE saved
       /\ memory' = MemoryAfter(r, answers'[1].kind)
  /\ due' = fresh
  /\ UNCHANGED <<model, steps, shown, work, effects, kept, wanted, fresh>>

AnswersWith(r) ==
  answers' = Append(answers, CHOOSE a \in OrError(ActionAnswer(r, "typed")) : TRUE)

(* processUnary, and a group of steps of processStreamedOut.               *)
EndGroup ==
  /\ model \in {"unary", "streamedOut"} /\ busy
  /\ model = "unary" => busy' = FALSE
  /\ model = "streamedOut" => busy' \in BOOLEAN /\ (busy' => steps < MaxSteps)
  /\ steps' = IF busy' THEN steps + 1 ELSE steps
  /\ \E r \in reply : AnswersWith(r)
  /\ reply' = IF busy' THEN NewReply ELSE reply
  /\ due' = fresh
  /\ fresh' = IF busy' THEN <<>> ELSE fresh
  /\ wanted' = IF busy' THEN "reply" ELSE wanted
  /\ UNCHANGED <<model, entityVars, kept>>

(* The callback for data of processStreamedIn: the last Reply that is not  *)
(* empty is kept, the side effects of all.                                 *)
MergedKeepsLast(r) == IF IsEmpty(r) THEN AddEffects(kept, r.effects) ELSE r
Merged(r) ==
  IF IsEmpty(r) THEN AddEffects(kept, r.effects) ELSE AddEffects(r, kept.effects)
EndMessage ==
  /\ model = "streamedIn" /\ InRequest
  /\ \E r \in reply : kept' = Merged(r)
  /\ reply' = NewReply
  /\ due' = due \o fresh /\ fresh' = <<>>
  /\ UNCHANGED <<entityVars, wanted>>

(* ... and the one for the end, which comes between two messages.          *)
EndStream ==
  /\ model = "streamedIn" /\ busy /\ reply = {EmptyReply} /\ fresh = <<>>
  /\ busy' = FALSE
  /\ AnswersWith(kept)
  /\ UNCHANGED <<model, steps, entityVars, reply, kept, wanted, due, fresh>>

(* One's own component is an entity, or an action whose response is of a    *)
(* type of its own or an Any.                                              *)
AnswersOfOwn(r) == {EntityAnswer(r)} \cup {ActionAnswer(r, response) : response \in {"typed", "any"}}
EndOwn ==
  /\ model = "own" /\ busy /\ busy' = FALSE
  /\ \E r \in reply : \E as \in AnswersOfOwn(r) :
       answers' = <<CHOOSE a \in OrError(as) : TRUE>>
  /\ UNCHANGED <<model, steps, entityVars, reply, kept, wanted, due, fresh>>

Steps ==
  \/ \E v \in Values : Emit(v) \/ Update(v) \/ Forward(v) \/ ReplyStep(v)
  \/ Delete \/ Fail \/ Effect \/ Build

TckNext ==
  \/ Begin \/ Restart \/ Steps
  \/ EndEntity \/ EndGroup \/ EndMessage \/ EndStream \/ EndOwn

TckSpec == TckInit /\ [][TckNext]_tckVars

----------------------------------------------------------------------------
(* Properties. *)

Targets == UNION {Target(m) : m \in Methods \cup {Call}}
AnswerKinds == {"reply", "forward", "failure", "error"}

TckTypeOK ==
  /\ model \in Models /\ busy \in BOOLEAN /\ steps \in 0 .. MaxSteps
  /\ \A value \in {saved, memory, shown} :
       value \in Seq(UNION {Range(v) : v \in Values}) /\ Len(value) <= MaxState
  /\ work \in Seq(Values \cup {<<>>})
  /\ Cardinality(reply) <= 1
  /\ \A methods \in {effects, due, fresh} : methods \in Seq({Call})
  /\ wanted \in {"reply", "forward", "failure"}
  /\ \A i \in DOMAIN answers :
       /\ answers[i].kind \in AnswerKinds
       /\ answers[i].to \subseteq Targets
       /\ answers[i].effects \in Seq(Targets)

LastAnswer == answers[Len(answers)]
IsAnswered == ~ busy /\ answers # <<>>

(* The state an entity shows in its answer, which the handler has brought  *)
(* up to date on its own, is the state the next request is given, and the  *)
(* one a restarted entity finds; also after a request that has failed,     *)
(* whatever it had emitted.                                                *)
AnswerShowsState ==
  model \in Entities /\ IsAnswered =>
    /\ memory = saved
    /\ LastAnswer.kind = "reply" => LastAnswer.payload = {saved}

(* The last step that answers decides, also over the messages of a stream  *)
(* of which some do not answer, and no side effect is lost or sent twice:  *)
(* those of the steps since the last that answers, in an entity those of   *)
(* all steps, unless an entity fails.                                      *)
AnswersAsAsked ==
  model # "own" /\ IsAnswered /\ LastAnswer.kind # "error" =>
    /\ LastAnswer.kind = wanted
    /\ Len(LastAnswer.effects) =
         IF model \in Entities /\ wanted = "failure" THEN 0 ELSE Len(due)

(* An empty Reply, which "may be useful for emitting effects while sending *)
(* an empty message" (reply.ts:115-117), sends an empty message, whatever  *)
(* kind of component returns it and whatever the type of the response.     *)
EmptyIsEmpty ==
  model = "own" /\ IsAnswered /\ LastAnswer.kind = "reply" =>
    \A r \in reply : IsEmpty(r) => LastAnswer.payload = {}
=============================================================================
