--------------------------- MODULE ActionCallProofs --------------------------
(***************************************************************************)
(* Theorems about ActionCall, for every number of messages, writes and     *)
(* side effects.                                                           *)
(***************************************************************************)
EXTENDS ActionCall, WellFoundedInduction, TLAPS

AnswerType == [kind : AnswerKinds, effects : 0 .. MaxEffects]

ReplyTypeOK ==
  /\ alreadyReplied \in BOOLEAN
  /\ effects \in 0 .. MaxEffects /\ recorded \in 0 .. MaxEffects
  /\ answers \in Seq(AnswerType)
  /\ ended \in BOOLEAN

(* A context never holds more side effects than were recorded, and one     *)
(* without streamed answers holds them all.                                *)
EffectsHeld ==
  /\ effects <= recorded
  /\ ~ StreamsOut => effects = recorded

TypeInv == TypeOK /\ EffectsHeld

----------------------------------------------------------------------------
(* What is sent. *)

LEMMA AnswerTyped ==
  ASSUME NEW k \in AnswerKinds, NEW n \in 0 .. MaxEffects
  PROVE  Answer(k, n) \in AnswerType
BY DEF Answer, AnswerType

LEMMA SentOne ==
  ASSUME answers \in Seq(AnswerType), NEW a \in AnswerType, Sent(<<a>>)
  PROVE  /\ answers' \in Seq(AnswerType)
         /\ answers = <<>> /\ ~ ended => answers' = <<a>>
<1>1. answers' \in Seq(AnswerType)
  BY DEF Sent
<1>2. <<>> \o <<a>> = <<a>>
  OBVIOUS
<1> QED BY <1>1, <1>2 DEF Sent

LEMMA SentTwo ==
  ASSUME answers \in Seq(AnswerType), NEW a \in AnswerType, NEW b \in AnswerType, Sent(<<a, b>>)
  PROVE  answers' \in Seq(AnswerType)
BY DEF Sent

(* What each way to answer does to the types. *)
LEMMA AnswersType ==
  ASSUME TypeInv, NEW k \in AnswerKinds, NEW ok \in BOOLEAN, NEW n \in 0 .. MaxEffects,
         Answers(k, ok, n), kind' = kind
  PROVE  ReplyTypeOK' /\ EffectsHeld'
<1>1. effects \in Nat /\ recorded \in Nat /\ n \in Nat /\ effects <= recorded
      /\ recorded + n <= MaxEffects /\ effects + n \in 0 .. MaxEffects
  BY ActionAssumption DEF TypeInv, TypeOK, EffectsHeld, Answers
<1>2. answers' \in Seq(AnswerType)
  <2>1. answers \in Seq(AnswerType) /\ Answer(k, effects + n) \in AnswerType
    BY <1>1, AnswerTyped DEF TypeInv, TypeOK, AnswerType
  <2> QED BY <2>1, SentOne DEF Answers
<1>3. effects' \in 0 .. MaxEffects /\ recorded' \in 0 .. MaxEffects
  BY <1>1, ActionAssumption DEF Answers, TypeInv, TypeOK
<1>4. EffectsHeld'
  BY <1>1 DEF Answers, TypeInv, EffectsHeld, StreamsOut
<1>5. alreadyReplied' \in BOOLEAN /\ ended' \in BOOLEAN
  BY DEF Answers, TypeInv, TypeOK
<1> QED BY <1>2, <1>3, <1>4, <1>5 DEF ReplyTypeOK

LEMMA SingleReturnType ==
  ASSUME TypeInv, NEW k \in AnswerKinds, NEW ok \in BOOLEAN, NEW n \in 0 .. MaxEffects,
         SingleReturn(k, ok, n), kind' = kind
  PROVE  ReplyTypeOK' /\ EffectsHeld' /\ uncaught' \in BOOLEAN
<1>1. CASE alreadyReplied
  BY <1>1 DEF SingleReturn, Silent, replyVars, TypeInv, TypeOK, ReplyTypeOK, AnswerType,
              EffectsHeld, StreamsOut
<1>2. CASE ~ alreadyReplied
  BY <1>2, AnswersType DEF SingleReturn, Raises, TypeInv, TypeOK
<1> QED BY <1>1, <1>2

LEMMA ErrorType ==
  ASSUME TypeInv, AnswersError, kind' = kind
  PROVE  ReplyTypeOK' /\ EffectsHeld' /\ uncaught' \in BOOLEAN
<1>1. answers' \in Seq(AnswerType)
  <2>1. answers \in Seq(AnswerType) /\ 0 \in 0 .. MaxEffects /\ effects \in 0 .. MaxEffects
    BY ActionAssumption DEF TypeInv, TypeOK, AnswerType
  <2>2. "failure" \in AnswerKinds /\ "reply" \in AnswerKinds
    BY DEF AnswerKinds
  <2>3. Answer("failure", 0) \in AnswerType /\ Answer("reply", effects) \in AnswerType
    BY <2>1, <2>2, AnswerTyped
  <2> QED BY <2>1, <2>3, SentOne, SentTwo DEF AnswersError
<1>2. UNCHANGED <<effects, recorded>> /\ alreadyReplied' \in BOOLEAN /\ ended' \in BOOLEAN
      /\ uncaught' \in BOOLEAN
  BY DEF AnswersError, TypeInv, TypeOK, StreamsOut
<1> QED BY <1>1, <1>2 DEF ReplyTypeOK, TypeInv, TypeOK, EffectsHeld, StreamsOut

LEMMA SilentType ==
  ASSUME TypeInv, Silent, kind' = kind
  PROVE  ReplyTypeOK' /\ EffectsHeld'
BY DEF Silent, replyVars, TypeInv, TypeOK, ReplyTypeOK, AnswerType, EffectsHeld, StreamsOut

----------------------------------------------------------------------------
(* Type correctness.                                                       *)

LEMMA TypeInit == Init => TypeInv
<1>1. 0 \in 0 .. MaxEffects /\ 0 \in 0 .. MaxData
  BY ActionAssumption
<1>2. ASSUME Init PROVE TypeOK
  <2>1. answers \in Seq(AnswerType)
    BY <1>2 DEF Init
  <2>2. /\ turn \in {"new"} /\ promise \in {"none"} /\ listeners \subseteq {"data", "end", "cancelled"}
        /\ effects \in 0 .. MaxEffects /\ recorded \in 0 .. MaxEffects /\ received \in 0 .. MaxData
    BY <1>1, <1>2 DEF Init
  <2> QED BY <1>2, <2>1, <2>2 DEF Init, TypeOK, AnswerType
<1>3. ASSUME Init PROVE EffectsHeld
  BY <1>3 DEF Init, EffectsHeld
<1> QED BY <1>2, <1>3 DEF TypeInv

(* The parts of the type invariant that are not about the reply. *)
CallTypeOK ==
  /\ kind \in Kinds
  /\ turn \in {"new", "gone", "none", "command", "data", "end", "cancelled"}
  /\ thrown \in BOOLEAN
  /\ promise \in {"none", "pending", "ignored", "settled"}
  /\ listeners \subseteq {"data", "end", "cancelled"}
  /\ received \in 0 .. MaxData /\ halfClosed \in BOOLEAN /\ cancelled \in BOOLEAN
  /\ uncaught \in BOOLEAN

LEMMA TypeParts == TypeInv <=> CallTypeOK /\ ReplyTypeOK /\ EffectsHeld
BY DEF TypeInv, TypeOK, CallTypeOK, ReplyTypeOK, AnswerType

LEMMA StartsType == TypeInv /\ Starts => TypeInv'
<1> SUFFICES ASSUME TypeInv, Starts PROVE CallTypeOK' /\ ReplyTypeOK' /\ EffectsHeld'
  BY TypeParts DEF TypeInv, TypeOK, CallTypeOK, ReplyTypeOK, AnswerType
<1>1. CallTypeOK'
  BY DEF Starts, NotFound, Undecodable, Begin, callVars, TypeInv, TypeOK, CallTypeOK
<1>2. CASE NotFound
  <2>1. "failure" \in AnswerKinds /\ 0 \in 0 .. MaxEffects /\ answers \in Seq(AnswerType)
    BY ActionAssumption DEF AnswerKinds, TypeInv, TypeOK, AnswerType
  <2>2. answers' \in Seq(AnswerType)
    BY <1>2, <2>1, AnswerTyped, SentOne DEF NotFound
  <2> QED BY <1>1, <1>2, <2>2
          DEF NotFound, callVars, TypeInv, TypeOK, ReplyTypeOK, EffectsHeld, StreamsOut
<1>3. CASE Undecodable \/ Begin
  BY <1>1, <1>3, SilentType DEF Undecodable, Begin, Silent, callVars
<1> QED BY <1>1, <1>2, <1>3 DEF Starts

LEMMA UsesType == TypeInv /\ Uses => TypeInv'
<1> SUFFICES ASSUME TypeInv, Uses PROVE CallTypeOK' /\ ReplyTypeOK' /\ EffectsHeld'
  BY TypeParts DEF TypeInv, TypeOK, CallTypeOK, ReplyTypeOK, AnswerType
<1>1. ASSUME NEW k \in AnswerKinds, NEW ok \in BOOLEAN, Respond(k, ok)
      PROVE  CallTypeOK' /\ ReplyTypeOK' /\ EffectsHeld'
  <2>1. 0 \in 0 .. MaxEffects /\ kind' = kind
    BY <1>1, ActionAssumption DEF Respond, callVars
  <2>2. ReplyTypeOK' /\ EffectsHeld'
    BY <1>1, <2>1, AnswersType DEF Respond
  <2> QED BY <1>1, <2>2 DEF Respond, MayThrow, callVars, TypeInv, TypeOK, CallTypeOK
<1>2. ASSUME NEW ok \in BOOLEAN, Effect(ok) PROVE CallTypeOK' /\ ReplyTypeOK' /\ EffectsHeld'
  <2>1. CallTypeOK'
    BY <1>2 DEF Effect, MayThrow, callVars, TypeInv, TypeOK, CallTypeOK
  <2>2. effects' \in 0 .. MaxEffects /\ recorded' \in 0 .. MaxEffects /\ EffectsHeld'
    BY <1>2, ActionAssumption
       DEF Effect, callVars, TypeInv, TypeOK, EffectsHeld, StreamsOut
  <2> QED BY <1>2, <2>1, <2>2 DEF Effect, TypeInv, TypeOK, ReplyTypeOK, AnswerType
<1>3. CASE EndStream
  BY <1>3 DEF EndStream, callVars, TypeInv, TypeOK, CallTypeOK, ReplyTypeOK, AnswerType,
              EffectsHeld, StreamsOut
<1>4. ASSUME NEW event \in {"data", "end", "cancelled"}, Register(event)
      PROVE  CallTypeOK' /\ ReplyTypeOK' /\ EffectsHeld'
  BY <1>4, SilentType DEF Register, Silent, TypeInv, TypeOK, CallTypeOK
<1> QED BY <1>1, <1>2, <1>3, <1>4 DEF Uses

LEMMA FinishesType == TypeInv /\ Finishes => TypeInv'
<1> SUFFICES ASSUME TypeInv, Finishes PROVE CallTypeOK' /\ ReplyTypeOK' /\ EffectsHeld'
  BY TypeParts DEF TypeInv, TypeOK, CallTypeOK, ReplyTypeOK, AnswerType
<1> DEFINE Kept == /\ UNCHANGED callVars
                   /\ turn' \in {turn, "none"} /\ thrown' \in {thrown, FALSE}
                   /\ promise' \in {promise, "pending", "ignored", "settled"}
<1>1. Kept
  BY DEF Finishes, ReturnNothing, ReturnPromise, CallbackReturns, Throw, FulfilsNothing, Rejects, ReturnValue,
         EndReplies, Fulfils, Returns, Settles
<1>2. kind' = kind /\ (uncaught' \in BOOLEAN => CallTypeOK')
  BY <1>1 DEF callVars, TypeInv, TypeOK, CallTypeOK
<1>3. 0 \in 0 .. MaxEffects /\ "reply" \in AnswerKinds /\ "failure" \in AnswerKinds
      /\ uncaught \in BOOLEAN /\ cancelled \in BOOLEAN
  BY ActionAssumption DEF AnswerKinds, TypeInv, TypeOK
<1>4. CASE ReturnNothing \/ ReturnPromise \/ CallbackReturns
  BY <1>2, <1>3, <1>4, SilentType, SingleReturnType
     DEF ReturnNothing, ReturnPromise, CallbackReturns
<1>5. CASE Throw \/ FulfilsNothing
  <2>1. (uncaught \/ cancelled) \in BOOLEAN
    BY <1>3
  <2> QED BY <1>2, <1>3, <1>5, <2>1, ErrorType, AnswersType, SingleReturnType DEF Throw, FulfilsNothing
<1>6. CASE Rejects
  <2>1. uncaught' \in BOOLEAN
    BY <1>3, <1>6 DEF Rejects
  <2> QED BY <1>2, <1>3, <1>6, <2>1, SilentType, AnswersType DEF Rejects
<1>7. ASSUME NEW k \in AnswerKinds, NEW ok \in BOOLEAN, NEW n \in 0 .. MaxEffects,
             ReturnValue(k, ok, n) \/ EndReplies(k, ok, n) \/ Fulfils(k, ok, n)
      PROVE  CallTypeOK' /\ ReplyTypeOK' /\ EffectsHeld'
  <2>1. CASE SingleReturn(k, ok, n)
    BY <1>2, <2>1, SingleReturnType
  <2>2. CASE (\E l \in {k, "reply"}, m \in {n, 0} : Answers(l, ok, m)) /\ uncaught' \in BOOLEAN
    BY <1>2, <1>3, <2>2, AnswersType
  <2>3. CASE Silent /\ uncaught' = uncaught
    BY <1>2, <1>3, <2>3, SilentType
  <2>4. Raises(ok) \in BOOLEAN
    BY <1>3 DEF Raises
  <2> QED BY <1>3, <1>7, <2>1, <2>2, <2>3, <2>4 DEF ReturnValue, EndReplies, Fulfils
<1> QED BY <1>4, <1>5, <1>6, <1>7 DEF Finishes

LEMMA TypeNext == TypeInv /\ [Next]_vars => TypeInv'
<1> SUFFICES ASSUME TypeInv, [Next]_vars PROVE TypeInv'
  OBVIOUS
<1>1. CASE ReceiveData \/ ReceiveEnd \/ Cancel \/ UNCHANGED vars
  <2>1. kind' = kind /\ Silent
    BY <1>1 DEF ReceiveData, ReceiveEnd, Cancel, vars, callVars, Silent
  <2>2. received' \in 0 .. MaxData
    BY <1>1, ActionAssumption
       DEF ReceiveData, ReceiveEnd, Cancel, vars, callVars, TypeInv, TypeOK
  <2>3. CallTypeOK'
    BY <1>1, <2>2
       DEF ReceiveData, ReceiveEnd, Cancel, vars, callVars, TypeInv, TypeOK, CallTypeOK
  <2> QED BY <2>1, <2>3, SilentType DEF TypeInv, TypeOK, CallTypeOK, ReplyTypeOK, AnswerType
<1> QED BY <1>1, StartsType, UsesType, FinishesType DEF Next

LEMMA TypeInvariant == Spec => []TypeInv
BY TypeInit, TypeNext, PTL DEF Spec

(* Every variable of a call keeps its type.                                *)
THEOREM TypeCorrect == Spec => []TypeOK
BY TypeInvariant, PTL DEF TypeInv

----------------------------------------------------------------------------
(* How an answer comes about.                                              *)

(* An answer of a call that was not answered before. *)
LEMMA AnswersPut ==
  ASSUME TypeInv, NEW k \in AnswerKinds, NEW ok \in BOOLEAN, NEW n \in 0 .. MaxEffects,
         Answers(k, ok, n)
  PROVE  /\ Raises(ok) => answers' = answers
         /\ answers = <<>> /\ ~ ended => answers' = <<>> \/ answers' = <<Answer(k, effects + n)>>
         /\ ~ ended => ~ ended'
         /\ ~ StreamsOut => alreadyReplied' \/ cancelled
<1>1. effects + n \in 0 .. MaxEffects /\ answers \in Seq(AnswerType)
  BY ActionAssumption DEF TypeInv, TypeOK, EffectsHeld, Answers, AnswerType
<1>2. answers = <<>> /\ ~ ended => answers' = <<>> \/ answers' = <<Answer(k, effects + n)>>
  BY <1>1, AnswerTyped, SentOne DEF Answers
<1> QED BY <1>2 DEF Answers, TypeInv, TypeOK

(* The two ways in which user code is answered. *)
Answering ==
  \/ \E k \in AnswerKinds, ok \in BOOLEAN, n \in 0 .. MaxEffects : Answers(k, ok, n)
  \/ AnswersError

LEMMA AnswerStep ==
  ASSUME TypeInv, [Next]_vars
  PROVE  kind' = kind /\ (answers' = answers \/ Answering \/ NotFound)
<1>1. 0 \in 0 .. MaxEffects /\ "reply" \in AnswerKinds /\ "failure" \in AnswerKinds
  BY ActionAssumption DEF AnswerKinds
<1>2. CASE ReceiveData \/ ReceiveEnd \/ Cancel \/ UNCHANGED vars
  BY <1>2 DEF ReceiveData, ReceiveEnd, Cancel, vars, callVars, replyVars
<1>3. CASE Starts
  BY <1>3 DEF Starts, NotFound, Undecodable, Begin, callVars, replyVars
<1>4. CASE Uses
  <2>1. CASE \E k \in AnswerKinds, ok \in BOOLEAN : Respond(k, ok)
    BY <1>1, <2>1 DEF Respond, callVars, Answering
  <2>2. CASE (\E ok \in BOOLEAN : Effect(ok)) \/ EndStream \/ \E event \in {"data", "end", "cancelled"} : Register(event)
    BY <2>2 DEF Effect, EndStream, Register, callVars, replyVars
  <2> QED BY <1>4, <2>1, <2>2 DEF Uses
<1>5. CASE ReturnNothing \/ ReturnPromise \/ CallbackReturns \/ Throw \/ FulfilsNothing \/ Rejects
  <2>1. kind' = kind
    BY <1>5 DEF ReturnNothing, ReturnPromise, CallbackReturns, Throw, FulfilsNothing, Rejects, Returns, Settles,
                callVars
  <2>2. \/ SingleReturn("reply", TRUE, 0) \/ Silent \/ AnswersError
        \/ Answers("failure", TRUE, 0) \/ Answers("reply", TRUE, 0)
    BY <1>5 DEF ReturnNothing, ReturnPromise, CallbackReturns, Throw, FulfilsNothing, Rejects
  <2> QED BY <1>1, <2>1, <2>2 DEF SingleReturn, Silent, replyVars, Answering
<1>6. ASSUME NEW k \in AnswerKinds, NEW ok \in BOOLEAN, NEW n \in 0 .. MaxEffects,
             ReturnValue(k, ok, n) \/ EndReplies(k, ok, n) \/ Fulfils(k, ok, n)
      PROVE  kind' = kind /\ (answers' = answers \/ Answering)
  <2>1. kind' = kind
    BY <1>6 DEF ReturnValue, EndReplies, Fulfils, Returns, Settles, callVars
  <2>2. SingleReturn(k, ok, n) \/ Silent \/ Answers(k, ok, n) \/ Answers("reply", ok, 0)
    BY <1>6 DEF ReturnValue, EndReplies, Fulfils
  <2> QED BY <1>1, <2>1, <2>2 DEF SingleReturn, Silent, replyVars, Answering
<1> QED BY <1>2, <1>3, <1>4, <1>5, <1>6 DEF Next, Finishes

(* EffectsGoAlong, for any handler.                                        *)
THEOREM EffectsTheorem == Spec => EffectsGoAlong
<1>1. ASSUME TypeInv, [Next]_vars, ~ StreamsOut, Len(answers') = 1, answers = <<>>
      PROVE  answers'[1].effects \in
               {recorded'} \cup (IF answers'[1].kind = "failure" THEN {0} ELSE {})
  <2>1. answers' # answers
    BY <1>1
  <2>2. CASE NotFound
    <3>1. "failure" \in AnswerKinds /\ 0 \in 0 .. MaxEffects /\ answers \in Seq(AnswerType)
      BY <1>1, ActionAssumption DEF AnswerKinds, TypeInv, TypeOK, AnswerType
    <3>2. ended \/ answers' = <<Answer("failure", 0)>>
      BY <1>1, <2>2, <3>1, AnswerTyped, SentOne DEF NotFound
    <3>3. ended => answers' = answers
      BY <2>2 DEF NotFound, Sent
    <3> QED BY <2>1, <3>2, <3>3 DEF Answer
  <2>3. ASSUME NEW k \in AnswerKinds, NEW ok \in BOOLEAN, NEW n \in 0 .. MaxEffects,
               Answers(k, ok, n)
        PROVE  answers'[1].effects = recorded'
    <3>1. ~ ended
      BY <2>1, <2>3 DEF Answers, Sent
    <3>2. answers' = <<Answer(k, effects + n)>>
      BY <1>1, <2>1, <2>3, <3>1, AnswersPut
    <3>3. ~ cancelled
      BY <2>1, <2>3 DEF Answers, Raises
    <3>4. recorded' = effects + n
      BY <1>1, <2>3, <3>3 DEF Answers, TypeInv, EffectsHeld
    <3> QED BY <3>2, <3>4 DEF Answer
  <2>4. CASE AnswersError
    <3> DEFINE one == Answer("failure", 0)
               two == Answer("reply", effects)
    <3>1. ~ ended /\ (Sent(<<one>>) \/ Sent(<<one, two>>))
      BY <2>1, <2>4 DEF AnswersError, Sent
    <3> HIDE DEF two
    <3>2. answers' = <<one>> \/ answers' = <<one, two>>
      <4> HIDE DEF one
      <4> QED BY <1>1, <3>1 DEF Sent
    <3>3. answers'[1] = one
      <4> HIDE DEF one
      <4> QED BY <3>2
    <3> QED BY <3>3 DEF Answer
  <2> QED BY <1>1, <2>1, <2>2, <2>3, <2>4, AnswerStep DEF Answering
<1>2. TypeInv /\ [Next]_vars =>
        [~ StreamsOut /\ Len(answers') = 1 /\ answers = <<>> =>
           answers'[1].effects \in
             {recorded'} \cup (IF answers'[1].kind = "failure" THEN {0} ELSE {})]_vars
  BY <1>1
<1> QED BY <1>2, TypeInvariant, PTL DEF Spec, EffectsGoAlong

----------------------------------------------------------------------------
(* Silence after cancellation.                                             *)

(* A call is not cancelled before it has started. *)
NewInv == turn = "new" => ~ cancelled

LEMMA NewNext == NewInv /\ [Next]_vars => NewInv'
<1> SUFFICES ASSUME NewInv, [Next]_vars PROVE NewInv'
  OBVIOUS
<1>1. CASE Starts \/ Uses \/ ReceiveData \/ ReceiveEnd \/ Cancel \/ UNCHANGED vars
  BY <1>1 DEF NewInv, Starts, NotFound, Undecodable, Begin, Uses, Respond, Effect, EndStream,
              Register, ReceiveData, ReceiveEnd, Cancel, Idle, vars, callVars
<1>2. CASE Finishes
  <2>1. UNCHANGED callVars /\ (turn' = turn \/ turn' = "none")
    BY <1>2 DEF Finishes, ReturnNothing, ReturnPromise, CallbackReturns, Throw, FulfilsNothing, Rejects,
                ReturnValue, EndReplies, Fulfils, Returns, Settles
  <2> QED BY <2>1 DEF NewInv, callVars
<1> QED BY <1>1, <1>2 DEF Next

(* CancelledIsQuiet, for any handler.                                      *)
THEOREM CancelledTheorem == Spec => CancelledIsQuiet
<1>1. Init => NewInv
  BY DEF Init, NewInv
<1>2. ASSUME TypeInv, NewInv, [Next]_vars, cancelled PROVE answers' = answers
  <2>1. ~ NotFound
    BY <1>2 DEF NewInv, NotFound
  <2>2. Answering => answers' = answers
    BY <1>2 DEF Answering, Answers, Raises, AnswersError
  <2> QED BY <1>2, <2>1, <2>2, AnswerStep
<1>3. TypeInv /\ NewInv /\ [Next]_vars => [cancelled => answers' = answers]_vars
  BY <1>2
<1> QED BY <1>1, <1>3, NewNext, TypeInvariant, PTL DEF Spec, CancelledIsQuiet

----------------------------------------------------------------------------
(* One answer, from handlers that answer in one way.                       *)

OneWay == {"throws", "repeats", "mixes"} \cap Habits = {}

(* Why a unary call with one answer is not answered again: code in which   *)
(* the context threw, and a call that was cancelled, have no answer yet,   *)
(* and otherwise the context knows that there is one.                      *)
OnceInv ==
  kind = "unary" =>
    /\ ~ ended /\ Len(answers) <= 1
    /\ cancelled \/ thrown => answers = <<>>
    /\ turn = "new" => answers = <<>> /\ ~ cancelled /\ ~ thrown
    /\ turn \in {"new", "gone", "none", "command"}
    /\ turn # "gone" => alreadyReplied \/ answers = <<>>
    /\ turn = "command" /\ thrown => cancelled \/ alreadyReplied

LEMMA OnceInit == Init => OnceInv
BY DEF Init, OnceInv

LEMMA Lengths == ASSUME NEW a PROVE Len(<<>>) <= 1 /\ Len(<<a>>) <= 1
OBVIOUS

(* A first answer, in whatever turn it comes. *)
LEMMA FirstAnswer ==
  ASSUME TypeInv, OnceInv, kind = "unary", answers = <<>>, NEW k \in AnswerKinds,
         NEW ok \in BOOLEAN, NEW n \in 0 .. MaxEffects, Answers(k, ok, n)
  PROVE  /\ ~ ended' /\ Len(answers') <= 1
         /\ Raises(ok) => answers' = <<>>
         /\ alreadyReplied' \/ cancelled
<1>1. ~ ended
  BY DEF OnceInv
<1>2. answers' = <<>> \/ answers' = <<Answer(k, effects + n)>>
  BY <1>1, AnswersPut
<1>3. Len(answers') <= 1
  BY <1>2, Lengths, Zenon
<1>4. ~ StreamsOut
  BY DEF StreamsOut
<1> QED BY <1>1, <1>3, <1>4, AnswersPut

(* After any of them a call in which nothing is thrown is as it was. *)
LEMMA AfterAnswer ==
  ASSUME TypeInv, OnceInv, kind = "unary", answers = <<>>, NEW k \in AnswerKinds,
         NEW ok \in BOOLEAN, NEW n \in 0 .. MaxEffects, Answers(k, ok, n),
         UNCHANGED callVars, turn' \in {turn, "none"}, turn # "new",
         thrown' => Raises(ok)
  PROVE  OnceInv'
<1>1. ~ ended' /\ Len(answers') <= 1 /\ (Raises(ok) => answers' = <<>>)
      /\ (alreadyReplied' \/ cancelled)
  BY FirstAnswer
<1>2. cancelled => answers' = <<>>
  BY <1>1 DEF Raises
<1>3. thrown' => answers' = <<>>
  BY <1>1
<1>4. UNCHANGED <<kind, cancelled>> /\ turn' # "new"
  BY DEF callVars
<1>5. cancelled' \/ thrown' => answers' = <<>>
  BY <1>2, <1>3, <1>4
<1>6. (alreadyReplied' \/ answers' = <<>>) /\ (cancelled' \/ alreadyReplied')
  BY <1>1, <1>2, <1>4
<1>7. turn' \in {"gone", "none", "command"}
  BY DEF OnceInv
<1> QED BY <1>1, <1>4, <1>5, <1>6, <1>7 DEF OnceInv

(* A step that answers nothing, and throws nothing. *)
LEMMA QuietOnce ==
  ASSUME OnceInv, Silent, UNCHANGED <<kind, cancelled>>, thrown' = FALSE,
         turn' \in {turn, "none"}, turn # "new", turn # "gone"
  PROVE  OnceInv'
BY DEF OnceInv, Silent, replyVars, StreamsOut

LEMMA SingleReturnOnce ==
  ASSUME TypeInv, OnceInv, kind = "unary", NEW k \in AnswerKinds, NEW ok \in BOOLEAN,
         NEW n \in 0 .. MaxEffects, SingleReturn(k, ok, n), UNCHANGED callVars,
         turn' \in {turn, "none"}, turn \notin {"new", "gone"}, thrown' = FALSE
  PROVE  OnceInv'
<1>1. ~ StreamsOut
  BY DEF StreamsOut
<1>2. CASE alreadyReplied
  BY <1>2, QuietOnce DEF SingleReturn, callVars
<1>3. CASE ~ alreadyReplied
  <2>1. answers = <<>>
    BY <1>1, <1>3 DEF OnceInv
  <2> QED BY <1>1, <1>3, <2>1, AfterAnswer DEF SingleReturn
<1> QED BY <1>2, <1>3

LEMMA StartsOnce == TypeInv /\ OnceInv /\ Starts => OnceInv'
<1> SUFFICES ASSUME TypeInv, OnceInv, Starts PROVE OnceInv'
  OBVIOUS
<1>1. CASE NotFound
  <2>1. /\ kind' = kind /\ turn' = "gone" /\ turn = "new"
        /\ ~ thrown => ~ thrown'
        /\ ~ cancelled => ~ cancelled'
        /\ ~ StreamsOut => ~ ended'
    BY <1>1 DEF NotFound, callVars
  <2>2. CASE kind = "unary"
    <3>1. "failure" \in AnswerKinds /\ 0 \in 0 .. MaxEffects /\ answers \in Seq(AnswerType)
      BY ActionAssumption DEF AnswerKinds, TypeInv, TypeOK, AnswerType
    <3>2. answers' = <<Answer("failure", 0)>>
      BY <1>1, <2>1, <2>2, <3>1, AnswerTyped, SentOne DEF NotFound, OnceInv
    <3>3. ~ ended' /\ ~ thrown' /\ ~ cancelled'
      BY <2>1, <2>2 DEF OnceInv, StreamsOut
    <3>4. Len(answers') <= 1
      BY <3>2
    <3> QED BY <2>1, <3>3, <3>4 DEF OnceInv
  <2>3. CASE kind # "unary"
    BY <2>1, <2>3 DEF OnceInv
  <2> QED BY <2>2, <2>3
<1>2. CASE Undecodable \/ Begin
  BY <1>2 DEF Undecodable, Begin, callVars, replyVars, OnceInv, StreamsOut
<1> QED BY <1>1, <1>2 DEF Starts

LEMMA UsesOnce == OneWay /\ TypeInv /\ OnceInv /\ Uses => OnceInv'
<1> SUFFICES ASSUME OneWay, TypeInv, OnceInv, Uses PROVE OnceInv'
  OBVIOUS
<1>0. kind' = kind
  BY AnswerStep DEF Next
<1> SUFFICES ASSUME kind = "unary" PROVE OnceInv'
  BY <1>0 DEF OnceInv, StreamsOut
<1>1. ASSUME NEW k \in AnswerKinds, NEW ok \in BOOLEAN, Respond(k, ok) PROVE OnceInv'
  <2>1. answers = <<>> /\ turn # "new" /\ turn' = turn /\ UNCHANGED callVars
        /\ Answers(k, ok, 0) /\ 0 \in 0 .. MaxEffects
    BY <1>1, ActionAssumption DEF Respond, UserRuns, Async, Again, OneWay, StreamsOut
  <2>2. thrown' => Raises(ok)
    BY <1>1 DEF Respond, MayThrow
  <2> QED BY <2>1, <2>2, AfterAnswer
<1>2. ASSUME NEW ok \in BOOLEAN, Effect(ok) PROVE OnceInv'
  <2>1. UNCHANGED <<kind, cancelled, turn, answers, ended, alreadyReplied>> /\ turn # "new"
    BY <1>2 DEF Effect, callVars, UserRuns, Async
  <2>2. thrown' => cancelled \/ ~ ok
    BY <1>2 DEF Effect, MayThrow, Raises
  <2>3. ~ ok => answers = <<>> /\ ~ (kind = "unary" /\ turn = "command")
    BY <1>2 DEF Effect, Errs, MayMix, OneWay, StreamsOut
  <2> QED BY <2>1, <2>2, <2>3 DEF OnceInv, StreamsOut
<1>3. CASE EndStream
  BY <1>3 DEF EndStream, StreamsOut
<1>4. ASSUME NEW event \in {"data", "end", "cancelled"}, Register(event) PROVE OnceInv'
  <2>1. UNCHANGED <<kind, cancelled, turn, thrown, answers, ended, alreadyReplied>>
    BY <1>4 DEF Register, replyVars
  <2> QED BY <2>1 DEF OnceInv, StreamsOut
<1> QED BY <1>1, <1>2, <1>3, <1>4 DEF Uses

(* An error that is answered is the first answer: a unary handler's was    *)
(* thrown by the context, which is marked, or the call is cancelled.       *)
LEMMA ThrowOnce ==
  ASSUME OneWay, TypeInv, OnceInv, kind = "unary", Throw
  PROVE  OnceInv'
<1>1. answers = <<>> /\ ~ ended
  BY DEF Throw, Errs, OnceInv, MayMix, OneWay, StreamsOut
<1>2. UNCHANGED <<kind, cancelled>> /\ turn' = "none" /\ ~ thrown' /\ turn \notin {"new", "gone"}
  BY DEF Throw, callVars
<1>3. kind = "unary" => cancelled \/ alreadyReplied
  BY <1>2 DEF Throw, Errs, OnceInv, OneWay
<1>4. CASE cancelled
  <2>1. answers' = answers /\ (~ ended => ~ ended') /\ (alreadyReplied => alreadyReplied')
    BY <1>4 DEF Throw, AnswersError
  <2> QED BY <1>1, <1>2, <2>1, Lengths DEF OnceInv, StreamsOut
<1>5. CASE ~ cancelled
  <2>1. Sent(<<Answer("failure", 0)>>) /\ ~ ended' /\ (kind = "unary" => alreadyReplied')
    BY <1>1, <1>3, <1>5 DEF Throw, AnswersError, StreamsOut
  <2>2. answers' = <<Answer("failure", 0)>>
    <3>1. "failure" \in AnswerKinds /\ 0 \in 0 .. MaxEffects /\ answers \in Seq(AnswerType)
      BY ActionAssumption DEF AnswerKinds, TypeInv, TypeOK, AnswerType
    <3> QED BY <1>1, <2>1, <3>1, AnswerTyped, SentOne
  <2>3. Len(answers') <= 1 /\ ~ cancelled'
    BY <1>2, <1>5, <2>2, Lengths
  <2> QED BY <1>2, <2>1, <2>3 DEF OnceInv
<1> QED BY <1>4, <1>5

LEMMA FinishesOnce == OneWay /\ TypeInv /\ OnceInv /\ Finishes => OnceInv'
<1> SUFFICES ASSUME OneWay, TypeInv, OnceInv, Finishes PROVE OnceInv'
  OBVIOUS
<1>0. kind' = kind
  BY AnswerStep DEF Next
<1> SUFFICES ASSUME kind = "unary" PROVE OnceInv'
  BY <1>0 DEF OnceInv, StreamsOut
<1>1. 0 \in 0 .. MaxEffects /\ "reply" \in AnswerKinds /\ "failure" \in AnswerKinds
  BY ActionAssumption DEF AnswerKinds
<1>2. MayMix => answers = <<>>
  BY DEF MayMix, OneWay, StreamsOut
<1>3. ~ Throw =>
        /\ UNCHANGED callVars /\ UNCHANGED <<kind, cancelled>> /\ turn' \in {turn, "none"}
        /\ turn \notin {"new", "gone"} /\ turn' # "new" /\ thrown' = FALSE
  BY DEF Finishes, ReturnNothing, ReturnPromise, CallbackReturns, FulfilsNothing, Rejects, ReturnValue,
         EndReplies, Fulfils, Returns, Settles, Async, callVars, TypeInv, TypeOK
<1>4. CASE Throw
  BY <1>4, ThrowOnce
<1>5. CASE ~ Throw /\ Silent
  BY <1>3, <1>5, QuietOnce
<1>6. ASSUME ~ Throw, answers = <<>>, NEW k \in AnswerKinds, NEW ok \in BOOLEAN,
             NEW n \in 0 .. MaxEffects, Answers(k, ok, n)
      PROVE  OnceInv'
  BY <1>3, <1>6, AfterAnswer
<1>7. ASSUME ~ Throw, kind = "unary", NEW k \in AnswerKinds, NEW ok \in BOOLEAN,
             NEW n \in 0 .. MaxEffects, SingleReturn(k, ok, n)
      PROVE  OnceInv'
  BY <1>3, <1>7, SingleReturnOnce
<1>8. CASE ~ Throw /\ (ReturnNothing \/ ReturnPromise \/ CallbackReturns)
  BY <1>1, <1>5, <1>7, <1>8 DEF ReturnNothing, ReturnPromise, CallbackReturns
<1>9. CASE ~ Throw /\ Rejects
  <2>1. promise = "ignored" \/ answers = <<>>
    BY <1>2, <1>9 DEF Rejects, OnceInv
  <2> QED BY <1>1, <1>5, <1>6, <1>9, <2>1 DEF Rejects
<1>10. CASE ~ Throw /\ FulfilsNothing
  BY <1>1, <1>7, <1>10 DEF FulfilsNothing
<1>11. ASSUME ~ Throw, NEW k \in AnswerKinds, NEW ok \in BOOLEAN, NEW n \in 0 .. MaxEffects,
              ReturnValue(k, ok, n) \/ EndReplies(k, ok, n) \/ Fulfils(k, ok, n)
       PROVE  OnceInv'
  <2>1. \/ kind = "unary" /\ SingleReturn(k, ok, n)
        \/ Silent
        \/ answers = <<>> /\ (Answers(k, ok, n) \/ Answers("reply", ok, 0))
    BY <1>2, <1>11 DEF ReturnValue, EndReplies, Fulfils
  <2> QED BY <1>1, <1>5, <1>6, <1>7, <1>11, <2>1
<1> QED BY <1>4, <1>8, <1>9, <1>10, <1>11 DEF Finishes

LEMMA OnceNext == OneWay /\ TypeInv /\ OnceInv /\ [Next]_vars => OnceInv'
<1> SUFFICES ASSUME OneWay, TypeInv, OnceInv, [Next]_vars PROVE OnceInv'
  OBVIOUS
<1>1. CASE ReceiveData \/ ReceiveEnd \/ UNCHANGED vars
  <2>1. UNCHANGED <<kind, cancelled, thrown, answers, ended, alreadyReplied>>
    BY <1>1 DEF ReceiveData, ReceiveEnd, vars, callVars, replyVars
  <2>2. CASE turn' = turn
    BY <2>1, <2>2 DEF OnceInv, StreamsOut
  <2>3. CASE turn = "none" /\ turn' # "new" /\ (kind = "unary" => turn' = "none")
    BY <2>1, <2>3 DEF OnceInv, StreamsOut
  <2>4. turn' = turn \/ (turn = "none" /\ turn' # "new" /\ (kind = "unary" => turn' = "none"))
    BY <1>1 DEF ReceiveData, ReceiveEnd, Idle, StreamsIn, vars
  <2> QED BY <2>2, <2>3, <2>4
<1>2. CASE Cancel
  <2>1. UNCHANGED <<kind, thrown, answers, ended, alreadyReplied>> /\ ~ thrown /\ turn = "none"
        /\ turn' # "new" /\ (StreamsOut \/ (answers = <<>> /\ turn' = "none"))
    BY <1>2 DEF Cancel, Idle, replyVars
  <2> QED BY <2>1 DEF OnceInv, StreamsOut
<1> QED BY <1>1, <1>2, StartsOnce, UsesOnce, FinishesOnce DEF Next

(* AnsweredOnce, for handlers that throw nothing of their own, answer the  *)
(* context once and do not fail after that; they may return a value or a   *)
(* promise of one after an answer, and catch the context's errors.         *)
THEOREM OnceTheorem == ASSUME {"throws", "repeats", "mixes"} \cap Habits = {} PROVE Spec => []AnsweredOnce
<1>1. OneWay
  BY DEF OneWay
<1>2. OnceInv => AnsweredOnce
  BY DEF OnceInv, AnsweredOnce
<1> QED BY <1>1, <1>2, OnceInit, OnceNext, TypeInvariant, PTL DEF Spec
----------------------------------------------------------------------------
(* Sums over a sequence of answers, by induction.                          *)

Before == OpToRel(<, Nat)

LEMMA Induction ==
  ASSUME NEW S, 0 \in S, \A n \in Nat : n \in S => n + 1 \in S
  PROVE  Nat \subseteq S
<1> SUFFICES ASSUME Nat \ S # {} PROVE FALSE
  OBVIOUS
<1>1. IsWellFoundedOn(Before, Nat)
  BY NatLessThanWellFounded DEF Before
<1>2. PICK n \in Nat \ S : \A m \in Nat \ S : ~ (<<m, n>> \in Before)
  <2>1. Nat \ S \subseteq Nat
    OBVIOUS
  <2> QED BY <1>1, <2>1, WFMin
<1>3. \A m \in Nat \ S : ~ (m < n)
  BY <1>2 DEF Before, OpToRel
<1>4. n # 0 /\ n - 1 \in Nat
  OBVIOUS
<1>5. n - 1 \in S
  BY <1>3, <1>4
<1> QED BY <1>4, <1>5

(* The partial sums of the first n answers. *)
PartialSums(s, n, g) ==
  /\ g \in [0 .. n -> Nat]
  /\ g[0] = 0
  /\ \A i \in 1 .. n : g[i] = g[i - 1] + s[i].effects

AnswerSeq == Seq(AnswerType)

LEMMA EffectsNat ==
  ASSUME NEW s \in AnswerSeq, NEW i \in 1 .. Len(s)
  PROVE  s[i].effects \in Nat
<1>1. s[i] \in AnswerType
  BY DEF AnswerSeq
<1> QED BY <1>1, ActionAssumption DEF AnswerType

LEMMA SumsExist ==
  ASSUME NEW s \in AnswerSeq
  PROVE  \E g : PartialSums(s, Len(s), g)
<1> DEFINE S == {n \in Nat : n <= Len(s) => \E g : PartialSums(s, n, g)}
<1>0. Len(s) \in Nat
  BY DEF AnswerSeq
<1>1. 0 \in S
  <2>1. PartialSums(s, 0, [i \in 0 .. 0 |-> 0])
    BY DEF PartialSums
  <2> QED BY <2>1
<1>2. ASSUME NEW n \in Nat, n \in S, n + 1 <= Len(s) PROVE \E g : PartialSums(s, n + 1, g)
  <2>1. PICK g : PartialSums(s, n, g)
    BY <1>0, <1>2
  <2> DEFINE h == [i \in 0 .. n + 1 |-> IF i <= n THEN g[i] ELSE g[n] + s[n + 1].effects]
  <2>2. s[n + 1].effects \in Nat
    BY <1>0, <1>2, EffectsNat
  <2>3. h \in [0 .. n + 1 -> Nat] /\ h[0] = 0
    BY <2>1, <2>2 DEF PartialSums
  <2>4. ASSUME NEW i \in 1 .. n + 1 PROVE h[i] = h[i - 1] + s[i].effects
    <3>1. CASE i <= n
      BY <2>1, <3>1 DEF PartialSums
    <3>2. CASE i = n + 1
      <4>1. h[n + 1] = g[n] + s[n + 1].effects /\ h[n] = g[n] /\ (n + 1) - 1 = n
        OBVIOUS
      <4> QED BY <3>2, <4>1
    <3> QED BY <3>1, <3>2
  <2> QED BY <2>3, <2>4 DEF PartialSums
<1>3. \A n \in Nat : n \in S => n + 1 \in S
  BY <1>2
<1>4. Nat \subseteq S
  <2> HIDE DEF S
  <2> QED BY <1>1, <1>3, Induction
<1> QED BY <1>0, <1>4

LEMMA SumsUnique ==
  ASSUME NEW s, NEW n \in Nat, NEW g, NEW h, PartialSums(s, n, g), PartialSums(s, n, h)
  PROVE  g = h
<1> DEFINE S == {i \in Nat : i <= n => g[i] = h[i]}
<1>1. 0 \in S
  BY DEF PartialSums
<1>2. ASSUME NEW i \in Nat, i \in S PROVE i + 1 \in S
  <2> SUFFICES ASSUME i + 1 <= n PROVE g[i + 1] = h[i + 1]
    OBVIOUS
  <2>1. g[i] = h[i] /\ i + 1 \in 1 .. n /\ (i + 1) - 1 = i
    BY <1>2
  <2> QED BY <2>1 DEF PartialSums
<1>3. Nat \subseteq S
  <2> HIDE DEF S
  <2> QED BY <1>1, <1>2, Induction
<1>4. \A i \in 0 .. n : g[i] = h[i]
  BY <1>3
<1> QED BY <1>4 DEF PartialSums

(* EffectsOf is the last of the partial sums. *)
LEMMA EffectsOfIs ==
  ASSUME NEW s \in AnswerSeq, NEW g, PartialSums(s, Len(s), g)
  PROVE  EffectsOf(s) = g[Len(s)]
<1> DEFINE Rec(f) == f = [n \in 0 .. Len(s) |-> IF n = 0 THEN 0 ELSE f[n - 1] + s[n].effects]
<1>0. Len(s) \in Nat
  BY DEF AnswerSeq
<1>1. Rec(g)
  BY <1>0 DEF PartialSums
<1>2. ASSUME NEW f, Rec(f) PROVE f = g
  <2> DEFINE S == {i \in Nat : i <= Len(s) => f[i] = g[i]}
  <2>1. 0 \in S
    BY <1>0, <1>2 DEF PartialSums
  <2>2. ASSUME NEW i \in Nat, i \in S PROVE i + 1 \in S
    <3> SUFFICES ASSUME i + 1 <= Len(s) PROVE f[i + 1] = g[i + 1]
      OBVIOUS
    <3>1. f[i] = g[i] /\ i + 1 \in 1 .. Len(s) /\ i + 1 \in 0 .. Len(s) /\ (i + 1) - 1 = i /\ i + 1 # 0
      BY <1>0, <2>2
    <3>2. f[i + 1] = f[i] + s[i + 1].effects
      BY <1>2, <3>1
    <3>3. g[i + 1] = g[i] + s[i + 1].effects
      BY <3>1 DEF PartialSums
    <3> QED BY <3>1, <3>2, <3>3
  <2>3. Nat \subseteq S
    <3> HIDE DEF S
    <3> QED BY <2>1, <2>2, Induction
  <2>4. \A i \in 0 .. Len(s) : f[i] = g[i]
    BY <1>0, <2>3
  <2>5. DOMAIN f = 0 .. Len(s) /\ f = [i \in 0 .. Len(s) |-> f[i]]
    BY <1>2
  <2>6. g = [i \in 0 .. Len(s) |-> g[i]]
    BY DEF PartialSums
  <2> QED BY <2>4, <2>5, <2>6
<1>3. Rec(CHOOSE f : Rec(f))
  <2> HIDE DEF Rec
  <2> QED BY <1>1
<1>4. (CHOOSE f : Rec(f)) = g
  <2>1. \A f : Rec(f) => f = g
    BY <1>2
  <2> HIDE DEF Rec
  <2> QED BY <1>3, <2>1
<1> QED BY <1>4 DEF EffectsOf

LEMMA EffectsOfEmpty == EffectsOf(<<>>) = 0
<1>1. <<>> \in AnswerSeq /\ Len(<<>>) = 0
  BY DEF AnswerSeq
<1>2. PartialSums(<<>>, 0, [i \in 0 .. 0 |-> 0])
  BY DEF PartialSums
<1> QED BY <1>1, <1>2, EffectsOfIs

LEMMA EffectsOfAppend ==
  ASSUME NEW s \in AnswerSeq, NEW a \in AnswerType
  PROVE  EffectsOf(s \o <<a>>) = EffectsOf(s) + a.effects /\ EffectsOf(s) \in Nat
<1> DEFINE n == Len(s)
           t == s \o <<a>>
<1>1. n \in Nat /\ t \in AnswerSeq /\ Len(t) = n + 1 /\ t[n + 1] = a
      /\ \A i \in 1 .. n : t[i] = s[i]
  BY DEF AnswerSeq
<1>2. PICK h : PartialSums(t, n + 1, h)
  BY <1>1, SumsExist
<1> DEFINE g == [i \in 0 .. n |-> h[i]]
<1> HIDE DEF n, t
<1>3. PartialSums(s, n, g)
  BY <1>1, <1>2 DEF PartialSums
<1>4. EffectsOf(t) = h[n + 1] /\ EffectsOf(s) = g[n]
  BY <1>1, <1>2, <1>3, EffectsOfIs DEF n
<1>5. h[n + 1] = h[n] + a.effects /\ g[n] = h[n] /\ h[n] \in Nat
  <2>1. n + 1 \in 1 .. n + 1 /\ (n + 1) - 1 = n /\ n \in 0 .. n /\ n \in 0 .. n + 1
    BY <1>1
  <2> QED BY <1>1, <1>2, <2>1 DEF PartialSums
<1> QED BY <1>4, <1>5 DEF t

----------------------------------------------------------------------------
(* Each side effect with one answer of a stream.                           *)

LEMMA SentAppends ==
  ASSUME answers \in AnswerSeq, NEW k \in AnswerKinds, NEW n \in 0 .. MaxEffects,
         Sent(<<Answer(k, n)>>), ~ ended
  PROVE  EffectsOf(answers') = EffectsOf(answers) + n
<1>1. Answer(k, n) \in AnswerType /\ Answer(k, n).effects = n
  BY AnswerTyped DEF Answer
<1>2. answers' = answers \o <<Answer(k, n)>>
  BY DEF Sent
<1> QED BY <1>1, <1>2, EffectsOfAppend

LEMMA AnswersAdd ==
  ASSUME TypeInv, EffectsOnce, NEW k \in AnswerKinds, NEW ok \in BOOLEAN,
         NEW n \in 0 .. MaxEffects, Answers(k, ok, n), kind' = kind
  PROVE  EffectsOnce'
<1> SUFFICES ASSUME StreamsOut, ~ ended PROVE EffectsOf(answers') + effects' = recorded'
  BY DEF EffectsOnce, StreamsOut, Answers
<1>1. effects \in Nat /\ recorded \in Nat /\ n \in Nat /\ effects + n \in 0 .. MaxEffects
      /\ answers \in AnswerSeq
  BY ActionAssumption DEF TypeInv, TypeOK, EffectsHeld, Answers, AnswerSeq, AnswerType
<1>2. EffectsOf(answers) + effects = recorded /\ EffectsOf(answers) \in Nat
  <2>1. Answer(k, n) \in AnswerType
    BY AnswerTyped
  <2> QED BY <1>1, <2>1, EffectsOfAppend DEF EffectsOnce
<1>3. CASE Raises(ok)
  <2>1. answers' = answers
    BY <1>3 DEF Answers
  <2>2. CASE cancelled
    BY <1>2, <2>1, <2>2 DEF Answers
  <2>3. CASE ~ cancelled /\ ~ ok
    <3>1. effects' = effects + n /\ recorded' = recorded + n
      BY <2>3 DEF Answers
    <3> QED BY <1>1, <1>2, <2>1, <3>1
  <2> QED BY <1>3, <2>2, <2>3 DEF Raises
<1>4. CASE ~ Raises(ok)
  <2>1. EffectsOf(answers') = EffectsOf(answers) + (effects + n)
    BY <1>1, <1>4, SentAppends DEF Answers
  <2>2. effects' = 0 /\ recorded' = recorded + n
    BY <1>4 DEF Answers, Raises
  <2> QED BY <1>1, <1>2, <2>1, <2>2
<1> QED BY <1>3, <1>4

LEMMA ErrorAdds ==
  ASSUME TypeInv, EffectsOnce, AnswersError, kind' = kind
  PROVE  EffectsOnce'
<1> SUFFICES ASSUME StreamsOut, ~ ended, ~ ended'
             PROVE  EffectsOf(answers') + effects' = recorded'
  BY DEF EffectsOnce, StreamsOut, AnswersError
<1>1. answers' = answers /\ effects' = effects /\ recorded' = recorded
  BY DEF AnswersError
<1> QED BY <1>1 DEF EffectsOnce

LEMMA OnceSilent ==
  ASSUME EffectsOnce, Silent, kind' = kind
  PROVE  EffectsOnce'
BY DEF EffectsOnce, Silent, replyVars, StreamsOut

LEMMA EffectsNext == TypeInv /\ EffectsOnce /\ [Next]_vars => EffectsOnce'
<1> SUFFICES ASSUME TypeInv, EffectsOnce, [Next]_vars PROVE EffectsOnce'
  OBVIOUS
<1>0. kind' = kind
  BY AnswerStep
<1>1. 0 \in 0 .. MaxEffects /\ "reply" \in AnswerKinds /\ "failure" \in AnswerKinds
  BY ActionAssumption DEF AnswerKinds
<1>2. CASE Silent
  BY <1>0, <1>2, OnceSilent
<1>3. CASE Answering
  BY <1>0, <1>3, AnswersAdd, ErrorAdds DEF Answering
<1>4. CASE NotFound
  BY <1>0, <1>4 DEF NotFound, EffectsOnce, StreamsOut
<1>5. CASE EndStream
  BY <1>0, <1>5 DEF EndStream, EffectsOnce, StreamsOut
<1>6. ASSUME NEW ok \in BOOLEAN, Effect(ok) PROVE EffectsOnce'
  <2>1. answers' = answers /\ ended' = ended
    BY <1>6 DEF Effect
  <2>2. effects \in Nat /\ recorded \in Nat /\ answers \in AnswerSeq
    BY ActionAssumption DEF TypeInv, TypeOK, AnswerSeq, AnswerType
  <2>3. EffectsOf(answers) \in Nat
    <3>1. Answer("reply", 0) \in AnswerType
      BY <1>1, AnswerTyped
    <3> QED BY <2>2, <3>1, EffectsOfAppend
  <2>4. \/ effects' = effects /\ recorded' = recorded
        \/ effects' = effects + 1 /\ recorded' = recorded + 1
    BY <1>6 DEF Effect
  <2> QED BY <1>0, <2>1, <2>2, <2>3, <2>4 DEF EffectsOnce, StreamsOut
<1>7. CASE ReceiveData \/ ReceiveEnd \/ Cancel \/ UNCHANGED vars
  BY <1>2, <1>7 DEF ReceiveData, ReceiveEnd, Cancel, vars, Silent
<1>8. CASE Starts
  BY <1>2, <1>4, <1>8 DEF Starts, Undecodable, Begin, Silent
<1>9. CASE Uses
  BY <1>1, <1>2, <1>3, <1>5, <1>6, <1>9 DEF Uses, Respond, Register, Silent, Answering
<1>10. CASE ReturnNothing \/ ReturnPromise \/ CallbackReturns \/ Throw \/ FulfilsNothing \/ Rejects
  <2>1. Silent \/ AnswersError \/ Answers("reply", TRUE, 0) \/ Answers("failure", TRUE, 0)
    BY <1>10 DEF ReturnNothing, ReturnPromise, CallbackReturns, Throw, FulfilsNothing, Rejects, SingleReturn
  <2> QED BY <1>1, <1>2, <1>3, <2>1 DEF Answering
<1>11. ASSUME NEW k \in AnswerKinds, NEW ok \in BOOLEAN, NEW n \in 0 .. MaxEffects,
              ReturnValue(k, ok, n) \/ EndReplies(k, ok, n) \/ Fulfils(k, ok, n)
       PROVE  EffectsOnce'
  <2>1. Silent \/ Answers(k, ok, n) \/ Answers("reply", ok, 0)
    BY <1>11 DEF ReturnValue, EndReplies, Fulfils, SingleReturn
  <2> QED BY <1>1, <1>2, <1>3, <1>11, <2>1 DEF Answering
<1> QED BY <1>7, <1>8, <1>9, <1>10, <1>11 DEF Next, Finishes

(* EffectsOnce, for any handler: the side effects that are sent and those  *)
(* the context holds are those that were recorded, as long as the stream   *)
(* is not ended.                                                           *)
THEOREM EffectsOnceTheorem == Spec => []EffectsOnce
<1>1. Init => EffectsOnce
  <2>1. Init => answers = <<>> /\ effects = 0 /\ recorded = 0
    BY DEF Init
  <2>2. 0 + 0 = 0
    OBVIOUS
  <2> QED BY <2>1, <2>2, EffectsOfEmpty DEF EffectsOnce
<1> QED BY <1>1, EffectsNext, TypeInvariant, PTL DEF Spec
=============================================================================
