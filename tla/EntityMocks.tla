----------------------------- MODULE EntityMocks -----------------------------
(***************************************************************************)
(* The mocks of the test kit (testkit/src/mock-value-entity.ts,            *)
(* mock-event-sourced-entity.ts, mock-command.ts): one object that stands  *)
(* for an entity in a unit test, with calls of handleCommand that each     *)
(* await the entity's command handler, beside what the real entity and its *)
(* proxy would have persisted of the same calls.                           *)
(*                                                                         *)
(* Abstraction.  A state is what went into it: <<>> is the initial state,  *)
(* <<v>> that of a value entity updated to v, and the sequence of its      *)
(* events that of an event sourced entity.  Side effects and forwards,     *)
(* which a context records for the test to look at, are left out.          *)
(***************************************************************************)
EXTENDS Naturals, Sequences

CONSTANTS
    MockCalls,      \* the calls of handleCommand a test makes
    MockValues,     \* values a state is updated to, and payloads of events
    MaxEmits,       \* bound: events of one call
    Habits          \* what the test and its handlers do that the mock does not follow

ASSUME EntityMocksAssumption ==
    /\ MaxEmits \in Nat
    /\ Habits \subseteq {"overlaps", "reusesContext", "updatesAfterDelete", "mixesFailure",
                         "mutatesAndFails", "brokenEvents"}

VARIABLES
    mocked,     \* what is mocked: "value" or "eventsourced"
    state,      \* of the mock, and
    events,     \* its event log, and
    error,      \* its error
    calls,      \* call -> where it is, its context and the state its handler was given
    contexts,   \* context -> what was recorded in it, one context for each call
    stored,     \* what the real entity's proxy has persisted
    lastCall    \* of the call that settled last: its outcome for the test, and for the real client

mocksVars == <<mocked, state, events, error, calls, contexts, stored, lastCall>>

Untold == [mock |-> "none", real |-> "none"]
\* asked: what the call's handler asked for, in a context of its own as the
\* real entity's handlers have it.
NothingAsked == [action |-> "none", update |-> <<>>, mutated |-> <<>>, events |-> <<>>, fails |-> FALSE]
NewCall(c) == [pc |-> "new", ctx |-> c, saw |-> <<>>, asked |-> NothingAsked]
FreshContext == [updatedState |-> <<>>, delete |-> FALSE, events |-> <<>>, error |-> "none"]

MocksInit ==
    /\ mocked \in {"value", "eventsourced"}
    /\ state = <<>> /\ events = <<>> /\ error = "none" /\ stored = <<>>
    /\ calls = [c \in MockCalls |-> NewCall(c)]
    /\ contexts = [c \in MockCalls |-> FreshContext]
    /\ lastCall = Untold

Running == {c \in MockCalls : calls[c].pc = "running"}
Used == {calls[c].ctx : c \in {d \in MockCalls : calls[d].pc # "new"}}

(***************************************************************************)
(* A call, up to the await.                                                *)
(***************************************************************************)
HandleCommand(c, x) ==
    /\ calls[c].pc = "new"
    /\ Running = {} \/ "overlaps" \in Habits
    /\ x = c \/ ("reusesContext" \in Habits /\ x \in Used)
    /\ calls' = [calls EXCEPT ![c] = [@ EXCEPT !.pc = "running", !.ctx = x, !.saw = state]]
    /\ UNCHANGED <<mocked, state, events, error, contexts, stored, lastCall>>

\* There is no such handler or method, or the command cannot be serialized.
\* The real client is told so too.
RefuseCall(c) ==
    /\ calls[c].pc = "new" /\ (Running = {} \/ "overlaps" \in Habits)
    /\ calls' = [calls EXCEPT ![c].pc = "settled"]
    /\ lastCall' = [mock |-> "rejected", real |-> "failed"]
    /\ UNCHANGED <<mocked, state, events, error, contexts, stored>>

(***************************************************************************)
(* The handler and its context.                                            *)
(***************************************************************************)
Context(c) == contexts[calls[c].ctx]
Asked(c) == calls[c].asked

Record(c, ctx, asked) ==
    /\ calls[c].pc = "running"
    /\ contexts' = [contexts EXCEPT ![calls[c].ctx] = ctx]
    /\ calls' = [calls EXCEPT ![c].asked = asked]
    /\ UNCHANGED <<mocked, events, error, stored, lastCall>>

MockUpdateState(c, v) ==
    /\ mocked = "value"
    /\ Context(c).delete => "updatesAfterDelete" \in Habits
    /\ Record(c, [Context(c) EXCEPT !.updatedState = <<v>>],
              [Asked(c) EXCEPT !.action = "update", !.update = <<v>>])
    /\ UNCHANGED state

MockDeleteState(c) ==
    /\ mocked = "value"
    /\ Record(c, [Context(c) EXCEPT !.delete = TRUE], [Asked(c) EXCEPT !.action = "delete"])
    /\ UNCHANGED state

\* The handler is given the state itself, not a copy.
MutateState(c, v) ==
    /\ mocked = "value" /\ Asked(c).mutated = <<>>
    /\ Record(c, Context(c), [Asked(c) EXCEPT !.mutated = <<v>>])
    /\ state' = <<v>>

\* An event that is not applicable makes its event handler throw.
MockEmit(c, v, applicable) ==
    /\ mocked = "eventsourced" /\ Len(Asked(c).events) < MaxEmits
    /\ applicable \/ "brokenEvents" \in Habits
    /\ LET event == [value |-> v, applicable |-> applicable]
       IN  Record(c, [Context(c) EXCEPT !.events = Append(@, event)],
                  [Asked(c) EXCEPT !.events = Append(@, event)])
    /\ UNCHANGED state

\* ctx.fail only records the error: it does not throw.
MockFail(c) ==
    /\ Record(c, [Context(c) EXCEPT !.error = "ctx.fail"], [Asked(c) EXCEPT !.fails = TRUE])
    /\ UNCHANGED state

(***************************************************************************)
(* What the real entity makes of the same handler.                         *)
(***************************************************************************)
Payloads(es) == [i \in DOMAIN es |-> es[i].value]
Applicable(es) == \A i \in DOMAIN es : es[i].applicable

RealSucceeds(asked, outcome) == ~asked.fails /\ outcome = "message" /\ Applicable(asked.events)

RealStored(asked) ==
    CASE asked.action = "update" -> asked.update
      [] asked.action = "delete" -> <<>>
      [] asked.action = "none"   -> stored \o Payloads(asked.events)

(***************************************************************************)
(* A call, after the await.  The outcome of the handler is a "message",    *)
(* a "failure" (a Reply), "throws", or "unserializable".                   *)
(***************************************************************************)

\* A handler that fails asks for no change, and one that changes the state in
\* place updates it to the same and succeeds.
Disciplined(asked, outcome) ==
    /\ ~RealSucceeds(asked, outcome) /\ outcome # "throws" /\ Applicable(asked.events)
           /\ (asked.action # "none" \/ asked.events # <<>> \/ asked.mutated # <<>>)
       => "mixesFailure" \in Habits
    /\ asked.mutated # <<>> /\ (outcome = "throws" \/ asked.update # asked.mutated)
       => "mutatesAndFails" \in Habits

StateByUpdateFirst(ctx) ==
    IF ctx.updatedState # <<>> THEN ctx.updatedState
    ELSE IF ctx.delete THEN <<>> ELSE state

\* A delete goes before an update, whatever came last.
StateAfter(ctx) ==
    IF ctx.delete THEN <<>>
    ELSE IF ctx.updatedState # <<>> THEN ctx.updatedState ELSE state

\* handleEvent for each event: those before one that throws stay applied.
AppliedEvents(es) ==
    LET bad == {i \in DOMAIN es : ~es[i].applicable}
    IN  IF bad = {} THEN es
        ELSE SubSeq(es, 1, (CHOOSE i \in bad : \A j \in bad : i <= j) - 1)

ErrorAfter(ctx, outcome) == IF outcome = "failure" THEN "reply" ELSE ctx.error

Told(c, outcome, rejects) ==
    [mock |-> IF rejects THEN "rejected"
              ELSE IF ErrorAfter(Context(c), outcome) # "none" THEN "error" ELSE "answered",
     real |-> IF RealSucceeds(Asked(c), outcome) THEN "replied" ELSE "failed"]

Settled(c, outcome, rejects) ==
    /\ calls[c].pc = "running" /\ Disciplined(Asked(c), outcome)
    /\ calls' = [calls EXCEPT ![c].pc = "settled"]
    /\ lastCall' = Told(c, outcome, rejects)
    /\ stored' = IF RealSucceeds(Asked(c), outcome) THEN RealStored(Asked(c)) ELSE stored
    /\ UNCHANGED <<mocked, contexts>>

\* The await throws: nothing after it happens.
HandlerThrows(c) == Settled(c, "throws", TRUE) /\ UNCHANGED <<state, events, error>>

SettleValue(c, outcome) ==
    /\ mocked = "value" /\ outcome \in {"message", "failure", "unserializable"}
    /\ Settled(c, outcome, outcome = "unserializable")
    /\ state' = StateAfter(Context(c))
    /\ error' = ErrorAfter(Context(c), outcome)
    /\ UNCHANGED events

SettleEventSourced(c, outcome) ==
    /\ mocked = "eventsourced" /\ outcome \in {"message", "failure", "unserializable"}
    /\ LET emitted == Context(c).events
       IN  /\ Settled(c, outcome, outcome = "unserializable" \/ ~Applicable(emitted))
           /\ state' = state \o Payloads(AppliedEvents(emitted))
           /\ events' = events \o Payloads(AppliedEvents(emitted))
           /\ error' = IF Applicable(emitted) THEN ErrorAfter(Context(c), outcome) ELSE error

MocksNext ==
    \E c \in MockCalls :
        \/ \E x \in MockCalls : HandleCommand(c, x)
        \/ RefuseCall(c)
        \/ \E v \in MockValues : MockUpdateState(c, v) \/ MutateState(c, v)
        \/ \E v \in MockValues, applicable \in BOOLEAN : MockEmit(c, v, applicable)
        \/ MockDeleteState(c) \/ MockFail(c) \/ HandlerThrows(c)
        \/ \E outcome \in {"message", "failure", "unserializable"} :
               SettleValue(c, outcome) \/ SettleEventSourced(c, outcome)

(***************************************************************************)
(* Properties.                                                             *)
(***************************************************************************)
States == {<<>>} \cup {<<v>> : v \in MockValues}

MocksTypeOK ==
    /\ mocked \in {"value", "eventsourced"}
    /\ mocked = "value" => state \in States /\ stored \in States /\ events = <<>>
    /\ error \in {"none", "reply", "ctx.fail"}
    /\ \A c \in MockCalls : calls[c].pc \in {"new", "running", "settled"}
    /\ \A x \in MockCalls : Len(contexts[x].events) <= MaxEmits

\* "Mocks the behaviour of a single Kalix entity": between its calls the
\* mock's state and event log are what the real entity would have persisted
\* of the same calls, a handler is given that state, and the test is told of
\* a failure exactly when the real client is.
MockIsEntity ==
    /\ Running = {} => state = stored /\ (mocked = "eventsourced" => events = stored)
    /\ \A c \in Running : calls[c].saw = stored
    /\ (lastCall.mock = "answered") = (lastCall.real = "replied")
=============================================================================
