----------------------------- MODULE ViewUpdate -----------------------------
(***************************************************************************)
(* A view's update handlers (sdk/src/view-support.ts, view.ts): the proxy  *)
(* makes a Handle call for each event of a subject with the row it has for *)
(* that subject, and stores the row of the upsert it is answered with.     *)
(* A failure is not reported (view-support.ts:74): the call just ends.     *)
(*                                                                         *)
(* Abstraction.  A row is the events that went into it, in order.          *)
(*                                                                         *)
(* External.  The proxy has one call at a time for a subject, sends its    *)
(* events in order, stores a row together with the event's offset, and     *)
(* sends an event again when its call ended, or was lost, without upsert.  *)
(***************************************************************************)
EXTENDS Naturals, Sequences

CONSTANTS
    Subjects,
    MaxEvents,      \* bound: events of a subject
    MaxFailures,    \* bound: calls without upsert, of a subject
    HandlerResults  \* what a handler may do with an event, see Handle

ASSUME ViewUpdateAssumption ==
    /\ {MaxEvents, MaxFailures} \subseteq Nat
    /\ HandlerResults \subseteq {"row", "undefined", "throws", "unserializable", "promise"}

VARIABLES
    rows,       \* the table of the proxy: subject -> <<>> or its row
    offsets,    \* subject -> the events done
    viewCalls,  \* subject -> {} or its call
    failures,   \* subject -> how many calls ended without upsert
    decisions   \* ghost: subject -> what its handler made of the events done

viewVars == <<rows, offsets, viewCalls, failures, decisions>>

ViewInit ==
    /\ rows = [s \in Subjects |-> <<>>]
    /\ offsets = [s \in Subjects |-> 0]
    /\ viewCalls = [s \in Subjects |-> {}]
    /\ failures = [s \in Subjects |-> 0]
    /\ decisions = [s \in Subjects |-> <<>>]

\* written is what the call was written to, end included.
ReceiveEvent(s) ==
    /\ viewCalls[s] = {} /\ offsets[s] < MaxEvents
    /\ viewCalls' = [viewCalls EXCEPT ![s] =
                        {[event |-> offsets[s] + 1, existing |-> rows[s], result |-> "none", written |-> <<>>]}]
    /\ UNCHANGED <<rows, offsets, failures, decisions>>

(***************************************************************************)
(* The handler of the 'data' event.                                        *)
(***************************************************************************)
End == [kind |-> "end"]
\* {} is the row null.
Upsert(row) == [kind |-> "upsert", row |-> row]

EmptyRow == <<>>

Upserts(call, result) ==
    CASE result = "row"       -> <<Upsert({Append(call.existing, call.event)}), End>>
      [] result = "undefined" -> <<Upsert({}), End>>
      \* The message made of a promise has no fields.
      [] result = "promise"   -> <<Upsert({EmptyRow}), End>>

FailAndUpsertNothing(call, result) == <<Upsert({}), End>>
\* failAndEndCall
FailAndEnd(call, result) == <<End>>

Fails(result) == result \in {"throws", "unserializable", "refused"}

Answered(s, result) ==
    \E call \in viewCalls[s] :
        /\ call.written = <<>>
        /\ viewCalls' = [viewCalls EXCEPT ![s] =
               {[call EXCEPT !.result = result,
                             !.written = IF Fails(result) THEN FailAndEnd(call, result) ELSE Upserts(call, result)]}]
        /\ UNCHANGED <<rows, offsets, failures, decisions>>

\* A row is serialized before anything is written.
Handle(s, result) == result \in HandlerResults /\ Answered(s, result)

\* The service, its handlers or the command is not known, the payload or the
\* row cannot be decoded, or the message is not an event.
RefuseEvent(s) == Answered(s, "refused")

(***************************************************************************)
(* The proxy.                                                              *)
(***************************************************************************)
ReadUpsert(s) ==
    \E call \in viewCalls[s] :
        /\ call.written # <<>> /\ Head(call.written).kind = "upsert"
        /\ \A row \in Head(call.written).row : rows' = [rows EXCEPT ![s] = row]
        /\ Head(call.written).row = {} => UNCHANGED rows
        /\ offsets' = [offsets EXCEPT ![s] = call.event]
        /\ decisions' = [decisions EXCEPT ![s] = Append(@, call.result)]
        /\ viewCalls' = [viewCalls EXCEPT ![s] = {}]
        /\ UNCHANGED failures

Retries(s) ==
    /\ failures[s] < MaxFailures
    /\ viewCalls' = [viewCalls EXCEPT ![s] = {}]
    /\ failures' = [failures EXCEPT ![s] = @ + 1]
    /\ UNCHANGED <<rows, offsets, decisions>>

ReadEnd(s) ==
    /\ \E call \in viewCalls[s] : call.written # <<>> /\ Head(call.written).kind = "end"
    /\ Retries(s)

LoseCall(s) == viewCalls[s] # {} /\ Retries(s)

ViewNext ==
    \E s \in Subjects :
        \/ ReceiveEvent(s) \/ RefuseEvent(s) \/ \E result \in HandlerResults : Handle(s, result)
        \/ ReadUpsert(s) \/ ReadEnd(s) \/ LoseCall(s)

(***************************************************************************)
(* Properties.                                                             *)
(***************************************************************************)
ViewTypeOK ==
    /\ \A s \in Subjects : rows[s] \in Seq(1 .. MaxEvents) /\ offsets[s] \in 0 .. MaxEvents
    /\ \A s \in Subjects : \A call \in viewCalls[s] : call.event \in 1 .. MaxEvents /\ Len(call.written) <= 2
    /\ \A s \in Subjects : failures[s] \in 0 .. MaxFailures

\* "The state to store in the view or undefined to not update/store state":
\* the row of a subject is what its handler made of all events so far, each
\* taken once and in order, however often one had to be sent; and no event is
\* passed over because its handler failed or was not there.
RowIsFold ==
    \A s \in Subjects :
        /\ Len(decisions[s]) = offsets[s]
        /\ \A i \in 1 .. offsets[s] : decisions[s][i] \in {"row", "undefined"}
        /\ \A i, j \in DOMAIN rows[s] : i < j => rows[s][i] < rows[s][j]
        /\ {rows[s][i] : i \in DOMAIN rows[s]} = {i \in 1 .. offsets[s] : decisions[s][i] = "row"}
=============================================================================
