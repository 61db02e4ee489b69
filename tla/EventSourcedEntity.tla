------------------------ MODULE EventSourcedEntity -------------------------
(***************************************************************************)
(* One event sourced entity: sdk/src/event-sourced-entity-support.ts and   *)
(* the CommandHelper it runs on, talking over one gRPC stream at a time to *)
(* the Kalix proxy, which owns the journal and the snapshot store.         *)
(*                                                                         *)
(* The state of the entity is represented by the sequence of events that   *)
(* were applied to the initial state: two states are equal exactly when    *)
(* they come from the same events in the same order.                       *)
(***************************************************************************)
EXTENDS EntityStream

CONSTANTS
  MaxEmits,       (* bound: events one command emits                       *)
  SnapshotEvery,  (* the entity's snapshotEvery option                     *)
  EmitsLate       (* may code the handler does not await call ctx.emit     *)

ASSUME EventSourcedAssumption ==
  /\ MaxEmits \in Nat \ {0}
  /\ SnapshotEvery \in Int
  /\ EmitsLate \in BOOLEAN

VARIABLES
  (* the proxy *)
  journal,    (* the persisted events, oldest first                        *)
  stored,     (* the latest snapshot: [seq, state]                         *)
  delivered,  (* sequence number up to which the stream was fed            *)
  (* the service *)
  anyState,   (* the serialized entity state, or Nothing when null         *)
  sequence    (* the handler's sequence number                             *)

entityVars == <<journal, stored, delivered, anyState, sequence>>
vars == <<streamVars, entityVars>>

(* An event is known by the command that emitted it and its position among *)
(* that command's events; ok says whether the entity's event handler       *)
(* exists and returns.                                                     *)
Event == [cmd : Commands, n : 1 .. MaxEmits, ok : BOOLEAN]

State(evs) == [events |-> evs]
States == [events : Seq(Event)]
Bodies == [events : Seq(Event), snapshot : States \cup {Nothing}]
NoSnapshot == [seq |-> 0, state |-> Nothing]

TypeOK ==
  /\ StreamTypeOK(States, Seq(Event), Bodies)
  /\ journal \in Seq(Event)
  /\ stored \in [seq : Nat, state : States \cup {Nothing}]
  /\ delivered \in 0 .. Len(journal)
  /\ anyState \in States \cup {Nothing}
  /\ sequence \in Nat

(* ensureAnyState: a null state becomes the entity's initial state. *)
EnsureAlways(st) == State(<<>>)
Ensure(st) == IF st = Nothing THEN State(<<>>) ELSE st

Init ==
  /\ StreamInit
  /\ journal = <<>> /\ stored = NoSnapshot /\ delivered = 0
  /\ anyState = Nothing /\ sequence = 0

----------------------------------------------------------------------------
(* The life of a stream. *)

ResetEntity ==
  /\ delivered' = 0 /\ anyState' = Nothing /\ sequence' = 0
  /\ UNCHANGED <<journal, stored>>

OpenStream == StreamOpens /\ ResetEntity

(* Init: the handler is created from the latest snapshot, if there is one. *)
InitKeepsMessage ==
  /\ StreamStarts
  /\ anyState' = stored /\ sequence' = stored.seq /\ delivered' = stored.seq
  /\ UNCHANGED <<journal, stored>>
InitStream ==
  /\ StreamStarts
  /\ anyState' = stored.state /\ sequence' = stored.seq /\ delivered' = stored.seq
  /\ UNCHANGED <<journal, stored>>

ProtocolError == StreamFails /\ UNCHANGED entityVars

HalfClose == StreamHalfCloses /\ UNCHANGED entityVars

LoseStream == StreamLost /\ ResetEntity

----------------------------------------------------------------------------
(* Messages of the stream. *)

(* handleEventSourcedStreamIn with an event of the journal: the sequence   *)
(* number is the event's, and handleEvent applies it or throws.            *)
ReplayEvent ==
  /\ CanRead /\ started
  /\ delivered < Len(journal)
  /\ LET e == journal[delivered + 1] IN
     /\ delivered' = delivered + 1
     /\ sequence' = delivered + 1
     /\ IF e.ok
        THEN /\ anyState' = State(Append(Ensure(anyState).events, e))
             /\ UNCHANGED <<wire, ended>>
        ELSE /\ anyState' = Ensure(anyState)
             /\ GiveUp(0)
  /\ UNCHANGED <<proxySide, started, ctx, journal, stored>>

(* Commands follow when the whole journal is replayed. *)
Replayed == delivered = Len(journal) /\ UNCHANGED <<journal, stored, delivered, sequence>>

(* withBehaviorAndState takes the state, and the user's handler starts. *)
ReceiveCommand ==
  /\ Replayed
  /\ anyState' = Ensure(anyState)
  /\ CommandReceived(Ensure(anyState), <<>>)

(* The state is ensured when the behavior was asked for the handler. *)
RefuseCommand ==
  /\ Replayed
  /\ CommandRefused
  /\ anyState' \in {anyState, Ensure(anyState)}

FailCommand ==
  /\ Replayed
  /\ CommandFails
  /\ anyState' \in {anyState, Ensure(anyState)}

(* The proxy asks for a snapshot, also while a command is being handled. *)
RequestSnapshot ==
  /\ CanRead /\ started
  /\ Replayed
  /\ \A i \in DOMAIN wire : wire[i].kind # "snapshotReply"
  /\ anyState' = Ensure(anyState)
  /\ Put(<<Message("snapshotReply", 0, "none", 0,
                   [events |-> <<>>, snapshot |-> Ensure(anyState)])>>)
  /\ UNCHANGED <<proxySide, started, ended, ctx>>

----------------------------------------------------------------------------
(* The command handler. *)

(* ctx.emit: the event is serialized and collected.  Code that the handler *)
(* does not await can still reach it until the context is deactivated.     *)
Emit ==
  /\ MayContinue \/ (EmitsLate /\ ctx.pc = "settled")
  /\ Active(ctx)
  /\ Len(ctx.work) < MaxEmits
  /\ \E ok \in BOOLEAN :
       ctx' = [ctx EXCEPT !.work =
                 Append(@, [cmd |-> ctx.id, n |-> Len(ctx.work) + 1, ok |-> ok])]
  /\ UNCHANGED <<proxySide, wire, started, ended, entityVars>>

RecordAction == HandlerActs /\ UNCHANGED entityVars

Fail == HandlerFails /\ UNCHANGED entityVars

(* The events of a handler that returned are applied, unless it returned a *)
(* failed Reply; a handler that threw never gets there.                    *)
AppliesAlways(r) == r.kind # "throw"
AppliesEvents(r) == r.kind # "throw" /\ ~ IsFailure(r)

(* sequence % snapshotEvery === 0 of JavaScript: the sign of the option    *)
(* does not matter, and nothing is a multiple of zero.                     *)
SnapshotDue(seq) ==
  LET every == IF SnapshotEvery < 0 THEN - SnapshotEvery ELSE SnapshotEvery
  IN  every # 0 /\ seq % every = 0

(* A snapshot is due when any of the events just applied, those numbered   *)
(* from + 1 to to, is at a multiple.                                       *)
SnapshotFlagOfLast(from, to) == from < to /\ SnapshotDue(to)
SnapshotFlag(from, to) == \E seq \in from + 1 .. to : SnapshotDue(seq)

(* The event loop of the command handler stops after the first k events:   *)
(* all of them, or those before the first that cannot be applied.          *)
StopsAfter(evs, k) ==
  /\ \A i \in 1 .. k : evs[i].ok
  /\ k < Len(evs) => ~ evs[k + 1].ok

(* The state after the first k events of evs. *)
After(st, evs, k) == State(st.events \o SubSeq(evs, 1, k))

(* The snapshot that goes with the reply when k events of evs were applied *)
(* to a state at sequence number from.                                     *)
SnapshotTaken(st, from, evs, k) ==
  IF SnapshotFlag(from, from + k) THEN After(st, evs, k) ELSE Nothing

(* The handler's promise settles with r and the component does its part:   *)
(* the events are applied one by one, and the snapshot is taken after the  *)
(* last.  An event that cannot be applied turns the result into an error.  *)
Settle(r) ==
  /\ ctx.pc = "running"
  /\ IF AppliesEvents(r)
     THEN \E k \in 0 .. Len(ctx.work) :
            /\ StopsAfter(ctx.work, k)
            /\ anyState' = After(anyState, ctx.work, k)
            /\ sequence' = sequence + k
            /\ HandlerSettles(r, IF k < Len(ctx.work) THEN Thrown ELSE r,
                 [events |-> <<>>,
                  snapshot |-> SnapshotTaken(anyState, sequence, ctx.work, k)])
     ELSE HandlerSettles(r, r, Nothing) /\ UNCHANGED <<anyState, sequence>>
  /\ UNCHANGED <<journal, stored, delivered>>

(* reply.events is the array ctx.events itself, so the reply carries what  *)
(* was emitted after the events were applied, too.                         *)
FullContext ==
  IF ctx.body = Nothing THEN ctx ELSE [ctx EXCEPT !.body.events = ctx.work]

WriteAnswer == AnswerWritten(FullContext) /\ UNCHANGED entityVars

----------------------------------------------------------------------------
(* The proxy reads the stream. *)

(* The events of a reply are persisted, and the snapshot that came with    *)
(* it is stored with the sequence number of the last of them.              *)
ReadReply ==
  /\ ReplyRead
  /\ LET body == Head(wire).body IN
     IF body = Nothing
     THEN UNCHANGED <<journal, stored, delivered>>
     ELSE /\ journal' = journal \o body.events
          /\ delivered' = delivered + Len(body.events)
          /\ stored' = IF body.snapshot = Nothing THEN stored
                       ELSE [seq |-> delivered', state |-> body.snapshot]
  /\ UNCHANGED <<anyState, sequence>>

ReadFailure == FailureRead /\ UNCHANGED entityVars

(* A requested snapshot is stored with the sequence number the proxy has   *)
(* reached in the stream.                                                  *)
ReadSnapshot ==
  /\ Reads("snapshotReply")
  /\ stored' = [seq |-> delivered, state |-> Head(wire).body.snapshot]
  /\ UNCHANGED <<proxySide, started, ended, ctx, journal, delivered, anyState, sequence>>

ReadEnd == EndRead /\ ResetEntity

Next ==
  \/ OpenStream \/ InitStream \/ ProtocolError \/ HalfClose \/ LoseStream
  \/ ReplayEvent \/ ReceiveCommand \/ RefuseCommand \/ FailCommand \/ RequestSnapshot
  \/ Emit \/ RecordAction \/ Fail \/ (\E r \in Results : Settle(r)) \/ WriteAnswer
  \/ ReadReply \/ ReadFailure \/ ReadSnapshot \/ ReadEnd

Spec == Init /\ [][Next]_vars

(* The proxy reads what was written, the event loop runs the continuations *)
(* of settled promises, and the user's handlers settle.  Nothing obliges   *)
(* the proxy to send, to open or to close, nor a handler to emit or fail.  *)
Fairness ==
  /\ WF_vars(\E r \in Results : Settle(r))
  /\ WF_vars(WriteAnswer)
  /\ WF_vars(ReadReply \/ ReadFailure \/ ReadSnapshot \/ ReadEnd)

FairSpec == Spec /\ Fairness

----------------------------------------------------------------------------
(* Properties. *)

(* The entity's memory is the journal: on a stream the service has not     *)
(* ended, with no reply under way, the in-memory state is the one a fresh  *)
(* replay of what was delivered gives, and the sequence number is the one  *)
(* of the last of those events.  It is what lets handleEvent, the replay   *)
(* and the events of commands share one state.                             *)
MemoryIsJournal ==
  started /\ ~ ended /\ ctx.pc # "settled"
    /\ (\A i \in DOMAIN wire : wire[i].kind # "reply")
  => /\ Ensure(anyState).events = SubSeq(journal, 1, delivered)
     /\ sequence = delivered

(* A command handler decides on the whole journal: the state it was given  *)
(* by withBehaviorAndState holds every persisted event and no other, until *)
(* it settles, whatever snapshots, replays and commands came before.       *)
HandlerSeesJournal == ctx.pc = "running" /\ ~ ended => ctx.saw.events = journal

(* A stored snapshot, from a reply or requested, is the state after        *)
(* exactly the events up to its sequence number.                           *)
SnapshotIsPrefix ==
  stored # NoSnapshot =>
    /\ stored.seq <= Len(journal)
    /\ stored.state.events = SubSeq(journal, 1, stored.seq)

(* With a positive snapshotEvery, recovery replays fewer events than that: *)
(* a reply whose events cross a multiple anywhere carries a snapshot.      *)
RecoveryIsBounded == SnapshotEvery > 0 => Len(journal) - stored.seq < SnapshotEvery

(* What was persisted can be replayed: an event the entity's own handler   *)
(* cannot apply is never persisted, because it is applied first.           *)
JournalIsReplayable == \A i \in DOMAIN journal : journal[i].ok

(* Whenever a stream ends, what is persisted is enough to start another:   *)
(* a snapshot that says what it claims to, and few events after it, all of *)
(* which can be applied.                                                   *)
IsRecoverable == SnapshotIsPrefix /\ RecoveryIsBounded /\ JournalIsReplayable

(* The journal and the clients see an atomic log: each command is answered *)
(* once, with all of its events persisted in order, or with none.          *)
Abstract == INSTANCE EntityJournal WITH MaxBatch <- MaxEmits
ImplementsJournal == Abstract!JSpec

(* No command hangs on a live stream: it is answered, or the stream ends.  *)
NoCommandHangs == \A c \in Commands : awaiting = c ~> awaiting # c
============================================================================
