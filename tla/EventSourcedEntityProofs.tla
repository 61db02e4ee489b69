---------------------- MODULE EventSourcedEntityProofs ----------------------
(***************************************************************************)
(* Theorems about EventSourcedEntity, for every number of commands,        *)
(* streams and events and every snapshotEvery.                             *)
(***************************************************************************)
EXTENDS EventSourcedEntity, EntityStreamProofs

----------------------------------------------------------------------------
(* Type correctness.                                                       *)

(* What TypeOK needs to be inductive: a stored snapshot is not ahead of    *)
(* the journal, a requested snapshot is on the wire with its body, and the *)
(* state is there while a handler runs on it.                              *)
TypeInv ==
  /\ TypeOK
  /\ stored.seq <= Len(journal)
  /\ \A i \in DOMAIN wire : wire[i].kind = "snapshotReply" => wire[i].body # Nothing
  /\ ctx.pc = "running" => anyState # Nothing

(* A state is something. *)
LEMMA StateIsSome ==
  ASSUME NEW st \in States
  PROVE  st # Nothing
<1>1. DOMAIN st = {"events"}
  BY DEF States
<1>2. DOMAIN Nothing = {"none"}
  BY DEF Nothing
<1> QED BY <1>1, <1>2

LEMMA EnsureType ==
  ASSUME NEW st \in States \cup {Nothing}
  PROVE  Ensure(st) \in States /\ Ensure(st) # Nothing
<1>1. State(<<>>) \in States
  BY DEF State, States
<1>2. Ensure(st) \in States
  BY <1>1 DEF Ensure
<1> QED BY <1>2, StateIsSome

LEMMA AfterType ==
  ASSUME NEW st \in States, NEW evs \in Seq(Event), NEW k \in 0 .. Len(evs)
  PROVE  After(st, evs, k) \in States
<1>1. SubSeq(evs, 1, k) \in Seq(Event)
  OBVIOUS
<1>2. st.events \o SubSeq(evs, 1, k) \in Seq(Event)
  BY <1>1 DEF States
<1> QED BY <1>2 DEF After, State, States

LEMMA TypeInit == Init => TypeInv
<1> SUFFICES ASSUME Init PROVE TypeInv
  OBVIOUS
<1>1. StreamTypeOK(States, Seq(Event), Bodies)
  BY StreamInitType DEF Init
<1>2. journal = <<>> /\ stored = [seq |-> 0, state |-> Nothing] /\ delivered = 0
      /\ anyState = Nothing /\ sequence = 0 /\ wire = <<>> /\ ctx.pc = "none"
  BY DEF Init, NoSnapshot, StreamInit, NoContext
<1> QED BY <1>1, <1>2 DEF TypeInv, TypeOK

LEMMA TypeOpen ==
  ASSUME TypeInv, OpenStream \/ LoseStream \/ ReadEnd
  PROVE  TypeInv'
<1>1. StreamTypeOK(States, Seq(Event), Bodies)'
  BY ResetType DEF TypeInv, TypeOK, OpenStream, LoseStream, ReadEnd
<1>2. delivered' = 0 /\ anyState' = Nothing /\ sequence' = 0
      /\ journal' = journal /\ stored' = stored
  BY DEF OpenStream, LoseStream, ReadEnd, ResetEntity
<1>3. wire' = <<>> /\ ctx' = NoContext
  BY DEF OpenStream, LoseStream, ReadEnd, StreamOpens, EndRead, StreamLost, ResetStream
<1> QED BY <1>1, <1>2, <1>3 DEF TypeInv, TypeOK, NoContext

LEMMA TypeInitStream ==
  ASSUME TypeInv, InitStream
  PROVE  TypeInv'
<1>1. StreamTypeOK(States, Seq(Event), Bodies)'
  BY StreamStartsType DEF TypeInv, TypeOK, InitStream
<1>2. ctx' = NoContext
  BY DEF TypeInv, TypeOK, StreamTypeOK, InitStream, StreamStarts
<1>3. anyState' = stored.state /\ sequence' = stored.seq /\ delivered' = stored.seq
      /\ journal' = journal /\ stored' = stored /\ wire' = wire
  BY DEF InitStream, StreamStarts
<1> QED BY <1>1, <1>2, <1>3 DEF TypeInv, TypeOK, NoContext

(* A step of the stream that leaves the entity alone and writes no         *)
(* requested snapshot.                                                     *)
LEMMA TypeStreamOnly ==
  ASSUME TypeInv, StreamTypeOK(States, Seq(Event), Bodies)', UNCHANGED entityVars,
         ctx'.pc = "running" => ctx.pc = "running",
         \A i \in DOMAIN wire' : \/ wire'[i].kind # "snapshotReply"
                                \/ \E j \in DOMAIN wire : wire'[i] = wire[j]
  PROVE  TypeInv'
BY DEF TypeInv, TypeOK, entityVars

(* The messages of a write are old ones or those written. *)
LEMMA PutOther ==
  ASSUME TypeOK, NEW msgs \in Seq(MessageOf(Bodies)), Put(msgs),
         \A k \in DOMAIN msgs : msgs[k].kind # "snapshotReply"
  PROVE  \A i \in DOMAIN wire' : \/ wire'[i].kind # "snapshotReply"
                                 \/ \E j \in DOMAIN wire : wire'[i] = wire[j]
BY PutMessages DEF TypeOK, StreamTypeOK

(* No action of the stream but the reply to a request writes a snapshot on *)
(* its own.                                                                *)
LEMMA FailureIsOther ==
  ASSUME NEW id \in 0 .. MaxCommands
  PROVE  /\ <<Failure(id)>> \in Seq(MessageOf(Bodies))
         /\ <<Failure(id), End>> \in Seq(MessageOf(Bodies))
         /\ <<End>> \in Seq(MessageOf(Bodies))
         /\ \A k \in DOMAIN <<Failure(id)>> : <<Failure(id)>>[k].kind # "snapshotReply"
         /\ \A k \in DOMAIN <<Failure(id), End>> :
              <<Failure(id), End>>[k].kind # "snapshotReply"
         /\ \A k \in DOMAIN <<End>> : <<End>>[k].kind # "snapshotReply"
BY GiveUpType DEF Failure, End, Message

LEMMA AnswerIsOther ==
  ASSUME NEW full, NEW k \in DOMAIN Answer(full)
  PROVE  Answer(full)[k].kind # "snapshotReply"
BY DEF Answer, Failure, End, Message

LEMMA TypeStream ==
  ASSUME TypeInv, ProtocolError \/ HalfClose
  PROVE  TypeInv'
<1>0. 0 \in 0 .. MaxCommands
  BY StreamAssumption
<1>1. StreamTypeOK(States, Seq(Event), Bodies)'
  BY StreamFailsType, StreamHalfClosesType DEF TypeInv, TypeOK, ProtocolError, HalfClose
<1>2. ctx' = ctx /\ UNCHANGED entityVars
  BY DEF ProtocolError, HalfClose, StreamFails, StreamHalfCloses
<1>3. Put(<<Failure(0), End>>) \/ Put(<<End>>)
  BY DEF ProtocolError, HalfClose, StreamFails, StreamHalfCloses, GiveUp
<1>4. \A i \in DOMAIN wire' : \/ wire'[i].kind # "snapshotReply"
                              \/ \E j \in DOMAIN wire : wire'[i] = wire[j]
  <2>1. CASE Put(<<Failure(0), End>>)
    BY <1>0, <2>1, FailureIsOther, PutOther DEF TypeInv
  <2>2. CASE Put(<<End>>)
    BY <1>0, <2>2, FailureIsOther, PutOther DEF TypeInv
  <2> QED BY <1>3, <2>1, <2>2
<1> QED BY <1>1, <1>2, <1>4, TypeStreamOnly

LEMMA TypeReplay ==
  ASSUME TypeInv, ReplayEvent
  PROVE  TypeInv'
<1> DEFINE e == journal[delivered + 1]
<1>0. 0 \in 0 .. MaxCommands
  BY StreamAssumption
<1>1. e \in Event /\ delivered \in Nat /\ delivered + 1 \in 0 .. Len(journal)
  BY DEF TypeInv, TypeOK, ReplayEvent
<1>2. Ensure(anyState) \in States
  BY EnsureType DEF TypeInv, TypeOK
<1>3. State(Append(Ensure(anyState).events, e)) \in States
  BY <1>1, <1>2 DEF State, States
<1>4. delivered' = delivered + 1 /\ sequence' = delivered + 1
      /\ journal' = journal /\ stored' = stored /\ ctx' = ctx /\ started' = started
      /\ UNCHANGED proxySide
  BY DEF ReplayEvent
<1>5. CASE e.ok
  <2>1. anyState' = State(Append(Ensure(anyState).events, e)) /\ UNCHANGED <<wire, ended>>
    BY <1>5 DEF ReplayEvent
  <2>2. anyState' \in States /\ anyState' # Nothing
    BY <1>3, <2>1, StateIsSome
  <2> QED
    BY <1>1, <1>4, <2>1, <2>2 DEF TypeInv, TypeOK, StreamTypeOK, proxySide
<1>6. CASE ~ e.ok
  <2>1. anyState' = Ensure(anyState) /\ GiveUp(0)
    BY <1>6 DEF ReplayEvent
  <2>2. anyState' \in States /\ anyState' # Nothing
    BY <1>2, <2>1, StateIsSome
  <2>3. wire' \in Seq(MessageOf(Bodies)) /\ ended' = TRUE
    BY <2>1, GiveUpType, PutType, <1>0 DEF TypeInv, TypeOK, StreamTypeOK, GiveUp
  <2>4. \A i \in DOMAIN wire' : \/ wire'[i].kind # "snapshotReply"
                                \/ \E j \in DOMAIN wire : wire'[i] = wire[j]
    BY <2>1, FailureIsOther, PutOther, <1>0 DEF TypeInv, GiveUp
  <2> QED
    BY <1>1, <1>4, <2>2, <2>3, <2>4 DEF TypeInv, TypeOK, StreamTypeOK, proxySide
<1> QED BY <1>5, <1>6

LEMMA TypeReceive ==
  ASSUME TypeInv, ReceiveCommand
  PROVE  TypeInv'
<1>1. Ensure(anyState) \in States /\ Ensure(anyState) # Nothing
  BY EnsureType DEF TypeInv, TypeOK
<1>2. CommandReceived(Ensure(anyState), <<>>) /\ anyState' = Ensure(anyState)
      /\ UNCHANGED <<journal, stored, delivered, sequence>>
  BY DEF ReceiveCommand, Replayed
<1>3. <<>> \in Seq(Event)
  OBVIOUS
<1>4. StreamTypeOK(States, Seq(Event), Bodies)'
  BY <1>1, <1>2, <1>3, CommandReceivedType DEF TypeInv, TypeOK
<1>5. wire' = wire
  BY <1>2 DEF CommandReceived
<1> QED BY <1>1, <1>2, <1>4, <1>5 DEF TypeInv, TypeOK

LEMMA TypeRefuse ==
  ASSUME TypeInv, RefuseCommand \/ FailCommand
  PROVE  TypeInv'
<1>1. Ensure(anyState) \in States /\ Ensure(anyState) # Nothing
  BY EnsureType DEF TypeInv, TypeOK
<1>2. CommandRefused \/ CommandFails
  BY DEF RefuseCommand, FailCommand
<1>3. StreamTypeOK(States, Seq(Event), Bodies)'
  BY <1>2, CommandRefusedType DEF TypeInv, TypeOK
<1>4. issued + 1 \in 0 .. MaxCommands
  BY <1>2, StreamAssumption
     DEF CommandRefused, CommandFails, CommandSent, TypeInv, TypeOK, StreamTypeOK
<1>5. \A i \in DOMAIN wire' : \/ wire'[i].kind # "snapshotReply"
                              \/ \E j \in DOMAIN wire : wire'[i] = wire[j]
  <2>1. Put(<<Failure(issued + 1)>>) \/ Put(<<Failure(issued + 1), End>>)
    BY <1>2 DEF CommandRefused, CommandFails, GiveUp
  <2> QED BY <1>4, <2>1, FailureIsOther, PutOther DEF TypeInv
<1>6. ctx' = ctx /\ anyState' \in {anyState, Ensure(anyState)}
      /\ UNCHANGED <<journal, stored, delivered, sequence>>
  BY DEF RefuseCommand, FailCommand, CommandRefused, CommandFails, Replayed
<1> QED BY <1>1, <1>3, <1>5, <1>6 DEF TypeInv, TypeOK

LEMMA TypeRequest ==
  ASSUME TypeInv, RequestSnapshot
  PROVE  TypeInv'
<1> DEFINE body == [events |-> <<>>, snapshot |-> Ensure(anyState)]
           msgs == <<Message("snapshotReply", 0, "none", 0, body)>>
<1>1. Ensure(anyState) \in States /\ Ensure(anyState) # Nothing
  BY EnsureType DEF TypeInv, TypeOK
<1>2. body \in Bodies /\ body # Nothing
  <2>1. body \in Bodies
    BY <1>1 DEF Bodies
  <2>2. DOMAIN body = {"events", "snapshot"} /\ DOMAIN Nothing = {"none"}
    BY DEF Nothing
  <2> QED BY <2>1, <2>2
<1>3. msgs \in Seq(MessageOf(Bodies))
  <2>1. msgs[1] \in MessageOf(Bodies)
    BY <1>2, StreamAssumption, MaxEffectsAssumption DEF Message, MessageOf
  <2> QED BY <2>1
<1>4. Put(msgs) /\ anyState' = Ensure(anyState) /\ UNCHANGED <<journal, stored, delivered, sequence>>
      /\ UNCHANGED <<proxySide, started, ended, ctx>>
  BY DEF RequestSnapshot, Replayed
<1>5. wire' \in Seq(MessageOf(Bodies))
  BY <1>3, <1>4, PutType DEF TypeInv, TypeOK, StreamTypeOK
<1>6. \A i \in DOMAIN wire' : wire'[i].kind = "snapshotReply" => wire'[i].body # Nothing
  <2> SUFFICES ASSUME NEW i \in DOMAIN wire', wire'[i].kind = "snapshotReply"
               PROVE  wire'[i].body # Nothing
    OBVIOUS
  <2>1. CASE i \in DOMAIN wire /\ wire'[i] = wire[i]
    BY <2>1 DEF TypeInv
  <2>2. CASE \E k \in DOMAIN msgs : wire'[i] = msgs[k]
    <3>1. wire'[i].body = body
      BY <2>2 DEF Message
    <3> QED BY <1>2, <3>1
  <2>3. wire \in Seq(MessageOf(Bodies))
    BY DEF TypeInv, TypeOK, StreamTypeOK
  <2> HIDE DEF msgs
  <2> QED BY <1>3, <1>4, <2>1, <2>2, <2>3, PutMessages
<1> QED BY <1>1, <1>4, <1>5, <1>6 DEF TypeInv, TypeOK, StreamTypeOK, proxySide

LEMMA TypeEmit ==
  ASSUME TypeInv, Emit
  PROVE  TypeInv'
<1>1. ctx \in ContextOf(States, Seq(Event), Bodies) /\ started
  BY RunningContext DEF TypeInv, TypeOK, Emit, Active
<1>2. PICK ok \in BOOLEAN :
        ctx' = [ctx EXCEPT !.work =
                  Append(@, [cmd |-> ctx.id, n |-> Len(ctx.work) + 1, ok |-> ok])]
  BY DEF Emit
<1>3. ctx.work \in Seq(Event) /\ ctx.id \in Commands /\ Len(ctx.work) < MaxEmits
  BY <1>1 DEF ContextOf, Emit
<1>4. [cmd |-> ctx.id, n |-> Len(ctx.work) + 1, ok |-> ok] \in Event
  BY <1>3, EventSourcedAssumption DEF Event
<1>5. Append(ctx.work, [cmd |-> ctx.id, n |-> Len(ctx.work) + 1, ok |-> ok]) \in Seq(Event)
  BY <1>3, <1>4
<1>6. ctx' \in ContextOf(States, Seq(Event), Bodies) /\ ctx'.pc = ctx.pc
  BY <1>1, <1>2, <1>5 DEF ContextOf
<1>7. UNCHANGED <<proxySide, wire, started, ended, entityVars>>
  BY DEF Emit
<1> QED
  BY <1>1, <1>6, <1>7 DEF TypeInv, TypeOK, StreamTypeOK, proxySide, entityVars

LEMMA TypeAct ==
  ASSUME TypeInv, RecordAction \/ Fail
  PROVE  TypeInv'
<1>1. StreamTypeOK(States, Seq(Event), Bodies)'
  BY HandlerActsType DEF TypeInv, TypeOK, RecordAction, Fail
<1>2. UNCHANGED entityVars /\ wire' = wire /\ ctx.pc = "running"
  BY DEF RecordAction, Fail, HandlerActs, HandlerFails, MayContinue
<1> QED BY <1>1, <1>2, TypeStreamOnly

(* The snapshot that goes with a reply is a state or nothing. *)
LEMMA SnapshotTakenType ==
  ASSUME NEW st \in States, NEW from, NEW evs \in Seq(Event), NEW k \in 0 .. Len(evs)
  PROVE  SnapshotTaken(st, from, evs, k) \in States \cup {Nothing}
BY AfterType DEF SnapshotTaken

LEMMA TypeSettle ==
  ASSUME TypeInv, NEW r \in Results, Settle(r)
  PROVE  TypeInv'
<1>1. ctx \in ContextOf(States, Seq(Event), Bodies) /\ ctx.pc = "running"
      /\ anyState \in States
  BY RunningContext DEF TypeInv, TypeOK, Settle
<1>2. ctx.work \in Seq(Event)
  BY <1>1 DEF ContextOf
<1>3. Thrown \in Results
  BY MaxEffectsAssumption DEF Thrown, Results
<1>4. UNCHANGED <<journal, stored, delivered>>
  BY DEF Settle
<1>5. CASE AppliesEvents(r)
  <2> DEFINE body(k) == [events |-> <<>>,
                         snapshot |-> SnapshotTaken(anyState, sequence, ctx.work, k)]
             result(k) == IF k < Len(ctx.work) THEN Thrown ELSE r
  <2>1. PICK k \in 0 .. Len(ctx.work) :
          /\ anyState' = After(anyState, ctx.work, k)
          /\ sequence' = sequence + k
          /\ HandlerSettles(r, result(k), body(k))
    BY <1>5 DEF Settle
  <2>2. anyState' \in States /\ anyState' # Nothing
    BY <1>1, <1>2, <2>1, AfterType, StateIsSome
  <2>3. body(k) \in Bodies \cup {Nothing}
    BY <1>1, <1>2, SnapshotTakenType DEF Bodies
  <2>4. result(k) \in Results
    BY <1>3
  <2> HIDE DEF body, result
  <2>5. StreamTypeOK(States, Seq(Event), Bodies)'
    BY <2>1, <2>3, <2>4, HandlerSettlesType DEF TypeInv, TypeOK
  <2>6. sequence' \in Nat
    BY <1>2, <2>1 DEF TypeInv, TypeOK
  <2>7. wire' = wire
    BY <2>1 DEF HandlerSettles
  <2> QED BY <1>4, <2>2, <2>5, <2>6, <2>7 DEF TypeInv, TypeOK
<1>6. CASE ~ AppliesEvents(r)
  <2>1. HandlerSettles(r, r, Nothing) /\ UNCHANGED <<anyState, sequence>>
    BY <1>6 DEF Settle
  <2>2. StreamTypeOK(States, Seq(Event), Bodies)'
    BY <2>1, HandlerSettlesType DEF TypeInv, TypeOK
  <2>3. wire' = wire
    BY <2>1 DEF HandlerSettles
  <2> QED BY <1>1, <1>4, <2>1, <2>2, <2>3 DEF TypeInv, TypeOK
<1> QED BY <1>5, <1>6

(* The context whose answer is written is well-typed. *)
LEMMA FullContextType ==
  ASSUME TypeOK, ctx.pc = "settled"
  PROVE  FullContext \in ContextOf(States, Seq(Event), Bodies) /\ FullContext.id = ctx.id
<1>1. ctx \in ContextOf(States, Seq(Event), Bodies)
  BY RunningContext DEF TypeOK
<1>2. CASE ctx.body = Nothing
  BY <1>1, <1>2 DEF FullContext
<1>3. CASE ctx.body # Nothing
  <2>1. ctx.body \in Bodies /\ ctx.work \in Seq(Event)
    BY <1>1, <1>3 DEF ContextOf
  <2>2. [ctx.body EXCEPT !.events = ctx.work] \in Bodies
    BY <2>1 DEF Bodies
  <2>3. FullContext = [ctx EXCEPT !.body = [ctx.body EXCEPT !.events = ctx.work]]
    BY <1>3 DEF FullContext
  <2> QED BY <1>1, <2>2, <2>3 DEF ContextOf
<1> QED BY <1>2, <1>3

LEMMA TypeWrite ==
  ASSUME TypeInv, WriteAnswer
  PROVE  TypeInv'
<1>1. ctx.pc = "settled" /\ AnswerWritten(FullContext) /\ UNCHANGED entityVars
  BY DEF WriteAnswer, AnswerWritten
<1>2. FullContext \in ContextOf(States, Seq(Event), Bodies)
  BY <1>1, FullContextType DEF TypeInv
<1>3. StreamTypeOK(States, Seq(Event), Bodies)'
  BY <1>1, <1>2, AnswerWrittenType DEF TypeInv, TypeOK
<1>4. Answer(FullContext) \in Seq(MessageOf(Bodies)) /\ Put(Answer(FullContext))
  BY <1>1, <1>2, AnswerType DEF AnswerWritten
<1>5. \A i \in DOMAIN wire' : \/ wire'[i].kind # "snapshotReply"
                              \/ \E j \in DOMAIN wire : wire'[i] = wire[j]
  BY <1>4, AnswerIsOther, PutOther DEF TypeInv
<1>6. ctx'.pc = "none"
  BY <1>1 DEF AnswerWritten, NoContext
<1> QED BY <1>1, <1>3, <1>5, <1>6, TypeStreamOnly

LEMMA TypeRead ==
  ASSUME TypeInv, ReadReply \/ ReadFailure \/ ReadSnapshot
  PROVE  TypeInv'
<1>1. wire # <<>> /\ wire' = Tail(wire) /\ ctx' = ctx /\ UNCHANGED <<anyState, sequence>>
  BY DEF ReadReply, ReadFailure, ReadSnapshot, ReplyRead, FailureRead, Reads, entityVars
<1>2. Head(wire) \in MessageOf(Bodies) /\ wire' \in Seq(MessageOf(Bodies))
  BY <1>1, ReadType DEF TypeInv, TypeOK, StreamTypeOK
<1>3. /\ 1 \in DOMAIN wire /\ Head(wire) = wire[1]
      /\ \A i \in DOMAIN wire' : i + 1 \in DOMAIN wire /\ wire'[i] = wire[i + 1]
  BY <1>1, ReadMessages DEF TypeInv, TypeOK, StreamTypeOK
<1>4. \A i \in DOMAIN wire' : wire'[i].kind = "snapshotReply" => wire'[i].body # Nothing
  BY <1>3 DEF TypeInv
<1>5. CASE ReadReply
  <2> DEFINE body == Head(wire).body
  <2>1. StreamTypeOK(States, Seq(Event), Bodies)'
    BY <1>5, ReplyReadType DEF TypeInv, TypeOK, ReadReply
  <2>2. CASE body = Nothing
    <3>1. UNCHANGED <<journal, stored, delivered>>
      BY <1>5, <2>2 DEF ReadReply
    <3> QED BY <1>1, <1>4, <2>1, <3>1 DEF TypeInv, TypeOK
  <2>3. CASE body # Nothing
    <3>1. body.events \in Seq(Event) /\ body.snapshot \in States \cup {Nothing}
      BY <1>2, <2>3 DEF MessageOf, Bodies
    <3>2. /\ journal' = journal \o body.events
          /\ delivered' = delivered + Len(body.events)
          /\ stored' = IF body.snapshot = Nothing THEN stored
                       ELSE [seq |-> delivered', state |-> body.snapshot]
      BY <1>5, <2>3 DEF ReadReply
    <3>3. /\ journal' \in Seq(Event) /\ Len(journal') = Len(journal) + Len(body.events)
          /\ Len(body.events) \in Nat /\ Len(journal) \in Nat
      BY <3>1, <3>2 DEF TypeInv, TypeOK
    <3>4. delivered' \in 0 .. Len(journal')
      BY <3>2, <3>3 DEF TypeInv, TypeOK
    <3>5. stored' \in [seq : Nat, state : States \cup {Nothing}] /\ stored'.seq <= Len(journal')
      <4>1. CASE body.snapshot = Nothing
        BY <3>2, <3>3, <4>1 DEF TypeInv, TypeOK
      <4>2. CASE body.snapshot # Nothing
        BY <3>1, <3>2, <3>3, <3>4, <4>2
      <4> QED BY <4>1, <4>2
    <3> QED BY <1>1, <1>4, <2>1, <3>3, <3>4, <3>5 DEF TypeInv, TypeOK
  <2> QED BY <2>2, <2>3
<1>6. CASE ReadFailure
  <2>1. StreamTypeOK(States, Seq(Event), Bodies)'
    BY <1>6, ReplyReadType DEF TypeInv, TypeOK, ReadFailure
  <2> QED BY <1>1, <1>4, <1>6, <2>1 DEF TypeInv, TypeOK, ReadFailure, entityVars
<1>7. CASE ReadSnapshot
  <2>1. Head(wire).kind = "snapshotReply" /\ Head(wire).body # Nothing
    BY <1>3, <1>7 DEF TypeInv, ReadSnapshot, Reads
  <2>2. Head(wire).body.snapshot \in States \cup {Nothing}
    BY <1>2, <2>1 DEF MessageOf, Bodies
  <2>3. stored' = [seq |-> delivered, state |-> Head(wire).body.snapshot]
    BY <1>7 DEF ReadSnapshot
  <2>4. stored' \in [seq : Nat, state : States \cup {Nothing}] /\ stored'.seq <= Len(journal)
    BY <2>2, <2>3 DEF TypeInv, TypeOK
  <2>5. UNCHANGED <<proxySide, started, ended, journal, delivered>>
    BY <1>7 DEF ReadSnapshot
  <2> QED
    BY <1>1, <1>2, <1>4, <2>4, <2>5 DEF TypeInv, TypeOK, StreamTypeOK, proxySide
<1> QED BY <1>5, <1>6, <1>7

LEMMA TypeNext == TypeInv /\ [Next]_vars => TypeInv'
<1> SUFFICES ASSUME TypeInv, [Next]_vars
             PROVE  TypeInv'
  OBVIOUS
<1>1. CASE OpenStream \/ LoseStream \/ ReadEnd
  BY <1>1, TypeOpen
<1>2. CASE InitStream
  BY <1>2, TypeInitStream
<1>3. CASE ProtocolError \/ HalfClose
  BY <1>3, TypeStream
<1>4. CASE ReplayEvent
  BY <1>4, TypeReplay
<1>5. CASE ReceiveCommand
  BY <1>5, TypeReceive
<1>6. CASE RefuseCommand \/ FailCommand
  BY <1>6, TypeRefuse
<1>7. CASE RequestSnapshot
  BY <1>7, TypeRequest
<1>8. CASE Emit
  BY <1>8, TypeEmit
<1>9. CASE RecordAction \/ Fail
  BY <1>9, TypeAct
<1>10. CASE \E r \in Results : Settle(r)
  BY <1>10, TypeSettle
<1>11. CASE WriteAnswer
  BY <1>11, TypeWrite
<1>12. CASE ReadReply \/ ReadFailure \/ ReadSnapshot
  BY <1>12, TypeRead
<1>13. CASE UNCHANGED vars
  BY <1>13 DEF vars, streamVars, entityVars, TypeInv, TypeOK, StreamTypeOK
<1> QED
  BY <1>1, <1>2, <1>3, <1>4, <1>5, <1>6, <1>7, <1>8, <1>9, <1>10, <1>11, <1>12, <1>13
  DEF Next

(* Type correctness, whatever handlers do and however streams are lost.    *)
THEOREM TypeCorrect == Spec => []TypeOK
<1>1. TypeInv => TypeOK
  BY DEF TypeInv
<1> QED BY <1>1, TypeInit, TypeNext, PTL DEF Spec

----------------------------------------------------------------------------
(* Every command is answered at most once.                                 *)

LEMMA OneAnswerNext == TypeInv /\ OneAnswer /\ [Next]_vars => OneAnswer'
<1> SUFFICES ASSUME TypeInv, OneAnswer, [Next]_vars
             PROVE  OneAnswer'
  OBVIOUS
<1>0. /\ 0 \in 0 .. MaxCommands /\ wire \in Seq(MessageOf(Bodies))
      /\ TypeOK /\ StreamTypeOK(States, Seq(Event), Bodies)
      /\ anyState \in States \cup {Nothing}
  BY StreamAssumption DEF TypeInv, TypeOK, StreamTypeOK
<1>1. CASE OpenStream \/ LoseStream \/ ReadEnd
  BY <1>0, <1>1, OneAnswerReset DEF OpenStream, LoseStream, ReadEnd
<1>2. CASE InitStream \/ Emit \/ RecordAction \/ Fail \/ \E r \in Results : Settle(r)
  <2>1. UNCHANGED <<proxySide, wire>>
    BY <1>2 DEF InitStream, StreamStarts, Emit, RecordAction, HandlerActs, Fail,
                HandlerFails, Settle, HandlerSettles
  <2>2. ctx'.pc # "none" => ctx.pc # "none" /\ ctx'.id = ctx.id
    <3>1. CASE InitStream
      BY <3>1 DEF InitStream, StreamStarts
    <3>2. CASE ~ InitStream
      <4>1. ctx.pc # "none"
        BY <1>2, <3>2 DEF Emit, Active, RecordAction, HandlerActs, MayContinue, Fail,
                          HandlerFails, Settle
      <4>2. ctx \in ContextOf(States, Seq(Event), Bodies)
        BY <1>0, <4>1, RunningContext
      <4>3. ctx'.id = ctx.id
        BY <1>2, <3>2, <4>2 DEF ContextOf, Emit, RecordAction, HandlerActs, Fail,
                                HandlerFails, Settle, HandlerSettles
      <4> QED BY <4>1, <4>3
    <3> QED BY <3>1, <3>2
  <2> QED BY <2>1, <2>2 DEF OneAnswer, proxySide
<1>3. CASE ProtocolError \/ HalfClose
  <2>1. UNCHANGED <<outcome, issued, awaiting, ctx>> /\ link' # "down"
    BY <1>3 DEF ProtocolError, StreamFails, HalfClose, StreamHalfCloses, proxySide, CanRead
  <2>2. GiveUp(0) \/ Put(<<End>>)
    BY <1>3 DEF ProtocolError, HalfClose, StreamFails, StreamHalfCloses
  <2> QED BY <1>0, <2>1, <2>2, OneAnswerGivesUp
<1>4. CASE ReplayEvent
  <2>1. UNCHANGED <<outcome, issued, awaiting, ctx, link>> /\ link' # "down"
    BY <1>4 DEF ReplayEvent, proxySide, CanRead
  <2>2. UNCHANGED wire \/ GiveUp(0)
    BY <1>4 DEF ReplayEvent
  <2>3. CASE UNCHANGED wire
    BY <2>1, <2>3 DEF OneAnswer
  <2>4. CASE GiveUp(0)
    BY <1>0, <2>1, <2>4, OneAnswerGivesUp
  <2> QED BY <2>2, <2>3, <2>4
<1>5. CASE ReceiveCommand
  BY <1>0, <1>5, OneAnswerReceived DEF ReceiveCommand
<1>6. CASE RefuseCommand \/ FailCommand
  BY <1>0, <1>6, OneAnswerRefused DEF RefuseCommand, FailCommand
<1>7. CASE RequestSnapshot
  <2> DEFINE m == Message("snapshotReply", 0, "none", 0,
                          [events |-> <<>>, snapshot |-> Ensure(anyState)])
  <2>1. UNCHANGED <<outcome, issued, awaiting, ctx>> /\ link' # "down" /\ Put(<<m>>)
    BY <1>7 DEF RequestSnapshot, proxySide, CanRead
  <2>2. m.id = 0 /\ m.kind # "reply"
    BY DEF Message
  <2>3. m \in MessageOf(Bodies)
    BY <1>0, EnsureType, StreamAssumption, MaxEffectsAssumption DEF Message, MessageOf, Bodies
  <2>4. <<m>> \in Seq(MessageOf(Bodies)) /\ DOMAIN <<m>> = {1} /\ <<m>>[1] = m
    BY <2>3
  <2> HIDE DEF m
  <2> QED BY <1>0, <2>1, <2>2, <2>4, OneAnswerQuiet
<1>8. CASE WriteAnswer
  <2>1. ctx.pc = "settled" /\ AnswerWritten(FullContext)
    BY <1>8 DEF WriteAnswer, AnswerWritten
  <2> QED BY <1>0, <2>1, FullContextType, OneAnswerWritten
<1>9. CASE ReadReply \/ ReadFailure \/ ReadSnapshot
  <2>1. wire # <<>> /\ wire' = Tail(wire) /\ UNCHANGED <<issued, link, ctx>>
        /\ Head(wire) = wire[1] /\ 1 \in DOMAIN wire
    BY <1>0, <1>9 DEF ReadReply, ReadFailure, ReadSnapshot, ReplyRead, FailureRead, Reads,
                proxySide
  <2>2. CASE ReadReply
    <3>1. Head(wire).id # 0
      BY <2>1, <2>2 DEF OneAnswer, ReadReply, ReplyRead, Reads
    <3> QED BY <1>0, <2>1, <2>2, <3>1, OneAnswerRead DEF ReadReply, ReplyRead
  <2>3. CASE ReadFailure
    BY <1>0, <2>1, <2>3, OneAnswerRead DEF ReadFailure, FailureRead
  <2>4. CASE ReadSnapshot
    BY <1>0, <2>1, <2>4, OneAnswerRead DEF ReadSnapshot, proxySide
  <2> QED BY <1>9, <2>2, <2>3, <2>4
<1>10. CASE UNCHANGED vars
  BY <1>10 DEF vars, streamVars, OneAnswer
<1> QED
  BY <1>1, <1>2, <1>3, <1>4, <1>5, <1>6, <1>7, <1>8, <1>9, <1>10 DEF Next

(* OneAnswer, for every handler.                                           *)
THEOREM AnswersOnce == Spec => []OneAnswer
<1>1. Init => TypeInv /\ OneAnswer
  BY TypeInit, OneAnswerInit DEF Init
<1>2. TypeInv /\ OneAnswer /\ [Next]_vars => (TypeInv /\ OneAnswer)'
  BY TypeNext, OneAnswerNext
<1> QED BY <1>1, <1>2, PTL DEF Spec

----------------------------------------------------------------------------
(* The entity implements the atomic log.                                   *)

(* What a command leaves: its context collects a batch of its own events,  *)
(* a settled handler that will be answered with success left its reply     *)
(* there, and a reply on the wire carries a whole batch or is a failure.   *)
BatchInv ==
  /\ ctx.pc # "none" => Abstract!Batch(ctx.id, ctx.work)
  /\ \A i \in DOMAIN wire :
       wire[i].kind = "reply" /\ wire[i].body # Nothing =>
         /\ Abstract!Batch(wire[i].id, wire[i].body.events)
         /\ wire[i].action # "failure"

LEMMA EmptyBatch ==
  ASSUME NEW c PROVE Abstract!Batch(c, <<>>)
BY EventSourcedAssumption DEF Abstract!Batch, Abstract!Event

(* A reply on the wire was there before, or it is the answer just written. *)
LEMMA RepliesWritten ==
  ASSUME TypeInv, [Next]_vars, NEW i \in DOMAIN wire', wire'[i].kind = "reply"
  PROVE  \/ \E j \in DOMAIN wire : wire'[i] = wire[j]
         \/ /\ WriteAnswer /\ ~ ended /\ ~ EndsStream(FullContext)
            /\ wire'[i] = Answer(FullContext)[1]
<1>0. /\ 0 \in 0 .. MaxCommands /\ wire \in Seq(MessageOf(Bodies)) /\ TypeOK
      /\ issued \in Nat /\ anyState \in States \cup {Nothing}
  BY StreamAssumption DEF TypeInv, TypeOK, StreamTypeOK
<1>1. CASE UNCHANGED wire
  BY <1>1
<1>2. CASE wire' = <<>>
  BY <1>2
<1>3. CASE wire # <<>> /\ wire' = Tail(wire)
  BY <1>0, <1>3, ReadMessages
<1>4. CASE \E id \in 0 .. MaxCommands : \E msgs \in Failures(id) : Put(msgs)
  BY <1>0, <1>4, FailuresPut
<1>5. CASE RequestSnapshot
  <2> DEFINE m == Message("snapshotReply", 0, "none", 0,
                          [events |-> <<>>, snapshot |-> Ensure(anyState)])
  <2>1. Put(<<m>>) /\ m.kind # "reply"
    BY <1>5 DEF RequestSnapshot, Message
  <2>2. m \in MessageOf(Bodies)
    BY <1>0, EnsureType, StreamAssumption, MaxEffectsAssumption DEF Message, MessageOf, Bodies
  <2>3. <<m>> \in Seq(MessageOf(Bodies)) /\ DOMAIN <<m>> = {1} /\ <<m>>[1] = m
    BY <2>2
  <2>4. PICK msgs \in Seq(MessageOf(Bodies)) : msgs = <<m>>
    BY <2>3
  <2>5. Put(msgs) /\ \A k \in DOMAIN msgs : msgs[k].kind # "reply"
    BY <2>1, <2>3, <2>4
  <2> QED BY <1>0, <2>5, PutMessages
<1>6. CASE WriteAnswer
  <2>1. ctx.pc = "settled" /\ AnswerWritten(FullContext)
    BY <1>6 DEF WriteAnswer, AnswerWritten
  <2>2. FullContext \in ContextOf(States, Seq(Event), Bodies)
    BY <1>0, <2>1, FullContextType
  <2> QED BY <1>0, <1>6, <2>1, <2>2, AnswerPut
<1>7. \/ UNCHANGED wire \/ wire' = <<>> \/ (wire # <<>> /\ wire' = Tail(wire))
      \/ (\E id \in 0 .. MaxCommands : \E msgs \in Failures(id) : Put(msgs))
      \/ RequestSnapshot \/ WriteAnswer
  <2>1. CASE OpenStream \/ LoseStream \/ ReadEnd
    BY <2>1 DEF OpenStream, LoseStream, ReadEnd, StreamOpens, EndRead, StreamLost, ResetStream
  <2>2. CASE InitStream \/ Emit \/ RecordAction \/ Fail \/ (\E r \in Results : Settle(r))
             \/ ReceiveCommand \/ UNCHANGED vars
    BY <2>2 DEF InitStream, StreamStarts, Emit, RecordAction, HandlerActs, Fail,
                HandlerFails, Settle, HandlerSettles, ReceiveCommand, CommandReceived,
                vars, streamVars
  <2>3. CASE ProtocolError \/ HalfClose \/ ReplayEvent
    <3>1. <<Failure(0), End>> \in Failures(0) /\ <<End>> \in Failures(0)
      BY DEF Failures
    <3>2. UNCHANGED wire \/ Put(<<Failure(0), End>>) \/ Put(<<End>>)
      BY <2>3 DEF ProtocolError, HalfClose, ReplayEvent, StreamFails, StreamHalfCloses, GiveUp
    <3> QED BY <1>0, <3>1, <3>2
  <2>4. CASE RefuseCommand \/ FailCommand
    <3>1. issued + 1 \in 0 .. MaxCommands
      BY <1>0, <2>4, StreamAssumption
         DEF RefuseCommand, FailCommand, CommandRefused, CommandFails, CommandSent
    <3>2. /\ <<Failure(issued + 1)>> \in Failures(issued + 1)
          /\ <<Failure(issued + 1), End>> \in Failures(issued + 1)
      BY DEF Failures
    <3>3. Put(<<Failure(issued + 1)>>) \/ Put(<<Failure(issued + 1), End>>)
      BY <2>4 DEF RefuseCommand, FailCommand, CommandRefused, CommandFails, GiveUp
    <3> QED BY <3>1, <3>2, <3>3
  <2>5. CASE ReadReply \/ ReadFailure \/ ReadSnapshot
    BY <2>5 DEF ReadReply, ReadFailure, ReadSnapshot, ReplyRead, FailureRead, Reads
  <2> QED BY <2>1, <2>2, <2>3, <2>4, <2>5 DEF Next
<1> QED BY <1>1, <1>2, <1>3, <1>4, <1>5, <1>6, <1>7

(* What one step does to the context of a command. *)
LEMMA ContextSteps ==
  ASSUME TypeInv, [Next]_vars, ctx'.pc # "none"
  PROVE  \/ ReceiveCommand /\ ctx' = NewContext(issued + 1, Ensure(anyState), <<>>)
         \/ Emit
         \/ /\ ctx.pc # "none" /\ ctx'.id = ctx.id /\ ctx'.work = ctx.work
            /\ ctx'.saw = ctx.saw
<1>1. CASE OpenStream \/ LoseStream \/ ReadEnd
  BY <1>1 DEF OpenStream, LoseStream, ReadEnd, StreamOpens, EndRead, StreamLost,
              ResetStream, NoContext
<1>2. CASE InitStream \/ ProtocolError \/ HalfClose \/ ReplayEvent \/ RefuseCommand
           \/ FailCommand \/ RequestSnapshot \/ ReadReply \/ ReadFailure \/ ReadSnapshot
           \/ UNCHANGED vars
  <2>1. ctx' = ctx
    BY <1>2 DEF InitStream, ProtocolError, HalfClose, ReplayEvent, RefuseCommand,
         FailCommand, RequestSnapshot, ReadReply, ReadFailure, ReadSnapshot, StreamStarts,
         StreamFails, StreamHalfCloses, CommandRefused, CommandFails, ReplyRead,
         FailureRead, vars, streamVars
  <2> QED BY <2>1
<1>3. CASE ReceiveCommand
  BY <1>3 DEF ReceiveCommand, CommandReceived
<1>4. CASE Emit
  BY <1>4
<1>5. CASE RecordAction \/ Fail \/ \E r \in Results : Settle(r)
  <2>1. ctx.pc # "none"
    BY <1>5 DEF RecordAction, HandlerActs, MayContinue, Fail, HandlerFails, Settle
  <2>2. ctx \in ContextOf(States, Seq(Event), Bodies)
    BY <2>1, RunningContext DEF TypeInv, TypeOK
  <2>3. ctx'.id = ctx.id /\ ctx'.work = ctx.work /\ ctx'.saw = ctx.saw
    BY <1>5, <2>2 DEF ContextOf, RecordAction, HandlerActs, Fail, HandlerFails, Settle,
                      HandlerSettles
  <2> QED BY <2>1, <2>3
<1>6. CASE WriteAnswer
  BY <1>6 DEF WriteAnswer, AnswerWritten, NoContext
<1> QED BY <1>1, <1>2, <1>3, <1>4, <1>5, <1>6 DEF Next

LEMMA EmitBatch ==
  ASSUME TypeInv, BatchInv, Emit
  PROVE  Abstract!Batch(ctx'.id, ctx'.work)
<1>1. ctx \in ContextOf(States, Seq(Event), Bodies)
  BY RunningContext DEF TypeInv, TypeOK, Emit, Active
<1>2. ctx.work \in Seq(Event) /\ ctx.id \in Commands /\ Len(ctx.work) < MaxEmits
  BY <1>1 DEF ContextOf, Emit
<1>3. PICK ok \in BOOLEAN :
        ctx' = [ctx EXCEPT !.work =
                  Append(@, [cmd |-> ctx.id, n |-> Len(ctx.work) + 1, ok |-> ok])]
  BY DEF Emit
<1> DEFINE e == [cmd |-> ctx.id, n |-> Len(ctx.work) + 1, ok |-> ok]
<1>4. e \in Event
  BY <1>2, EventSourcedAssumption DEF Event
<1>5. ctx'.id = ctx.id /\ ctx'.work = Append(ctx.work, e)
  BY <1>1, <1>3 DEF ContextOf
<1>6. Event = Abstract!Event
  BY DEF Event, Abstract!Event
<1>7. \A i \in DOMAIN ctx.work : ctx.work[i].cmd = ctx.id /\ ctx.work[i].n = i
  BY <1>1 DEF BatchInv, Abstract!Batch, Emit, Active
<1>8. \A i \in DOMAIN ctx'.work : ctx'.work[i].cmd = ctx'.id /\ ctx'.work[i].n = i
  <2> SUFFICES ASSUME NEW i \in DOMAIN ctx'.work
               PROVE  ctx'.work[i].cmd = ctx'.id /\ ctx'.work[i].n = i
    OBVIOUS
  <2>1. CASE i \in DOMAIN ctx.work
    <3>1. ctx'.work[i] = ctx.work[i]
      BY <1>2, <1>4, <1>5, <2>1
    <3> QED BY <1>5, <1>7, <2>1, <3>1
  <2>2. CASE i \notin DOMAIN ctx.work
    <3>1. i = Len(ctx.work) + 1 /\ ctx'.work[i] = e
      BY <1>2, <1>4, <1>5, <2>2
    <3> QED BY <1>5, <3>1
  <2> QED BY <2>1, <2>2
<1>9. ctx'.work \in Seq(Event) /\ Len(ctx'.work) <= MaxEmits
  BY <1>2, <1>4, <1>5, EventSourcedAssumption
<1> QED BY <1>6, <1>8, <1>9 DEF Abstract!Batch

LEMMA BatchNext ==
  TypeInv /\ OneAnswer /\ BatchInv /\ [Next]_vars => BatchInv'
<1> SUFFICES ASSUME TypeInv, OneAnswer, BatchInv, [Next]_vars
             PROVE  BatchInv'
  OBVIOUS
<1>1. ctx'.pc # "none" => Abstract!Batch(ctx'.id, ctx'.work)
  <2> SUFFICES ASSUME ctx'.pc # "none"
               PROVE  Abstract!Batch(ctx'.id, ctx'.work)
    OBVIOUS
  <2>1. CASE ctx' = NewContext(issued + 1, Ensure(anyState), <<>>)
    BY <2>1, EmptyBatch DEF NewContext, NoContext
  <2>2. CASE Emit
    BY <2>2, EmitBatch
  <2>3. CASE ctx.pc # "none" /\ ctx'.id = ctx.id /\ ctx'.work = ctx.work
    BY <2>3 DEF BatchInv
  <2> QED BY <2>1, <2>2, <2>3, ContextSteps
<1>2. ASSUME NEW i \in DOMAIN wire', wire'[i].kind = "reply", wire'[i].body # Nothing
      PROVE  /\ Abstract!Batch(wire'[i].id, wire'[i].body.events)
             /\ wire'[i].action # "failure"
  <2>1. CASE \E j \in DOMAIN wire : wire'[i] = wire[j]
    BY <1>2, <2>1 DEF BatchInv
  <2>2. CASE WriteAnswer /\ ~ EndsStream(FullContext) /\ wire'[i] = Answer(FullContext)[1]
    <3>1. ctx.pc = "settled"
      BY <2>2 DEF WriteAnswer, AnswerWritten
    <3>2. /\ FullContext.id = ctx.id
          /\ ctx \in ContextOf(States, Seq(Event), Bodies)
      BY <3>1, FullContextType, RunningContext DEF TypeInv, TypeOK
    <3>3. /\ wire'[i].id = ctx.id /\ wire'[i].action # "failure"
          /\ wire'[i].body = FullContext.body
      BY <1>2, <2>2, <3>2, AnswerIsReply
    <3>4. FullContext.body.events = ctx.work
      <4>1. ctx.body # Nothing
        BY <1>2, <3>3 DEF FullContext
      <4>2. ctx.body \in Bodies
        BY <3>2, <4>1 DEF ContextOf
      <4> QED BY <3>2, <4>1, <4>2 DEF FullContext, Bodies, ContextOf
    <3> QED BY <3>1, <3>3, <3>4 DEF BatchInv
  <2> QED BY <1>2, <2>1, <2>2, RepliesWritten
<1> QED BY <1>1, <1>2 DEF BatchInv

LEMMA BatchInit == Init => BatchInv
BY DEF Init, StreamInit, NoContext, BatchInv

(* A batch is a function that Execute of the abstract log may choose. *)
LEMMA BatchIsChoice ==
  ASSUME NEW c, NEW evs, Abstract!Batch(c, evs)
  PROVE  evs \in UNION {[1 .. k -> Abstract!Event] : k \in 0 .. MaxEmits}
<1>1. evs \in Seq(Abstract!Event) /\ Len(evs) \in 0 .. MaxEmits
  BY EventSourcedAssumption DEF Abstract!Batch
<1>2. evs \in [1 .. Len(evs) -> Abstract!Event]
  BY <1>1
<1> QED BY <1>1, <1>2

LEMMA RefineInit == Init => Abstract!JInit
BY DEF Init, StreamInit, Abstract!JInit

(* Reading an answer decides its command; every other step of the entity,  *)
(* the proxy or the stream is a step the log does not see.                 *)
LEMMA RefineNext ==
  TypeInv /\ OneAnswer /\ BatchInv /\ [Next]_vars => [Abstract!JNext]_Abstract!jvars
<1> SUFFICES ASSUME TypeInv, OneAnswer, BatchInv, [Next]_vars
             PROVE  Abstract!JNext \/ UNCHANGED <<journal, outcome>>
  BY DEF Abstract!jvars
<1> DEFINE m == Head(wire)
<1>1. CASE ReadReply \/ ReadFailure
  <2>1. wire # <<>>
    BY <1>1 DEF ReadReply, ReplyRead, ReadFailure, FailureRead, Reads
  <2>2. 1 \in DOMAIN wire /\ m = wire[1] /\ journal \in Seq(Event)
        /\ m \in MessageOf(Bodies)
    BY <2>1, ReadType DEF TypeInv, TypeOK, StreamTypeOK
  <2>3. m.id # 0 => m.id \in Commands /\ outcome[m.id] = "pending"
    <3>1. m.id # 0 => m.id = awaiting /\ awaiting \in 0 .. issued /\ issued \in 0 .. MaxCommands
      BY <2>2 DEF OneAnswer, TypeInv, TypeOK, StreamTypeOK
    <3> QED BY <3>1, StreamAssumption DEF OneAnswer, Commands
  <2>4. CASE ReadReply /\ m.action = "failure"
    <3>1. m.id # 0 /\ m.body = Nothing
      BY <2>2, <2>4 DEF OneAnswer, BatchInv, ReadReply, ReplyRead, Reads
    <3>2. Abstract!Reject(m.id)
      BY <2>3, <2>4, <3>1 DEF ReadReply, ReplyRead, Abstract!Reject
    <3> QED BY <2>3, <3>1, <3>2 DEF Abstract!JNext
  <2>5. CASE ReadReply /\ m.action # "failure" /\ m.body = Nothing
    <3>1. m.id # 0
      BY <2>2, <2>5 DEF OneAnswer, ReadReply, ReplyRead, Reads
    <3>2. Abstract!Batch(m.id, <<>>) /\ journal' = journal \o <<>>
      BY <2>2, <2>5, EmptyBatch DEF ReadReply
    <3>3. Abstract!Execute(m.id)
      BY <2>3, <2>5, <3>1, <3>2, BatchIsChoice DEF ReadReply, ReplyRead, Abstract!Execute
    <3> QED BY <2>3, <3>1, <3>3 DEF Abstract!JNext
  <2>6. CASE ReadReply /\ m.action # "failure" /\ m.body # Nothing
    <3>1. m.id # 0
      BY <2>2, <2>6 DEF OneAnswer, ReadReply, ReplyRead, Reads
    <3>2. Abstract!Batch(m.id, m.body.events)
      BY <2>2, <2>6 DEF BatchInv, ReadReply, ReplyRead, Reads
    <3>3. journal' = journal \o m.body.events
      BY <2>6 DEF ReadReply
    <3>4. Abstract!Execute(m.id)
      BY <2>3, <2>6, <3>1, <3>2, <3>3, BatchIsChoice DEF ReadReply, ReplyRead, Abstract!Execute
    <3> QED BY <2>3, <3>1, <3>4 DEF Abstract!JNext
  <2>7. CASE ReadFailure /\ m.id = 0
    BY <2>7 DEF ReadFailure, FailureRead, entityVars
  <2>8. CASE ReadFailure /\ m.id # 0
    <3>1. Abstract!Reject(m.id)
      BY <2>3, <2>8 DEF ReadFailure, FailureRead, entityVars, Abstract!Reject
    <3> QED BY <2>3, <2>8, <3>1 DEF Abstract!JNext
  <2> QED BY <1>1, <2>4, <2>5, <2>6, <2>7, <2>8
<1>2. CASE OpenStream \/ LoseStream \/ ReadEnd
  BY <1>2 DEF OpenStream, LoseStream, ReadEnd, StreamOpens, EndRead, StreamLost, ResetEntity
<1>3. CASE InitStream \/ ProtocolError \/ HalfClose \/ ReplayEvent
  BY <1>3 DEF InitStream, StreamStarts, ProtocolError, StreamFails, HalfClose,
              StreamHalfCloses, ReplayEvent, proxySide, entityVars
<1>4. CASE ReceiveCommand \/ RefuseCommand \/ FailCommand
  BY <1>4 DEF ReceiveCommand, CommandReceived, RefuseCommand, CommandRefused, FailCommand,
              CommandFails, CommandSent, Replayed
<1>5. CASE RequestSnapshot \/ Emit \/ RecordAction \/ Fail
  BY <1>5 DEF RequestSnapshot, Replayed, Emit, RecordAction, HandlerActs, Fail,
              HandlerFails, proxySide, entityVars
<1>6. CASE \E r \in Results : Settle(r)
  BY <1>6 DEF Settle, HandlerSettles, proxySide
<1>7. CASE WriteAnswer \/ ReadSnapshot
  BY <1>7 DEF WriteAnswer, AnswerWritten, ReadSnapshot, proxySide, entityVars
<1>8. CASE UNCHANGED vars
  BY <1>8 DEF vars, streamVars, entityVars
<1> QED BY <1>1, <1>2, <1>3, <1>4, <1>5, <1>6, <1>7, <1>8 DEF Next

(* ImplementsJournal: whatever the handlers do, and however streams are    *)
(* lost and reopened, a command's whole batch of events is persisted       *)
(* together with its one successful answer, or nothing of it is.           *)
THEOREM JournalRefinement == Spec => ImplementsJournal
<1> DEFINE Inv == TypeInv /\ OneAnswer /\ BatchInv
<1>1. Init => Inv
  BY TypeInit, OneAnswerInit, BatchInit DEF Init
<1>2. Inv /\ [Next]_vars => Inv'
  BY TypeNext, OneAnswerNext, BatchNext
<1>3. Inv /\ [Next]_vars => [Abstract!JNext]_Abstract!jvars
  BY RefineNext
<1> QED BY <1>1, <1>2, <1>3, RefineInit, PTL DEF Spec, ImplementsJournal, Abstract!JSpec

----------------------------------------------------------------------------
(***************************************************************************)
(* The memory of an event sourced entity is its journal, for disciplined   *)
(* handlers: those that let the error of ctx.fail propagate and emit       *)
(* nothing once they have settled.  Without either assumption the theorems *)
(* are false of the code.                                                  *)
(***************************************************************************)

----------------------------------------------------------------------------
(* The inductive invariant.                                                *)

(* A reply that carries the events of a command. *)
Carries(m) == m.kind = "reply" /\ m.body # Nothing

(* A journal grown by evs, and the snapshot numbers it passed. *)
Grown(evs) == journal \o evs
NothingDue(from, to) == \A seq \in from + 1 .. to : ~ SnapshotDue(seq)

(* What a batch of events still on its way to the journal must be: each    *)
(* can be applied, and the snapshot that goes with it is the state after   *)
(* the last, or none was due.                                              *)
GoodBatch(evs, snapshot) ==
  /\ \A i \in DOMAIN evs : evs[i].ok
  /\ IF snapshot = Nothing
     THEN NothingDue(Len(journal), Len(journal) + Len(evs))
     ELSE snapshot.events = Grown(evs)

(* The memory is the state after the sequence of events evs. *)
MemoryAt(evs) == Ensure(anyState).events = evs /\ sequence = Len(evs)

(* The stored snapshot is a prefix of the journal, and no snapshot was due *)
(* since.                                                                  *)
StoredInv ==
  /\ Ensure(stored.state).events = SubSeq(journal, 1, stored.seq)
  /\ stored.state = Nothing => stored.seq = 0
  /\ NothingDue(stored.seq, Len(journal))

(* Commands and snapshot requests come when the whole journal was fed, and *)
(* nothing is fed until they are answered.                                 *)
FedInv ==
  (awaiting # 0 \/ \E i \in DOMAIN wire : wire[i].kind = "snapshotReply")
    => started /\ delivered = Len(journal)

(* Messages on the wire: a requested snapshot counts the events of the     *)
(* reply before it.                                                        *)
WireInv ==
  \A i \in DOMAIN wire :
    /\ Carries(wire[i]) => GoodBatch(wire[i].body.events, wire[i].body.snapshot)
    /\ wire[i].kind = "snapshotReply" =>
         /\ wire[i].body.snapshot # Nothing
         /\ \/ /\ \A j \in 1 .. i - 1 : ~ Carries(wire[j])
               /\ wire[i].body.snapshot.events = journal
            \/ \E j \in 1 .. i - 1 :
                 /\ Carries(wire[j])
                 /\ wire[i].body.snapshot.events = Grown(wire[j].body.events)

(* The memory of a stream the service has not ended: ahead of the journal  *)
(* by the reply on its way or by the events of a handler that has settled, *)
(* unless an event could not be applied, which ends the stream.            *)
LiveInv ==
  started /\ ~ ended =>
    /\ \A i \in DOMAIN wire : Carries(wire[i]) => MemoryAt(Grown(wire[i].body.events))
    /\ ctx.pc = "running" => ctx.saw.events = journal
    /\ (ctx.pc = "settled" /\ ctx.body # Nothing) =>
         /\ ~ ctx.error /\ ~ IsFailure(ctx.result)
         /\ \/ ctx.result.kind = "throw"
            \/ /\ MemoryAt(Grown(ctx.work))
               /\ GoodBatch(ctx.work, ctx.body.snapshot)
    /\ /\ ctx.pc = "settled" => ctx.body = Nothing
       /\ \A i \in DOMAIN wire : ~ Carries(wire[i])
       => MemoryAt(SubSeq(journal, 1, delivered))

MemoryInv == StoredInv /\ FedInv /\ WireInv /\ LiveInv /\ JournalIsReplayable

----------------------------------------------------------------------------
(* Every action keeps it.                                                  *)

LEMMA EnsureTwice ==
  ASSUME NEW st \in States \cup {Nothing}
  PROVE  Ensure(Ensure(st)) = Ensure(st)
BY EnsureType DEF Ensure

(* The memory has the type of a prefix of the journal. *)
LEMMA MemoryTypes ==
  ASSUME TypeInv
  PROVE  /\ journal \in Seq(Event) /\ Len(journal) \in Nat
         /\ delivered \in 0 .. Len(journal) /\ stored.seq \in 0 .. Len(journal)
         /\ anyState \in States \cup {Nothing} /\ sequence \in Nat
         /\ wire \in Seq(MessageOf(Bodies)) /\ StreamTypeOK(States, Seq(Event), Bodies)
BY DEF TypeInv, TypeOK, StreamTypeOK

(* With no answer awaited, or while a command is handled, no reply is on   *)
(* its way.                                                                *)
LEMMA NoReplyWaits ==
  ASSUME TypeInv, OneAnswer, awaiting = 0 \/ ctx.pc # "none"
  PROVE  /\ \A i \in DOMAIN wire : ~ Carries(wire[i])
         /\ awaiting = 0 => ctx.pc = "none"
         /\ ctx.pc # "none" => awaiting # 0
<1>1. ctx.pc # "none" => ctx.id \in Commands
  BY RunningContext DEF TypeInv, TypeOK, ContextOf
<1>2. ctx.pc # "none" => awaiting # 0
  BY <1>1 DEF OneAnswer, Commands
<1>3. \A i \in DOMAIN wire : ~ Carries(wire[i])
  BY DEF OneAnswer, Carries
<1> QED BY <1>2, <1>3

LEMMA MemoryInit == Init => MemoryInv
<1> SUFFICES ASSUME Init PROVE MemoryInv
  OBVIOUS
<1>1. journal = <<>> /\ stored = [seq |-> 0, state |-> Nothing] /\ wire = <<>>
      /\ started = FALSE /\ awaiting = 0
  BY DEF Init, StreamInit, NoSnapshot
<1>2. Ensure(stored.state).events = <<>>
  BY <1>1 DEF Ensure, State
<1>3. SubSeq(journal, 1, 0) = <<>> /\ Len(journal) = 0 /\ stored.seq = 0
  BY <1>1
<1>4. NothingDue(0, 0)
  BY DEF NothingDue
<1>5. StoredInv
  BY <1>2, <1>3, <1>4 DEF StoredInv
<1> QED BY <1>1, <1>5 DEF MemoryInv, FedInv, WireInv, LiveInv, JournalIsReplayable

LEMMA MemoryReset ==
  ASSUME MemoryInv, OpenStream \/ LoseStream \/ ReadEnd
  PROVE  MemoryInv'
<1>1. journal' = journal /\ stored' = stored /\ wire' = <<>> /\ started' = FALSE
      /\ awaiting' = 0
  BY DEF OpenStream, LoseStream, ReadEnd, StreamOpens, EndRead, StreamLost, ResetStream,
         ResetEntity
<1> QED
  BY <1>1 DEF MemoryInv, StoredInv, FedInv, WireInv, LiveInv, JournalIsReplayable, NothingDue

(* The messages after a write that holds neither a reply nor a snapshot. *)
Appends ==
  /\ \A i \in DOMAIN wire : i \in DOMAIN wire' /\ wire'[i] = wire[i]
  /\ \A i \in DOMAIN wire' :
       i \in DOMAIN wire \/ wire'[i].kind \notin {"reply", "snapshotReply"}

LEMMA PutAppends ==
  ASSUME TypeInv, NEW msgs \in Seq(MessageOf(Bodies)), Put(msgs),
         \A k \in DOMAIN msgs : msgs[k].kind \notin {"reply", "snapshotReply"}
  PROVE  Appends
<1>1. wire \in Seq(MessageOf(Bodies))
  BY MemoryTypes
<1>2. \A i \in DOMAIN wire : i \in DOMAIN wire' /\ wire'[i] = wire[i]
  BY <1>1 DEF Put
<1>3. \A i \in DOMAIN wire' :
        i \in DOMAIN wire \/ wire'[i].kind \notin {"reply", "snapshotReply"}
  BY <1>1, PutMessages
<1> QED BY <1>2, <1>3 DEF Appends

LEMMA FailuresAppend ==
  ASSUME TypeInv, NEW id \in 0 .. MaxCommands, NEW msgs \in Failures(id), Put(msgs)
  PROVE  Appends
<1>1. msgs \in Seq(MessageOf(Bodies))
  BY GiveUpType DEF Failures
<1>2. \A k \in DOMAIN msgs : msgs[k].kind \notin {"reply", "snapshotReply"}
  BY GiveUpMessages
<1> QED BY <1>1, <1>2, PutAppends

(* The wire and what is fed keep their invariants when messages that are   *)
(* neither replies nor snapshots follow.                                   *)
LEMMA WireAppends ==
  ASSUME TypeInv, WireInv, UNCHANGED journal, Appends
  PROVE  WireInv'
<1>1. ASSUME NEW i \in DOMAIN wire', Carries(wire'[i]) \/ wire'[i].kind = "snapshotReply"
      PROVE  /\ i \in DOMAIN wire /\ wire'[i] = wire[i]
             /\ \A j \in 1 .. i - 1 : j \in DOMAIN wire /\ wire'[j] = wire[j]
  BY <1>1, MemoryTypes DEF Appends, Carries
<1>2. ASSUME NEW i \in DOMAIN wire', Carries(wire'[i])
      PROVE  GoodBatch(wire[i].body.events, wire[i].body.snapshot) /\ wire'[i] = wire[i]
  BY <1>1, <1>2 DEF WireInv
<1>3. ASSUME NEW i \in DOMAIN wire', wire'[i].kind = "snapshotReply"
      PROVE  /\ wire'[i].body.snapshot # Nothing
             /\ \/ /\ \A j \in 1 .. i - 1 : ~ Carries(wire'[j])
                   /\ wire'[i].body.snapshot.events = journal
                \/ \E j \in 1 .. i - 1 :
                     /\ Carries(wire'[j])
                     /\ wire'[i].body.snapshot.events = Grown(wire'[j].body.events)
  BY <1>1, <1>3 DEF WireInv
<1> QED BY <1>2, <1>3 DEF WireInv, GoodBatch, Grown, NothingDue

(* A step that changes nothing but messages of no account, and a context   *)
(* that goes on running.                                                   *)
LEMMA MemoryQuiet ==
  ASSUME TypeInv, MemoryInv, Appends,
         UNCHANGED <<journal, stored, delivered, sequence, started>>,
         Ensure(anyState') = Ensure(anyState),
         ~ ended' => ~ ended,
         awaiting' # 0 => awaiting # 0 \/ (started /\ delivered = Len(journal)),
         \/ ctx' = ctx
         \/ ctx.pc = "running" /\ ctx'.pc = "running" /\ ctx'.saw = ctx.saw
  PROVE  MemoryInv'
<1>1. StoredInv'
  BY DEF MemoryInv, StoredInv, NothingDue
<1>2. WireInv'
  BY WireAppends DEF MemoryInv
<1>3. FedInv'
  BY DEF MemoryInv, FedInv, Appends
<1>4. ASSUME NEW evs
      PROVE  MemoryAt(evs) <=> Ensure(anyState').events = evs /\ sequence' = Len(evs)
  BY DEF MemoryAt
<1>5. LiveInv'
  <2> SUFFICES ASSUME started, ~ ended, ~ ended'
               PROVE  (/\ \A i \in DOMAIN wire :
                            Carries(wire[i]) => MemoryAt(Grown(wire[i].body.events))
                       /\ ctx.pc = "running" => ctx.saw.events = journal
                       /\ (ctx.pc = "settled" /\ ctx.body # Nothing) =>
                            /\ ~ ctx.error /\ ~ IsFailure(ctx.result)
                            /\ \/ ctx.result.kind = "throw"
                               \/ /\ MemoryAt(Grown(ctx.work))
                                  /\ GoodBatch(ctx.work, ctx.body.snapshot)
                       /\ /\ ctx.pc = "settled" => ctx.body = Nothing
                          /\ \A i \in DOMAIN wire : ~ Carries(wire[i])
                          => MemoryAt(SubSeq(journal, 1, delivered)))'
    BY DEF LiveInv
  <2>1. \A i \in DOMAIN wire' : Carries(wire'[i]) => i \in DOMAIN wire /\ wire'[i] = wire[i]
    BY DEF Appends, Carries
  <2>2. (\A i \in DOMAIN wire' : ~ Carries(wire'[i])) => \A i \in DOMAIN wire : ~ Carries(wire[i])
    BY DEF Appends
  <2>3. \A i \in DOMAIN wire' : Carries(wire'[i]) =>
           MemoryAt(Grown(wire'[i].body.events)) /\ wire'[i] = wire[i]
    BY <2>1 DEF MemoryInv, LiveInv
  <2>4. LiveInv
    BY DEF MemoryInv
  <2>5. CASE ctx' = ctx
    BY <2>2, <2>3, <2>4, <2>5 DEF LiveInv, MemoryAt, Grown, GoodBatch, NothingDue, IsFailure
  <2>6. CASE ctx.pc = "running" /\ ctx'.pc = "running" /\ ctx'.saw = ctx.saw
    BY <2>2, <2>3, <2>4, <2>6 DEF LiveInv, MemoryAt, Grown
  <2> QED BY <2>5, <2>6
<1> QED BY <1>1, <1>2, <1>3, <1>5 DEF MemoryInv, JournalIsReplayable

LEMMA MemoryStream ==
  ASSUME TypeInv, MemoryInv, ProtocolError \/ HalfClose
  PROVE  MemoryInv'
<1>1. 0 \in 0 .. MaxCommands /\ <<Failure(0), End>> \in Failures(0) /\ <<End>> \in Failures(0)
  BY StreamAssumption DEF Failures
<1>2. Put(<<Failure(0), End>>) \/ Put(<<End>>)
  BY DEF ProtocolError, HalfClose, StreamFails, StreamHalfCloses, GiveUp
<1>3. Appends
  BY <1>1, <1>2, FailuresAppend
<1>4. /\ UNCHANGED <<journal, stored, delivered, sequence, started, anyState, awaiting, ctx>>
      /\ ended' = TRUE
  BY DEF ProtocolError, HalfClose, StreamFails, StreamHalfCloses, GiveUp, proxySide,
         entityVars
<1> QED BY <1>3, <1>4, MemoryQuiet

LEMMA MemoryRefuse ==
  ASSUME TypeInv, MemoryInv, RefuseCommand \/ FailCommand
  PROVE  MemoryInv'
<1>1. CommandSent /\ ctx' = ctx /\ Replayed /\ anyState' \in {anyState, Ensure(anyState)}
  BY DEF RefuseCommand, FailCommand, CommandRefused, CommandFails
<1>2. issued + 1 \in 0 .. MaxCommands
  BY <1>1, MemoryTypes, StreamAssumption DEF CommandSent, StreamTypeOK
<1>3. /\ <<Failure(issued + 1)>> \in Failures(issued + 1)
      /\ <<Failure(issued + 1), End>> \in Failures(issued + 1)
  BY DEF Failures
<1>4. Put(<<Failure(issued + 1)>>) \/ Put(<<Failure(issued + 1), End>>)
  BY DEF RefuseCommand, FailCommand, CommandRefused, CommandFails, GiveUp
<1>5. Appends
  BY <1>2, <1>3, <1>4, FailuresAppend
<1>6. Ensure(anyState') = Ensure(anyState)
  BY <1>1, EnsureTwice, MemoryTypes
<1>7. /\ UNCHANGED <<journal, stored, delivered, sequence, started>>
      /\ started /\ delivered = Len(journal)
  BY <1>1 DEF Replayed, CommandSent
<1>8. ~ ended' => ~ ended
  BY DEF RefuseCommand, FailCommand, CommandRefused, CommandFails, GiveUp
<1> QED BY <1>1, <1>5, <1>6, <1>7, <1>8, MemoryQuiet

LEMMA MemoryAct ==
  ASSUME TypeInv, MemoryInv, ~ EmitsLate, Emit \/ RecordAction \/ Fail
  PROVE  MemoryInv'
<1>1. ctx.pc = "running"
  BY DEF Emit, RecordAction, HandlerActs, Fail, HandlerFails, MayContinue
<1>2. ctx \in ContextOf(States, Seq(Event), Bodies)
  BY <1>1, RunningContext, MemoryTypes
<1>3. ctx'.pc = "running" /\ ctx'.saw = ctx.saw
  BY <1>1, <1>2 DEF ContextOf, Emit, RecordAction, HandlerActs, Fail, HandlerFails
<1>4. UNCHANGED <<proxySide, wire, started, ended, entityVars>>
  BY DEF Emit, RecordAction, HandlerActs, Fail, HandlerFails
<1>5. Appends
  BY <1>4 DEF Appends
<1> QED BY <1>1, <1>3, <1>4, <1>5, MemoryQuiet DEF proxySide, entityVars

(* The handler is created: its memory is the stored snapshot.              *)
LEMMA MemoryInitStream ==
  ASSUME TypeInv, OneAnswer, MemoryInv, InitStream
  PROVE  MemoryInv'
<1>1. /\ ~ started /\ started' = TRUE
      /\ UNCHANGED <<journal, stored, wire, ended, ctx, awaiting>>
      /\ anyState' = stored.state /\ sequence' = stored.seq /\ delivered' = stored.seq
  BY DEF InitStream, StreamStarts, proxySide
<1>2. awaiting = 0 /\ \A i \in DOMAIN wire : wire[i].kind # "snapshotReply"
  BY <1>1 DEF MemoryInv, FedInv
<1>3. ctx.pc = "none" /\ \A i \in DOMAIN wire : ~ Carries(wire[i])
  BY <1>2, NoReplyWaits
<1>4. SubSeq(journal, 1, stored.seq) \in Seq(Event)
      /\ Len(SubSeq(journal, 1, stored.seq)) = stored.seq
  BY MemoryTypes
<1>5. MemoryAt(SubSeq(journal, 1, delivered))'
  BY <1>1, <1>4 DEF MemoryInv, StoredInv, MemoryAt
<1>6. StoredInv' /\ JournalIsReplayable'
  BY <1>1 DEF MemoryInv, StoredInv, NothingDue, JournalIsReplayable
<1>7. FedInv' /\ WireInv'
  BY <1>1, <1>2, <1>3 DEF FedInv, WireInv, Carries
<1>8. LiveInv'
  BY <1>1, <1>3, <1>5 DEF LiveInv, Carries
<1> QED BY <1>6, <1>7, <1>8 DEF MemoryInv

(* An event of the journal is applied; it was applied before it was        *)
(* persisted, so it can be.                                                *)
LEMMA MemoryReplay ==
  ASSUME TypeInv, OneAnswer, MemoryInv, ReplayEvent
  PROVE  MemoryInv'
<1> DEFINE e == journal[delivered + 1]
<1>0. /\ journal \in Seq(Event) /\ Len(journal) \in Nat /\ delivered \in 0 .. Len(journal)
      /\ anyState \in States \cup {Nothing} /\ wire \in Seq(MessageOf(Bodies))
  BY MemoryTypes
<1>1. delivered < Len(journal) /\ started
  BY DEF ReplayEvent
<1>2. awaiting = 0 /\ \A i \in DOMAIN wire : wire[i].kind # "snapshotReply"
  BY <1>0, <1>1 DEF MemoryInv, FedInv
<1>3. ctx.pc = "none" /\ \A i \in DOMAIN wire : ~ Carries(wire[i])
  BY <1>2, NoReplyWaits
<1>4. e.ok
  BY <1>0, <1>1 DEF MemoryInv, JournalIsReplayable
<1>5. /\ UNCHANGED <<journal, stored, wire, ended, started, ctx, awaiting>>
      /\ delivered' = delivered + 1 /\ sequence' = delivered + 1
      /\ anyState' = State(Append(Ensure(anyState).events, e))
  BY <1>4 DEF ReplayEvent, proxySide
<1>6. SubSeq(journal, 1, delivered + 1) = Append(SubSeq(journal, 1, delivered), e)
  BY <1>0, <1>1
<1>7. Ensure(anyState').events = Append(Ensure(anyState).events, e)
  <2>1. Ensure(anyState).events \in Seq(Event) /\ e \in Event
    BY <1>0, <1>1, EnsureType DEF States
  <2>2. anyState' \in States
    BY <1>5, <2>1 DEF State, States
  <2>3. anyState' # Nothing
    BY <2>2, StateIsSome
  <2> QED BY <1>5, <2>3 DEF Ensure, State
<1>8. ~ ended => MemoryAt(SubSeq(journal, 1, delivered))'
  <2>1. ~ ended => Ensure(anyState).events = SubSeq(journal, 1, delivered)
    BY <1>1, <1>3 DEF MemoryInv, LiveInv, MemoryAt
  <2>2. Len(SubSeq(journal, 1, delivered + 1)) = delivered + 1
    BY <1>0, <1>1
  <2> QED BY <1>5, <1>6, <1>7, <2>1, <2>2 DEF MemoryAt
<1>9. StoredInv' /\ JournalIsReplayable'
  BY <1>5 DEF MemoryInv, StoredInv, NothingDue, JournalIsReplayable
<1>10. FedInv' /\ WireInv'
  BY <1>2, <1>3, <1>5 DEF FedInv, WireInv, Carries
<1>11. LiveInv'
  BY <1>3, <1>5, <1>8 DEF LiveInv, Carries
<1> QED BY <1>9, <1>10, <1>11 DEF MemoryInv

LEMMA MemoryReceive ==
  ASSUME TypeInv, OneAnswer, MemoryInv, ReceiveCommand
  PROVE  MemoryInv'
<1>0. /\ journal \in Seq(Event) /\ anyState \in States \cup {Nothing}
  BY MemoryTypes
<1>1. /\ UNCHANGED <<journal, stored, delivered, sequence, wire, ended, started>>
      /\ started /\ awaiting = 0 /\ delivered = Len(journal)
      /\ anyState' = Ensure(anyState)
      /\ ctx' = NewContext(issued + 1, Ensure(anyState), <<>>)
  BY DEF ReceiveCommand, Replayed, CommandReceived, CommandSent
<1>2. ctx'.pc = "running" /\ ctx'.saw = Ensure(anyState)
  BY <1>1 DEF NewContext, NoContext
<1>3. ctx.pc = "none" /\ \A i \in DOMAIN wire : ~ Carries(wire[i])
  BY <1>1, NoReplyWaits
<1>4. Ensure(anyState') = Ensure(anyState)
  BY <1>0, <1>1, EnsureTwice
<1>5. ~ ended => MemoryAt(SubSeq(journal, 1, delivered)) /\ Ensure(anyState).events = journal
  <2>1. SubSeq(journal, 1, Len(journal)) = journal
    BY <1>0
  <2> QED BY <1>1, <1>3, <2>1 DEF MemoryInv, LiveInv, MemoryAt
<1>6. StoredInv' /\ JournalIsReplayable' /\ WireInv'
  BY <1>1 DEF MemoryInv, StoredInv, NothingDue, JournalIsReplayable, WireInv, Carries,
              GoodBatch, Grown
<1>7. FedInv'
  BY <1>1 DEF FedInv
<1>8. LiveInv'
  BY <1>1, <1>2, <1>3, <1>4, <1>5 DEF LiveInv, Carries, MemoryAt
<1> QED BY <1>6, <1>7, <1>8 DEF MemoryInv

(* A snapshot is requested of a live stream: it is the whole journal, and  *)
(* the events of the reply before it on the wire, if there is one.         *)
LEMMA MemoryRequest ==
  ASSUME TypeInv, OneAnswer, MemoryInv, RequestSnapshot
  PROVE  MemoryInv'
<1> DEFINE st == Ensure(anyState)
           m == Message("snapshotReply", 0, "none", 0, [events |-> <<>>, snapshot |-> st])
<1>0. /\ journal \in Seq(Event) /\ anyState \in States \cup {Nothing}
      /\ wire \in Seq(MessageOf(Bodies)) /\ st # Nothing /\ Ensure(st) = st
  BY MemoryTypes, EnsureType, EnsureTwice
<1>1. /\ UNCHANGED <<journal, stored, delivered, sequence, ended, started, ctx, awaiting>>
      /\ started /\ ctx.pc # "settled" /\ delivered = Len(journal)
      /\ anyState' = st /\ Put(<<m>>)
  BY DEF RequestSnapshot, Replayed, proxySide, CanRead
<1>2. m.kind = "snapshotReply" /\ ~ Carries(m) /\ m.body.snapshot = st
  BY DEF Message, Carries
<1>3. StoredInv' /\ FedInv' /\ JournalIsReplayable'
  BY <1>1 DEF MemoryInv, StoredInv, NothingDue, FedInv, JournalIsReplayable
<1>4. CASE ended
  <2>1. wire' = wire
    BY <1>1, <1>4 DEF Put
  <2>2. WireInv' /\ LiveInv'
    BY <1>1, <1>4, <2>1
       DEF MemoryInv, WireInv, LiveInv, Carries, GoodBatch, Grown, NothingDue
  <2> QED BY <1>3, <2>2 DEF MemoryInv
<1>5. CASE ~ ended
  <2>1. wire' = Append(wire, m)
    BY <1>0, <1>1, <1>5 DEF Put
  <2>2. /\ Len(wire') = Len(wire) + 1 /\ wire'[Len(wire) + 1] = m
        /\ \A i \in DOMAIN wire : i \in DOMAIN wire' /\ wire'[i] = wire[i]
        /\ \A i \in DOMAIN wire' : i \in DOMAIN wire \/ i = Len(wire) + 1
        /\ DOMAIN wire = 1 .. Len(wire) /\ Len(wire) \in Nat
    BY <1>0, <2>1
  <2>3. \/ /\ \A i \in DOMAIN wire : ~ Carries(wire[i])
           /\ st.events = journal
        \/ \E i \in DOMAIN wire : Carries(wire[i]) /\ st.events = Grown(wire[i].body.events)
    <3>1. SubSeq(journal, 1, Len(journal)) = journal
      BY <1>0
    <3> QED BY <1>1, <1>5, <3>1 DEF MemoryInv, LiveInv, MemoryAt
  <2>4. WireInv'
    <3>1. ASSUME NEW i \in DOMAIN wire', Carries(wire'[i])
          PROVE  wire'[i] = wire[i] /\ GoodBatch(wire[i].body.events, wire[i].body.snapshot)
      BY <1>2, <2>2, <3>1 DEF MemoryInv, WireInv
    <3>2. ASSUME NEW i \in DOMAIN wire', wire'[i].kind = "snapshotReply"
          PROVE  /\ wire'[i].body.snapshot # Nothing
                 /\ \/ /\ \A j \in 1 .. i - 1 : ~ Carries(wire'[j])
                       /\ wire'[i].body.snapshot.events = journal
                    \/ \E j \in 1 .. i - 1 :
                         /\ Carries(wire'[j])
                         /\ wire'[i].body.snapshot.events = Grown(wire'[j].body.events)
      <4>1. CASE i \in DOMAIN wire
        <5>1. wire'[i] = wire[i] /\ \A j \in 1 .. i - 1 : wire'[j] = wire[j]
          BY <2>2, <4>1
        <5> QED BY <3>2, <4>1, <5>1 DEF MemoryInv, WireInv
      <4>2. CASE i = Len(wire) + 1
        <5>1. wire'[i].body.snapshot = st /\ 1 .. i - 1 = DOMAIN wire
          BY <1>2, <2>2, <4>2
        <5> QED BY <1>0, <2>2, <2>3, <5>1
      <4> QED BY <2>2, <4>1, <4>2
    <3> QED BY <1>1, <3>1, <3>2 DEF WireInv, GoodBatch, Grown, NothingDue
  <2>5. \A i \in DOMAIN wire' : Carries(wire'[i]) => i \in DOMAIN wire /\ wire'[i] = wire[i]
    BY <1>2, <2>2
  <2>6. LiveInv
    BY DEF MemoryInv
  <2>7. Ensure(anyState') = Ensure(anyState)
    BY <1>0, <1>1
  <2>8. LiveInv'
    BY <1>1, <1>5, <2>2, <2>5, <2>6, <2>7 DEF LiveInv, MemoryAt, Grown, Carries
  <2> QED BY <1>3, <2>4, <2>8 DEF MemoryInv
<1> QED BY <1>4, <1>5

(* The handler settles: the events are applied and the snapshot is taken.  *)
LEMMA MemorySettle ==
  ASSUME TypeInv, OneAnswer, MemoryInv, ~ SwallowsFail, NEW r \in Results, Settle(r)
  PROVE  MemoryInv'
<1>0. /\ ctx \in ContextOf(States, Seq(Event), Bodies) /\ ctx.pc = "running"
      /\ anyState \in States /\ anyState # Nothing /\ journal \in Seq(Event)
      /\ sequence \in Nat
  BY RunningContext, MemoryTypes DEF TypeInv, Settle
<1>1. ctx.work \in Seq(Event) /\ Ensure(anyState) = anyState /\ anyState.events \in Seq(Event)
  BY <1>0 DEF ContextOf, Ensure, States
<1>2. \A i \in DOMAIN wire : ~ Carries(wire[i])
  BY <1>0, NoReplyWaits
<1>3. awaiting # 0 /\ started /\ delivered = Len(journal)
  BY <1>0, NoReplyWaits DEF MemoryInv, FedInv
<1>4. ~ ended => anyState.events = journal /\ sequence = Len(journal)
  <2>1. SubSeq(journal, 1, Len(journal)) = journal
    BY <1>0
  <2> QED BY <1>0, <1>1, <1>2, <1>3, <2>1 DEF MemoryInv, LiveInv, MemoryAt
<1>5. UNCHANGED <<journal, stored, delivered, wire, started, ended, awaiting>>
  BY DEF Settle, HandlerSettles, proxySide
<1>6. StoredInv' /\ FedInv' /\ WireInv' /\ JournalIsReplayable'
  BY <1>5 DEF MemoryInv, StoredInv, NothingDue, FedInv, WireInv, Carries, GoodBatch, Grown,
              JournalIsReplayable
<1>7. CASE AppliesEvents(r)
  <2> DEFINE body(k) == [events |-> <<>>,
                         snapshot |-> SnapshotTaken(anyState, sequence, ctx.work, k)]
             result(k) == IF k < Len(ctx.work) THEN Thrown ELSE r
  <2>1. PICK k \in 0 .. Len(ctx.work) :
          /\ StopsAfter(ctx.work, k)
          /\ anyState' = After(anyState, ctx.work, k)
          /\ sequence' = sequence + k
          /\ HandlerSettles(r, result(k), body(k))
    BY <1>7 DEF Settle
  <2>2. ~ ctx.error
    BY <1>7, <2>1 DEF HandlerSettles, AppliesEvents
  <2>3. /\ ctx'.pc = "settled" /\ ctx'.error = ctx.error /\ ctx'.work = ctx.work
        /\ ctx'.result = result(k) /\ ctx'.body = body(k)
    BY <1>0, <2>1 DEF HandlerSettles, ContextOf
  <2>4. CASE k < Len(ctx.work)
    <3>1. ctx'.result.kind = "throw" /\ ~ IsFailure(ctx'.result)
      BY <2>3, <2>4 DEF Thrown, IsFailure
    <3>2. body(k) # Nothing
      <4>1. DOMAIN body(k) = {"events", "snapshot"} /\ DOMAIN Nothing = {"none"}
        BY DEF Nothing
      <4> QED BY <4>1
    <3>3. LiveInv'
      BY <1>2, <1>5, <2>2, <2>3, <3>1, <3>2 DEF LiveInv, Carries, IsFailure
    <3> QED BY <1>6, <3>3 DEF MemoryInv
  <2>5. CASE k = Len(ctx.work)
    <3>1. SubSeq(ctx.work, 1, k) = ctx.work /\ DOMAIN ctx.work = 1 .. k
      BY <1>1, <2>5
    <3>2. After(anyState, ctx.work, k).events = anyState.events \o ctx.work
      BY <3>1 DEF After, State
    <3>3. anyState' \in States /\ anyState' # Nothing
      BY <1>0, <1>1, <2>1, AfterType, StateIsSome
    <3>4. ~ ended => MemoryAt(Grown(ctx.work))'
      <4>1. Len(journal \o ctx.work) = Len(journal) + Len(ctx.work)
        BY <1>0, <1>1
      <4> QED BY <1>4, <1>5, <2>1, <2>3, <2>5, <3>2, <3>3, <4>1 DEF MemoryAt, Grown, Ensure
    <3>5. ~ ended => GoodBatch(ctx.work, body(k).snapshot)
      <4>1. \A i \in DOMAIN ctx.work : ctx.work[i].ok
        BY <2>1, <3>1 DEF StopsAfter
      <4>2. CASE SnapshotFlag(sequence, sequence + k)
        <5>1. body(k).snapshot = After(anyState, ctx.work, k)
          BY <4>2 DEF SnapshotTaken
        <5>2. body(k).snapshot # Nothing
          BY <2>1, <3>3, <5>1
        <5> QED BY <1>4, <3>2, <4>1, <5>1, <5>2 DEF GoodBatch, Grown
      <4>3. CASE ~ SnapshotFlag(sequence, sequence + k)
        BY <1>4, <2>5, <4>1, <4>3 DEF SnapshotTaken, GoodBatch, SnapshotFlag, NothingDue
      <4> QED BY <4>2, <4>3
    <3>6. ~ ended => GoodBatch(ctx.work, ctx.body.snapshot)'
      BY <1>5, <2>3, <3>5 DEF GoodBatch, Grown, NothingDue
    <3>7. body(k) # Nothing
      <4>1. DOMAIN body(k) = {"events", "snapshot"} /\ DOMAIN Nothing = {"none"}
        BY DEF Nothing
      <4> QED BY <4>1
    <3>8. ~ IsFailure(ctx'.result)
      BY <1>7, <2>3, <2>5 DEF AppliesEvents, IsFailure
    <3>9. LiveInv'
      BY <1>2, <1>5, <2>2, <2>3, <3>4, <3>6, <3>7, <3>8 DEF LiveInv, Carries, IsFailure
    <3> QED BY <1>6, <3>9 DEF MemoryInv
  <2> QED BY <1>1, <2>4, <2>5
<1>8. CASE ~ AppliesEvents(r)
  <2>1. HandlerSettles(r, r, Nothing) /\ UNCHANGED <<anyState, sequence>>
    BY <1>8 DEF Settle
  <2>2. ctx'.pc = "settled" /\ ctx'.body = Nothing
    BY <1>0, <2>1 DEF HandlerSettles, ContextOf
  <2>3. ~ ended => MemoryAt(SubSeq(journal, 1, delivered))
    BY <1>0, <1>2, <1>3 DEF MemoryInv, LiveInv
  <2>4. LiveInv'
    BY <1>2, <1>5, <2>1, <2>2, <2>3 DEF LiveInv, Carries, MemoryAt
  <2> QED BY <1>6, <2>4 DEF MemoryInv
<1> QED BY <1>7, <1>8

(* The answer is written: the events of a successful command are on their  *)
(* way, and a failed one has left the memory alone or ends the stream.     *)
LEMMA MemoryWrite ==
  ASSUME TypeInv, OneAnswer, MemoryInv, WriteAnswer
  PROVE  MemoryInv'
<1> DEFINE m == Answer(FullContext)[1]
<1>0. /\ ctx.pc = "settled" /\ AnswerWritten(FullContext)
      /\ UNCHANGED <<journal, stored, delivered, sequence, anyState, started, awaiting>>
      /\ ctx'.pc = "none"
  BY DEF WriteAnswer, AnswerWritten, entityVars, proxySide, NoContext
<1>1. /\ ctx \in ContextOf(States, Seq(Event), Bodies)
      /\ FullContext \in ContextOf(States, Seq(Event), Bodies)
      /\ wire \in Seq(MessageOf(Bodies))
  BY <1>0, RunningContext, FullContextType, MemoryTypes DEF TypeInv
<1>2. Answer(FullContext) \in Seq(MessageOf(Bodies)) /\ Put(Answer(FullContext))
  BY <1>0, <1>1, AnswerType DEF AnswerWritten
<1>3. awaiting # 0 /\ started /\ \A i \in DOMAIN wire : ~ Carries(wire[i])
  BY <1>0, NoReplyWaits DEF MemoryInv, FedInv
<1>4. StoredInv' /\ JournalIsReplayable'
  BY <1>0 DEF MemoryInv, StoredInv, NothingDue, JournalIsReplayable
<1>5. CASE ended
  <2>1. wire' = wire /\ ended'
    BY <1>0, <1>2, <1>5 DEF Put, AnswerWritten
  <2>2. WireInv' /\ FedInv' /\ LiveInv'
    BY <1>0, <2>1 DEF MemoryInv, WireInv, FedInv, LiveInv, Carries, GoodBatch, Grown, NothingDue
  <2> QED BY <1>4, <2>2 DEF MemoryInv
<1>6. CASE EndsStream(FullContext)
  <2>1. FullContext.id \in 0 .. MaxCommands /\ Answer(FullContext) \in Failures(FullContext.id)
    BY <1>1, <1>6 DEF ContextOf, Commands, Answer, Failures
  <2>2. Appends
    BY <1>2, <2>1, FailuresAppend
  <2>3. WireInv'
    BY <1>0, <2>2, WireAppends DEF MemoryInv
  <2>4. FedInv'
    BY <1>0, <2>2 DEF MemoryInv, FedInv, Appends
  <2>5. LiveInv'
    BY <1>0, <1>6 DEF AnswerWritten, LiveInv
  <2> QED BY <1>4, <2>3, <2>4, <2>5 DEF MemoryInv
<1>7. CASE ~ ended /\ ~ EndsStream(FullContext)
  <2>1. Answer(FullContext) = <<m>> /\ m.kind = "reply" /\ m \in MessageOf(Bodies)
    <3>1. Answer(FullContext) = <<m>> /\ m.kind = "reply"
      BY <1>7 DEF Answer, Message
    <3> QED BY <1>2, <3>1
  <2> HIDE DEF m
  <2>2. wire' = Append(wire, m)
    BY <1>1, <1>2, <1>7, <2>1 DEF Put
  <2>3. /\ Len(wire') = Len(wire) + 1 /\ wire'[Len(wire) + 1] = m
        /\ Len(wire) + 1 \in DOMAIN wire'
        /\ \A i \in DOMAIN wire : i \in DOMAIN wire' /\ wire'[i] = wire[i]
        /\ \A i \in DOMAIN wire' : i \in DOMAIN wire \/ i = Len(wire) + 1
        /\ DOMAIN wire = 1 .. Len(wire) /\ Len(wire) \in Nat
    BY <1>1, <2>1, <2>2
  <2>4. /\ ctx.body # Nothing => ~ AnswersFailure(FullContext) /\ ctx.result.kind # "throw"
        /\ m.body # Nothing => m.body = FullContext.body
        /\ m.body = Nothing => ctx.body = Nothing
    <3>1. FullContext.error = ctx.error /\ FullContext.result = ctx.result
      BY <1>1 DEF FullContext, ContextOf
    <3>2. ctx.body # Nothing => ~ ctx.error /\ ~ IsFailure(ctx.result)
      BY <1>0, <1>3, <1>7 DEF MemoryInv, LiveInv
    <3>3. ctx.body # Nothing => ~ AnswersFailure(FullContext)
      BY <3>1, <3>2 DEF AnswersFailure
    <3>4. ctx.body # Nothing => ctx.result.kind # "throw"
      BY <1>7, <3>1, <3>3 DEF EndsStream
    <3>5. m.body # Nothing => m.body = FullContext.body
      BY <1>7, AnswerIsReply DEF m
    <3>6. ~ AnswersFailure(FullContext) => m.body = FullContext.body
      BY <1>7 DEF m, Answer, Message
    <3>7. ctx.body # Nothing => FullContext.body # Nothing
      <4>1. ASSUME ctx.body # Nothing
            PROVE  FullContext.body = [ctx.body EXCEPT !.events = ctx.work]
                   /\ ctx.body \in Bodies
        BY <1>1, <4>1 DEF FullContext, ContextOf
      <4>2. DOMAIN Nothing = {"none"} /\ \A b \in Bodies : DOMAIN b = {"events", "snapshot"}
        BY DEF Nothing, Bodies
      <4>3. ASSUME NEW b \in Bodies
            PROVE  [b EXCEPT !.events = ctx.work] # Nothing
        <5>1. DOMAIN [b EXCEPT !.events = ctx.work] = {"events", "snapshot"}
          BY <4>2
        <5> QED BY <4>2, <5>1
      <4> QED BY <4>1, <4>3
    <3> QED BY <3>3, <3>4, <3>5, <3>6, <3>7
  <2>5. Carries(m) => /\ m.body.events = ctx.work /\ m.body.snapshot = ctx.body.snapshot
                      /\ ctx.body # Nothing
    <3>1. ASSUME Carries(m)
          PROVE  m.body = FullContext.body /\ FullContext.body # Nothing
      BY <2>4, <3>1 DEF Carries
    <3>2. FullContext.body # Nothing => ctx.body # Nothing /\ ctx.body \in Bodies
      BY <1>1 DEF FullContext, ContextOf
    <3>3. ctx.body # Nothing /\ ctx.body \in Bodies =>
            FullContext.body.events = ctx.work /\ FullContext.body.snapshot = ctx.body.snapshot
      BY <1>1 DEF FullContext, ContextOf, Bodies
    <3> QED BY <3>1, <3>2, <3>3
  <2>6. Carries(m) => GoodBatch(m.body.events, m.body.snapshot) /\ MemoryAt(Grown(ctx.work))
    BY <1>0, <1>3, <1>7, <2>4, <2>5 DEF MemoryInv, LiveInv
  <2>7. ~ Carries(m) => MemoryAt(SubSeq(journal, 1, delivered))
    BY <1>0, <1>3, <1>7, <2>1, <2>4 DEF MemoryInv, LiveInv, Carries
  <2>8. WireInv'
    <3>1. ASSUME NEW i \in DOMAIN wire', Carries(wire'[i])
          PROVE  GoodBatch(wire'[i].body.events, wire'[i].body.snapshot)
      BY <1>3, <2>3, <2>6, <3>1
    <3>2. ASSUME NEW i \in DOMAIN wire', wire'[i].kind = "snapshotReply"
          PROVE  /\ wire'[i].body.snapshot # Nothing
                 /\ \/ /\ \A j \in 1 .. i - 1 : ~ Carries(wire'[j])
                       /\ wire'[i].body.snapshot.events = journal
                    \/ \E j \in 1 .. i - 1 :
                         /\ Carries(wire'[j])
                         /\ wire'[i].body.snapshot.events = Grown(wire'[j].body.events)
      <4>1. i \in DOMAIN wire
        BY <2>1, <2>3, <3>2
      <4>2. wire'[i] = wire[i] /\ \A j \in 1 .. i - 1 : wire'[j] = wire[j]
        BY <2>3, <4>1
      <4> QED BY <3>2, <4>1, <4>2 DEF MemoryInv, WireInv
    <3> QED BY <1>0, <3>1, <3>2 DEF WireInv, GoodBatch, Grown, NothingDue, Carries
  <2>9. FedInv'
    BY <1>0, <1>3 DEF MemoryInv, FedInv
  <2>10. LiveInv'
    <3>1. ASSUME NEW i \in DOMAIN wire', Carries(wire'[i])
          PROVE  MemoryAt(Grown(wire'[i].body.events))
      BY <1>3, <2>3, <2>5, <2>6, <3>1
    <3>2. (\A i \in DOMAIN wire' : ~ Carries(wire'[i])) => MemoryAt(SubSeq(journal, 1, delivered))
      BY <2>3, <2>7
    <3> QED BY <1>0, <3>1, <3>2 DEF LiveInv, MemoryAt, Grown, Carries
  <2> QED BY <1>4, <2>8, <2>9, <2>10 DEF MemoryInv
<1> QED BY <1>5, <1>6, <1>7

(* What follows the first message of the wire keeps its invariant when     *)
(* that message carries no events.                                         *)
LEMMA WireFollows ==
  ASSUME TypeInv, WireInv, UNCHANGED journal, wire # <<>>, wire' = Tail(wire),
         ~ Carries(Head(wire))
  PROVE  WireInv'
<1>1. /\ 1 \in DOMAIN wire /\ Head(wire) = wire[1]
      /\ \A i \in DOMAIN wire' : i + 1 \in DOMAIN wire /\ wire'[i] = wire[i + 1] /\ i \in Nat \ {0}
      /\ DOMAIN wire' \subseteq Nat \ {0}
      /\ \A i \in DOMAIN wire' : \A j \in 1 .. i : wire'[j] = wire[j + 1]
  BY MemoryTypes
<1>2. ASSUME NEW i \in DOMAIN wire', Carries(wire'[i])
      PROVE  GoodBatch(wire'[i].body.events, wire'[i].body.snapshot)
  BY <1>1, <1>2 DEF WireInv
<1>3. ASSUME NEW i \in DOMAIN wire', wire'[i].kind = "snapshotReply"
      PROVE  /\ wire'[i].body.snapshot # Nothing
             /\ \/ /\ \A j \in 1 .. i - 1 : ~ Carries(wire'[j])
                   /\ wire'[i].body.snapshot.events = journal
                \/ \E j \in 1 .. i - 1 :
                     /\ Carries(wire'[j])
                     /\ wire'[i].body.snapshot.events = Grown(wire'[j].body.events)
  <2>1. i + 1 \in DOMAIN wire /\ wire'[i] = wire[i + 1] /\ i \in Nat \ {0}
    BY <1>1
  <2>2. wire'[i].body.snapshot # Nothing
    BY <1>3, <2>1 DEF WireInv
  <2>3. CASE /\ \A j \in 1 .. i : ~ Carries(wire[j])
             /\ wire'[i].body.snapshot.events = journal
    <3>1. \A j \in 1 .. i - 1 : j + 1 \in 1 .. i /\ wire'[j] = wire[j + 1]
      BY <1>1, <2>1
    <3> QED BY <2>2, <2>3, <3>1
  <2>4. CASE \E j \in 1 .. i : /\ Carries(wire[j])
                               /\ wire'[i].body.snapshot.events = Grown(wire[j].body.events)
    <3>1. PICK j \in 1 .. i : /\ Carries(wire[j])
                              /\ wire'[i].body.snapshot.events = Grown(wire[j].body.events)
      BY <2>4
    <3>2. j - 1 \in 1 .. i - 1 /\ wire'[j - 1] = wire[j]
      BY <1>1, <2>1, <3>1
    <3> QED BY <2>2, <3>1, <3>2
  <2>5. (i + 1) - 1 = i
    BY <2>1
  <2>6. \/ /\ \A j \in 1 .. (i + 1) - 1 : ~ Carries(wire[j])
           /\ wire[i + 1].body.snapshot.events = journal
        \/ \E j \in 1 .. (i + 1) - 1 :
             /\ Carries(wire[j])
             /\ wire[i + 1].body.snapshot.events = Grown(wire[j].body.events)
    BY <1>3, <2>1 DEF WireInv
  <2> QED BY <2>1, <2>3, <2>4, <2>5, <2>6
<1> QED BY <1>2, <1>3 DEF WireInv, GoodBatch, Grown, NothingDue

(* A message without events is read. *)
LEMMA MemoryReadOther ==
  ASSUME TypeInv, OneAnswer, MemoryInv, ReadReply \/ ReadFailure \/ ReadSnapshot,
         ~ Carries(Head(wire))
  PROVE  MemoryInv'
<1>1. /\ wire # <<>> /\ wire' = Tail(wire)
      /\ UNCHANGED <<journal, delivered, sequence, anyState, started, ended, ctx>>
      /\ awaiting' \in {awaiting, 0}
  BY DEF ReadReply, ReadFailure, ReadSnapshot, ReplyRead, FailureRead, Reads, entityVars,
         proxySide, Carries
<1>2. WireInv'
  BY <1>1, WireFollows DEF MemoryInv
<1>3. /\ 1 \in DOMAIN wire /\ Head(wire) = wire[1]
      /\ \A i \in DOMAIN wire' : i + 1 \in DOMAIN wire /\ wire'[i] = wire[i + 1]
      /\ \A i \in DOMAIN wire : i # 1 => i - 1 \in DOMAIN wire' /\ wire[i] = wire'[i - 1]
  BY <1>1, MemoryTypes
<1>4. FedInv'
  BY <1>1, <1>3 DEF MemoryInv, FedInv
<1>5. StoredInv'
  <2>1. CASE ReadReply \/ ReadFailure
    <3>1. UNCHANGED stored
      BY <2>1 DEF ReadReply, ReadFailure, entityVars, Carries, ReplyRead, Reads
    <3> QED BY <1>1, <3>1 DEF MemoryInv, StoredInv, NothingDue
  <2>2. CASE ReadSnapshot
    <3>1. Head(wire).kind = "snapshotReply"
      BY <2>2 DEF ReadSnapshot, Reads
    <3>2. stored' = [seq |-> delivered, state |-> Head(wire).body.snapshot]
          /\ delivered = Len(journal)
      BY <1>3, <2>2, <3>1 DEF ReadSnapshot, MemoryInv, FedInv
    <3>3. Head(wire).body.snapshot # Nothing /\ Head(wire).body.snapshot.events = journal
      BY <1>3, <3>1 DEF MemoryInv, WireInv
    <3>4. SubSeq(journal, 1, Len(journal)) = journal /\ Len(journal) \in Nat
      BY MemoryTypes
    <3>5. NothingDue(Len(journal), Len(journal))
      BY <3>4 DEF NothingDue
    <3> QED BY <1>1, <3>2, <3>3, <3>4, <3>5 DEF StoredInv, Ensure, NothingDue
  <2> QED BY <2>1, <2>2
<1>6. LiveInv'
  <2>1. LiveInv
    BY DEF MemoryInv
  <2>2. ASSUME NEW i \in DOMAIN wire', Carries(wire'[i])
        PROVE  \E j \in DOMAIN wire : Carries(wire[j]) /\ wire'[i] = wire[j]
    BY <1>3, <2>2
  <2>3. (\A i \in DOMAIN wire' : ~ Carries(wire'[i])) => \A i \in DOMAIN wire : ~ Carries(wire[i])
    BY <1>3
  <2> QED
    BY <1>1, <2>1, <2>2, <2>3
       DEF LiveInv, MemoryAt, Grown, Carries, GoodBatch, NothingDue
<1> QED BY <1>1, <1>2, <1>4, <1>5, <1>6 DEF MemoryInv, JournalIsReplayable

(* The events of a reply are persisted: the journal catches up with the    *)
(* memory.                                                                 *)
LEMMA MemoryReadReply ==
  ASSUME TypeInv, OneAnswer, MemoryInv, ReadReply, Carries(Head(wire))
  PROVE  MemoryInv'
<1> DEFINE body == Head(wire).body
           evs == body.events
<1>0. /\ wire # <<>> /\ wire' = Tail(wire) /\ Head(wire).kind = "reply" /\ body # Nothing
      /\ UNCHANGED <<sequence, anyState, started, ended, ctx>> /\ awaiting' = 0
      /\ journal' = Grown(evs)
      /\ delivered' = delivered + Len(evs)
      /\ stored' = IF body.snapshot = Nothing THEN stored
                   ELSE [seq |-> delivered', state |-> body.snapshot]
  BY DEF ReadReply, ReplyRead, Reads, Carries, Grown
<1>1. /\ 1 \in DOMAIN wire /\ Head(wire) = wire[1]
      /\ \A i \in DOMAIN wire' : i + 1 \in DOMAIN wire /\ wire'[i] = wire[i + 1]
                                 /\ i \in Nat \ {0}
      /\ \A i \in DOMAIN wire' : \A j \in 1 .. i : wire'[j] = wire[j + 1]
                                                   /\ j + 1 \in DOMAIN wire
  BY <1>0, MemoryTypes
<1>2. evs \in Seq(Event) /\ journal \in Seq(Event) /\ Len(journal) \in Nat /\ Len(evs) \in Nat
  <2>1. Head(wire) \in MessageOf(Bodies) /\ journal \in Seq(Event) /\ Len(journal) \in Nat
    BY <1>0, ReadType, MemoryTypes
  <2>2. body \in Bodies
    BY <1>0, <2>1 DEF MessageOf
  <2>3. evs \in Seq(Event)
    BY <2>2 DEF Bodies
  <2> QED BY <2>1, <2>3
<1>3. GoodBatch(evs, body.snapshot)
  BY <1>1 DEF MemoryInv, WireInv
<1>4. ctx.pc = "none" /\ \A i \in DOMAIN wire : wire[i].id # 0 => i = 1
  BY <1>0, <1>1 DEF OneAnswer
<1>5. \A i \in DOMAIN wire : Carries(wire[i]) => i = 1
  BY <1>4 DEF OneAnswer, Carries
<1>6. \A i \in DOMAIN wire' : ~ Carries(wire'[i])
  BY <1>1, <1>5
<1>7. started /\ delivered = Len(journal)
  <2>1. awaiting # 0
    BY <1>0, <1>1 DEF OneAnswer
  <2> QED BY <2>1 DEF MemoryInv, FedInv
<1>8. /\ Len(Grown(evs)) = Len(journal) + Len(evs) /\ delivered' = Len(Grown(evs))
      /\ SubSeq(Grown(evs), 1, Len(Grown(evs))) = Grown(evs)
  BY <1>0, <1>2, <1>7 DEF Grown
<1>9. StoredInv'
  <2>1. CASE body.snapshot = Nothing
    <3>1. stored' = stored /\ NothingDue(Len(journal), Len(journal) + Len(evs))
      BY <1>0, <1>3, <2>1 DEF GoodBatch
    <3>2. stored.seq \in 0 .. Len(journal)
      BY MemoryTypes
    <3>3. SubSeq(Grown(evs), 1, stored.seq) = SubSeq(journal, 1, stored.seq)
      BY <1>2, <3>2 DEF Grown
    <3>4. NothingDue(stored.seq, Len(Grown(evs)))
      BY <1>2, <1>8, <3>1, <3>2 DEF MemoryInv, StoredInv, NothingDue
    <3> QED BY <1>0, <3>1, <3>3, <3>4 DEF MemoryInv, StoredInv, NothingDue
  <2>2. CASE body.snapshot # Nothing
    <3>1. stored' = [seq |-> Len(Grown(evs)), state |-> body.snapshot]
          /\ body.snapshot.events = Grown(evs)
      BY <1>0, <1>3, <1>8, <2>2 DEF GoodBatch
    <3>2. NothingDue(Len(Grown(evs)), Len(Grown(evs)))
      BY <1>2, <1>8 DEF NothingDue
    <3> QED BY <1>0, <1>8, <2>2, <3>1, <3>2 DEF StoredInv, Ensure, NothingDue
  <2> QED BY <2>1, <2>2
<1>10. JournalIsReplayable'
  <2>1. \A i \in DOMAIN Grown(evs) : Grown(evs)[i].ok
    <3> SUFFICES ASSUME NEW i \in DOMAIN Grown(evs) PROVE Grown(evs)[i].ok
      OBVIOUS
    <3>1. CASE i \in DOMAIN journal
      BY <1>2, <3>1 DEF Grown, MemoryInv, JournalIsReplayable
    <3>2. CASE i \notin DOMAIN journal
      <4>1. i - Len(journal) \in DOMAIN evs /\ Grown(evs)[i] = evs[i - Len(journal)]
        BY <1>2, <3>2 DEF Grown
      <4> QED BY <1>3, <4>1 DEF GoodBatch
    <3> QED BY <3>1, <3>2
  <2> QED BY <1>0, <2>1 DEF JournalIsReplayable
<1>11. WireInv'
  <2>1. ASSUME NEW i \in DOMAIN wire', wire'[i].kind = "snapshotReply"
        PROVE  /\ wire'[i].body.snapshot # Nothing
               /\ wire'[i].body.snapshot.events = Grown(evs)
    <3>1. i + 1 \in DOMAIN wire /\ wire'[i] = wire[i + 1] /\ i \in Nat \ {0}
      BY <1>1
    <3>2. 1 \in 1 .. (i + 1) - 1 /\ Carries(wire[1])
      BY <1>0, <1>1, <3>1 DEF Carries
    <3>3. PICK j \in 1 .. (i + 1) - 1 :
            Carries(wire[j]) /\ wire[i + 1].body.snapshot.events = Grown(wire[j].body.events)
      BY <2>1, <3>1, <3>2 DEF MemoryInv, WireInv
    <3>4. j \in DOMAIN wire
      BY <3>1, <3>3, MemoryTypes
    <3>5. j = 1
      BY <1>5, <3>3, <3>4
    <3> QED BY <1>1, <2>1, <3>1, <3>3, <3>5 DEF MemoryInv, WireInv
  <2>2. \A i \in DOMAIN wire' : \A j \in 1 .. i - 1 : j \in DOMAIN wire'
    BY <1>0, MemoryTypes
  <2> QED BY <1>0, <1>6, <2>1, <2>2 DEF WireInv, Carries
<1>12. FedInv'
  BY <1>0, <1>7, <1>8 DEF FedInv
<1>13. LiveInv'
  <2>1. started /\ ~ ended => MemoryAt(Grown(evs))
    BY <1>0, <1>1 DEF MemoryInv, LiveInv, Carries
  <2>2. SubSeq(journal', 1, delivered') = Grown(evs)
    BY <1>0, <1>8
  <2> QED BY <1>0, <1>4, <1>6, <2>1, <2>2 DEF LiveInv, MemoryAt, Carries
<1> QED BY <1>9, <1>10, <1>11, <1>12, <1>13 DEF MemoryInv

LEMMA MemoryNext ==
  ASSUME ~ SwallowsFail, ~ EmitsLate, TypeInv, OneAnswer, MemoryInv, [Next]_vars
  PROVE  MemoryInv'
<1>1. CASE OpenStream \/ LoseStream \/ ReadEnd
  BY <1>1, MemoryReset
<1>2. CASE InitStream
  BY <1>2, MemoryInitStream
<1>3. CASE ProtocolError \/ HalfClose
  BY <1>3, MemoryStream
<1>4. CASE ReplayEvent
  BY <1>4, MemoryReplay
<1>5. CASE ReceiveCommand
  BY <1>5, MemoryReceive
<1>6. CASE RefuseCommand \/ FailCommand
  BY <1>6, MemoryRefuse
<1>7. CASE RequestSnapshot
  BY <1>7, MemoryRequest
<1>8. CASE Emit \/ RecordAction \/ Fail
  BY <1>8, MemoryAct
<1>9. CASE \E r \in Results : Settle(r)
  BY <1>9, MemorySettle
<1>10. CASE WriteAnswer
  BY <1>10, MemoryWrite
<1>11. CASE ReadReply /\ Carries(Head(wire))
  BY <1>11, MemoryReadReply
<1>12. CASE (ReadReply \/ ReadFailure \/ ReadSnapshot) /\ ~ Carries(Head(wire))
  BY <1>12, MemoryReadOther
<1>13. ReadFailure \/ ReadSnapshot => ~ Carries(Head(wire))
  BY DEF ReadFailure, FailureRead, ReadSnapshot, Reads, Carries
<1>14. CASE UNCHANGED vars
  <2>1. UNCHANGED <<streamVars, entityVars>>
    BY <1>14 DEF vars
  <2>2. Appends
    BY <2>1 DEF Appends, streamVars
  <2> QED BY <2>1, <2>2, MemoryQuiet DEF streamVars, entityVars
<1> QED
  BY <1>1, <1>2, <1>3, <1>4, <1>5, <1>6, <1>7, <1>8, <1>9, <1>10, <1>11, <1>12, <1>13, <1>14
  DEF Next

(* Of n successive numbers one is a multiple of n. *)
LEMMA MultipleWithin ==
  ASSUME NEW n \in Nat \ {0}, NEW a \in Nat
  PROVE  \E m \in a + 1 .. a + n : m % n = 0
<1> DEFINE m == n * (a \div n) + n
<1>1. a = n * (a \div n) + (a % n) /\ a % n \in 0 .. n - 1 /\ a \div n \in Int
  OBVIOUS
<1>2. m \in a + 1 .. a + n
  BY <1>1
<1>3. m % n = 0
  BY <1>1
<1> QED BY <1>2, <1>3
(* The five properties of a disciplined entity follow from the invariant. *)
LEMMA MemoryImplies ==
  ASSUME TypeInv, OneAnswer, MemoryInv
  PROVE  /\ MemoryIsJournal /\ HandlerSeesJournal /\ SnapshotIsPrefix
         /\ RecoveryIsBounded /\ JournalIsReplayable
<1>1. MemoryIsJournal
  <2> SUFFICES ASSUME started, ~ ended, ctx.pc # "settled",
                      \A i \in DOMAIN wire : wire[i].kind # "reply"
               PROVE  /\ Ensure(anyState).events = SubSeq(journal, 1, delivered)
                      /\ sequence = delivered
    BY DEF MemoryIsJournal
  <2>1. \A i \in DOMAIN wire : ~ Carries(wire[i])
    BY DEF Carries
  <2>2. MemoryAt(SubSeq(journal, 1, delivered))
    BY <2>1 DEF MemoryInv, LiveInv
  <2>3. Len(SubSeq(journal, 1, delivered)) = delivered
    BY MemoryTypes
  <2> QED BY <2>2, <2>3 DEF MemoryAt
<1>2. HandlerSeesJournal
  <2>1. ctx.pc = "running" => started
    BY RunningContext, MemoryTypes
  <2> QED BY <2>1 DEF HandlerSeesJournal, MemoryInv, LiveInv
<1>3. SnapshotIsPrefix
  <2> SUFFICES ASSUME stored # NoSnapshot
               PROVE  /\ stored.seq <= Len(journal)
                      /\ stored.state.events = SubSeq(journal, 1, stored.seq)
    BY DEF SnapshotIsPrefix
  <2>1. stored = [seq |-> stored.seq, state |-> stored.state]
    BY DEF TypeInv, TypeOK
  <2>2. stored.state # Nothing
    BY <2>1 DEF MemoryInv, StoredInv, NoSnapshot
  <2>3. Ensure(stored.state) = stored.state
    BY <2>2 DEF Ensure
  <2> QED BY <2>3 DEF MemoryInv, StoredInv, TypeInv
<1>4. RecoveryIsBounded
  <2> SUFFICES ASSUME SnapshotEvery > 0, Len(journal) - stored.seq >= SnapshotEvery
               PROVE  FALSE
    <3>1. Len(journal) \in Int /\ stored.seq \in Int /\ SnapshotEvery \in Int
      BY MemoryTypes, EventSourcedAssumption
    <3> QED BY <3>1 DEF RecoveryIsBounded
  <2>1. SnapshotEvery \in Nat \ {0} /\ stored.seq \in Nat /\ Len(journal) \in Nat
    BY MemoryTypes, EventSourcedAssumption
  <2>2. PICK m \in stored.seq + 1 .. stored.seq + SnapshotEvery : m % SnapshotEvery = 0
    BY <2>1, MultipleWithin
  <2>3. m \in stored.seq + 1 .. Len(journal)
    BY <2>1, <2>2
  <2>4. SnapshotDue(m)
    BY <2>1, <2>2 DEF SnapshotDue
  <2> QED BY <2>3, <2>4 DEF MemoryInv, StoredInv, NothingDue
<1>5. JournalIsReplayable
  BY DEF MemoryInv
<1> QED BY <1>1, <1>2, <1>3, <1>4, <1>5

----------------------------------------------------------------------------
(* The theorems.                                                           *)

LEMMA DisciplinedMemory ==
  ASSUME ~ SwallowsFail, ~ EmitsLate
  PROVE  Spec => [](/\ MemoryIsJournal /\ HandlerSeesJournal /\ SnapshotIsPrefix
                    /\ RecoveryIsBounded /\ JournalIsReplayable)
<1> DEFINE Inv == TypeInv /\ OneAnswer /\ MemoryInv
<1>1. Init => Inv
  BY TypeInit, OneAnswerInit, MemoryInit DEF Init
<1>2. Inv /\ [Next]_vars => Inv'
  BY TypeNext, OneAnswerNext, MemoryNext
<1>3. Inv => /\ MemoryIsJournal /\ HandlerSeesJournal /\ SnapshotIsPrefix
             /\ RecoveryIsBounded /\ JournalIsReplayable
  BY MemoryImplies
<1> QED BY <1>1, <1>2, <1>3, PTL DEF Spec

(* The in-memory state of a disciplined entity is the replay of its journal *)
(* at every moment no reply is on its way, for every history of commands,  *)
(* failures, snapshots and lost streams.                                   *)
THEOREM MemoryTheorem ==
  ASSUME ~ SwallowsFail, ~ EmitsLate
  PROVE  Spec => []MemoryIsJournal
<1>1. Spec => [](/\ MemoryIsJournal /\ HandlerSeesJournal /\ SnapshotIsPrefix
                 /\ RecoveryIsBounded /\ JournalIsReplayable)
  BY DisciplinedMemory
<1> QED BY <1>1, PTL

(* Its command handlers decide on the whole journal and nothing else.      *)
THEOREM HandlerTheorem ==
  ASSUME ~ SwallowsFail, ~ EmitsLate
  PROVE  Spec => []HandlerSeesJournal
<1>1. Spec => [](/\ MemoryIsJournal /\ HandlerSeesJournal /\ SnapshotIsPrefix
                 /\ RecoveryIsBounded /\ JournalIsReplayable)
  BY DisciplinedMemory
<1> QED BY <1>1, PTL

(* What is persisted of it is enough to start another stream: its snapshot *)
(* is the state at exactly the sequence number it is stored with, fewer    *)
(* events than a positive snapshotEvery are after it, and its event        *)
(* handlers can apply all of them.                                         *)
THEOREM RecoveryTheorem ==
  ASSUME ~ SwallowsFail, ~ EmitsLate
  PROVE  Spec => []IsRecoverable
<1>1. Spec => [](/\ MemoryIsJournal /\ HandlerSeesJournal /\ SnapshotIsPrefix
                 /\ RecoveryIsBounded /\ JournalIsReplayable)
  BY DisciplinedMemory
<1> QED BY <1>1, PTL DEF IsRecoverable
============================================================================
