---------------------------- MODULE EntityStream ---------------------------
(***************************************************************************)
(* The gRPC stream between the Kalix proxy and one stateful entity, as the *)
(* three kinds of entity share it: the call of Handle, its Init, the       *)
(* commands sent one at a time, the messages written back, the end of the  *)
(* call and the loss of the connection.  A component conjoins to each      *)
(* action what it does to its own state.                                   *)
(*                                                                         *)
(* The actions of the service are the turns of the node event loop: a turn *)
(* that reads a message, the turns of the user's handler, the turn in      *)
(* which the handler's promise has settled and the component does its      *)
(* part, and the continuation that writes the answer.  Between the last    *)
(* two only other promise callbacks can run, never a message of the        *)
(* stream.  Each call of Handle makes its own handler object, so what a    *)
(* lost stream leaves running is unreachable and is forgotten.             *)
(***************************************************************************)
EXTENDS CommandHelper

CONSTANTS
  MaxCommands,    (* bound: commands the proxy sends                       *)
  MaxStreams,     (* bound: streams the proxy opens                        *)
  SwallowsFail    (* may a handler catch the error of ctx.fail and go on   *)

ASSUME StreamAssumption ==
  /\ MaxCommands \in Nat \ {0}
  /\ MaxStreams \in Nat \ {0}
  /\ SwallowsFail \in BOOLEAN

VARIABLES
  (* the proxy *)
  outcome,    (* what the client of each command was told                  *)
  issued,     (* number of commands sent                                   *)
  opened,     (* number of streams opened                                  *)
  link,       (* "down", "open", or "closing" once the proxy half-closed   *)
  awaiting,   (* id of the command whose answer is awaited, 0 if none      *)
  wire,       (* messages written by the service, not yet read             *)
  (* the service *)
  started,    (* Init was accepted: the variable service of Handle is set  *)
  ended,      (* call.end() was called                                     *)
  ctx         (* the context of the command in flight                      *)

proxySide == <<outcome, issued, opened, link, awaiting>>
streamVars == <<outcome, issued, opened, link, awaiting, wire, started, ended, ctx>>

Commands == 1 .. MaxCommands

MessageOf(Body) ==
  [kind : {"reply", "failure", "snapshotReply", "end"}, id : 0 .. MaxCommands,
   action : {"reply", "forward", "failure", "none"}, effects : 0 .. MaxEffects,
   body : Body \cup {Nothing}]

ContextOf(Saw, Work, Body) ==
  [id : Commands, pc : {"running", "settled"}, error : BOOLEAN,
   effects : 0 .. MaxEffects, forward : BOOLEAN, saw : Saw, work : Work,
   result : Results, body : Body \cup {Nothing}]

(* The type of the stream's variables, for a component whose handlers see  *)
(* a state of Saw, record their work in Work and add a Body to a reply.    *)
StreamTypeOK(Saw, Work, Body) ==
  /\ outcome \in [Commands -> {"pending", "replied", "failed"}]
  /\ issued \in 0 .. MaxCommands
  /\ opened \in 0 .. MaxStreams
  /\ link \in {"down", "open", "closing"}
  /\ awaiting \in 0 .. issued
  /\ wire \in Seq(MessageOf(Body))
  /\ started \in BOOLEAN
  /\ ended \in BOOLEAN
  /\ \/ ctx = NoContext
     \/ ctx \in ContextOf(Saw, Work, Body) /\ started

(* Writes on a stream that was ended go nowhere. *)
Put(msgs) == wire' = IF ended THEN wire ELSE wire \o msgs

(* The failure and the end that the service writes when it gives up. *)
GiveUp(id) == Put(<<Failure(id), End>>) /\ ended' = TRUE

(* A message of the stream is read in a turn of its own, so never between  *)
(* the settling of a handler and the answer.                               *)
CanRead == link = "open" /\ ctx.pc # "settled"

StreamInit ==
  /\ outcome = [c \in Commands |-> "pending"]
  /\ issued = 0 /\ opened = 0 /\ link = "down" /\ awaiting = 0 /\ wire = <<>>
  /\ started = FALSE /\ ended = FALSE /\ ctx = NoContext

----------------------------------------------------------------------------
(* The life of a stream. *)

ResetStream ==
  /\ awaiting' = 0 /\ wire' = <<>>
  /\ started' = FALSE /\ ended' = FALSE /\ ctx' = NoContext

(* The proxy activates the entity: a new call of Handle. *)
StreamOpens ==
  /\ link = "down"
  /\ opened < MaxStreams
  /\ opened' = opened + 1
  /\ link' = "open"
  /\ ResetStream
  /\ UNCHANGED <<outcome, issued>>

(* The first Init, for a service that is registered: the handler is made. *)
StreamStarts ==
  /\ CanRead /\ ~ started
  /\ started' = TRUE
  /\ UNCHANGED <<proxySide, wire, ended, ctx>>

(* A second Init, an Init for a service that is not registered, or a       *)
(* message before Init: the stream is failed and ended.                    *)
StreamFails ==
  /\ CanRead /\ ~ ended
  /\ GiveUp(0)
  /\ UNCHANGED <<proxySide, started, ctx>>

(* The proxy passivates the entity; "end" of the call ends it. *)
StreamHalfCloses ==
  /\ CanRead
  /\ link' = "closing"
  /\ Put(<<End>>) /\ ended' = TRUE
  /\ UNCHANGED <<outcome, issued, opened, awaiting, started, ctx>>

(* The connection is lost, with all that is in flight on it: a crash of    *)
(* the proxy, of the service, or of the network between them.              *)
StreamLost ==
  /\ link # "down"
  /\ link' = "down"
  /\ ResetStream
  /\ UNCHANGED <<outcome, issued, opened>>

----------------------------------------------------------------------------
(* One command. *)

(* The proxy sends a command when no other is in flight. *)
CommandSent ==
  /\ CanRead /\ started
  /\ awaiting = 0
  /\ issued < MaxCommands
  /\ issued' = issued + 1
  /\ awaiting' = issued + 1
  /\ UNCHANGED <<outcome, opened, link, started>>

(* The command's handler is found and starts on the state saw. *)
CommandReceived(saw, work) ==
  /\ CommandSent
  /\ ctx' = NewContext(issued + 1, saw, work)
  /\ UNCHANGED <<wire, ended>>

(* A command without a name, of a method the service does not have, or     *)
(* without a handler is refused and the stream goes on.                    *)
CommandRefused ==
  /\ CommandSent
  /\ Put(<<Failure(issued + 1)>>)
  /\ UNCHANGED <<ended, ctx>>

(* The payload cannot be decoded, or looking the handler up throws. *)
CommandFails ==
  /\ CommandSent
  /\ GiveUp(issued + 1)
  /\ UNCHANGED ctx

(* The user's handler runs; one that lets the error of ctx.fail propagate  *)
(* does nothing more.                                                      *)
MayContinue == ctx.pc = "running" /\ (ctx.error => SwallowsFail)

(* ctx.effect and ctx.forward, the deprecated ways of a plain result. *)
HandlerActs ==
  /\ MayContinue
  /\ \/ ctx.effects < MaxEffects /\ ctx' = [ctx EXCEPT !.effects = @ + 1]
     \/ ~ ctx.forward /\ ctx' = [ctx EXCEPT !.forward = TRUE]
  /\ UNCHANGED <<proxySide, wire, started, ended>>

(* ctx.fail records the error, then throws it. *)
HandlerFails ==
  /\ MayContinue /\ ~ ctx.error
  /\ ctx' = [ctx EXCEPT !.error = TRUE]
  /\ UNCHANGED <<proxySide, wire, started, ended>>

(* The handler's promise may settle with r, and the component leaves the   *)
(* result and the body of the reply in the context.                        *)
HandlerSettles(r, result, body) ==
  /\ ctx.pc = "running"
  /\ ctx.error => r.kind = "throw" \/ SwallowsFail
  /\ ctx' = [ctx EXCEPT !.pc = "settled", !.result = result, !.body = body]
  /\ UNCHANGED <<proxySide, wire, started, ended>>

(* The continuation: the context is deactivated and the answer written;    *)
(* full is the context with the body as it then is.                        *)
AnswerWritten(full) ==
  /\ ctx.pc = "settled"
  /\ Put(Answer(full))
  /\ ended' = (ended \/ EndsStream(full))
  /\ ctx' = NoContext
  /\ UNCHANGED <<proxySide, started>>

----------------------------------------------------------------------------
(* The proxy reads the stream. *)

Reads(kind) == /\ link # "down"
               /\ wire # <<>>
               /\ Head(wire).kind = kind
               /\ wire' = Tail(wire)

(* A reply answers the client of its command. *)
ReplyRead ==
  /\ Reads("reply")
  /\ outcome' = [outcome EXCEPT ![Head(wire).id] =
                   IF Head(wire).action = "failure" THEN "failed" ELSE "replied"]
  /\ awaiting' = 0
  /\ UNCHANGED <<issued, opened, link, started, ended, ctx>>

(* A failure message fails the command it names. *)
FailureRead ==
  /\ Reads("failure")
  /\ LET id == Head(wire).id IN
     IF id = 0 THEN UNCHANGED <<outcome, awaiting>>
     ELSE outcome' = [outcome EXCEPT ![id] = "failed"] /\ awaiting' = 0
  /\ UNCHANGED <<issued, opened, link, started, ended, ctx>>

(* The end of the stream; what the service still runs is forgotten. *)
EndRead == wire # <<>> /\ Head(wire).kind = "end" /\ StreamLost

----------------------------------------------------------------------------
(* Properties. *)

(* Every command is answered at most once, on the stream it came on and    *)
(* while its client still waits: what handleCommand, its error path and    *)
(* the failures of onData write for a command never comes twice, whether   *)
(* the handler fails, throws, or outlives the end of the call.             *)
OneAnswer ==
  /\ \A c \in Commands : c > issued \/ c = awaiting => outcome[c] = "pending"
  /\ ctx.pc # "none" => link # "down" /\ ctx.id = awaiting
  /\ \A i \in DOMAIN wire :
       /\ wire[i].kind = "reply" => wire[i].id # 0
       /\ wire[i].id # 0 => /\ wire[i].id = awaiting /\ ctx.pc = "none"
                            /\ \A j \in DOMAIN wire : wire[j].id # 0 => i = j
============================================================================
