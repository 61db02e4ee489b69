------------------------------- MODULE Replies -------------------------------
(***************************************************************************)
(* The Reply a command handler returns (sdk/src/reply.ts) and the answer   *)
(* it becomes, which two pieces of code make of it independently:          *)
(* CommandHelper.invokeHandlerLogic for an entity's stream, and            *)
(* ActionHandler.passReplyThroughContext for the call of an action.  Both  *)
(* have the target of a forward or of a side effect resolved by            *)
(* sdk/src/effect-serializer.ts.                                           *)
(*                                                                         *)
(* What may be absent is a set of at most one element.  A message that     *)
(* JavaScript takes for false is absent.  What throws has no answer.       *)
(***************************************************************************)
EXTENDS Integers, Sequences, FiniteSetsExt

CONSTANT Services   (* the components registered: service name -> its commands *)

(***************************************************************************)
(* Targets.  A method is a gRPC method definition, with the segments of    *)
(* its path, or a method of protobufjs, with the names of the namespaces   *)
(* it is in, from the root on; anything else is of no style.  The name of  *)
(* a service is the sequence of its parts.                                 *)
(***************************************************************************)
GrpcMethod(path) == [style |-> "grpc", path |-> path, command |-> ""]
RpcMethod(namespaces, name) == [style |-> "rpc", path |-> namespaces, command |-> name]
NoMethod == [style |-> "none", path |-> <<>>, command |-> ""]

(* fullName: the names below the nearest namespace without a name, which   *)
(* is the root.                                                            *)
FullName(namespaces) ==
  LET unnamed == {i \in 1 .. Len(namespaces) - 1 : namespaces[i] = ""}
  IN  SubSeq(namespaces, Max({0} \cup unnamed) + 1, Len(namespaces))

Target(method) ==
  IF method.style = "rpc"
  THEN {[service |-> FullName(method.path), command |-> method.command]}
  ELSE IF method.style = "grpc" /\ Len(method.path) = 2
  THEN {[service |-> method.path[1], command |-> method.path[2]]}
  ELSE {}

(* serializeEffect: only a command of a registered service can be called.  *)
Resolve(method) ==
  {t \in Target(method) :
     t.service \in DOMAIN Services /\ t.command \in Services[t.service]}

(* serializeSideEffect for each: one that cannot be resolved fails them all. *)
SerializeEffects(methods) ==
  IF \A i \in DOMAIN methods : Resolve(methods[i]) # {}
  THEN {[i \in DOMAIN methods |-> CHOOSE t \in Resolve(methods[i]) : TRUE]}
  ELSE {}

(***************************************************************************)
(* Building a Reply.                                                       *)
(***************************************************************************)
EmptyReply == [method |-> NoMethod, message |-> {}, forward |-> {}, failure |-> {},
               effects |-> <<>>]

SetMessage(r, m) == [r EXCEPT !.message = {m}]
SetForward(r, method, m) ==
  [r EXCEPT !.forward = {[SetMessage(EmptyReply, m) EXCEPT !.method = method]}]

(* A failure has no status, here -1, or one that is an error of gRPC; the  *)
(* constructor of Failure throws for any other.                            *)
NoStatus == -1
ValidStatus(status) == status = NoStatus \/ status \in 1 .. 16
SetFailure(r, status) == [r EXCEPT !.failure = {status}]

AddEffects(r, methods) == [r EXCEPT !.effects = @ \o methods]

ReplyMessage(m) == SetMessage(EmptyReply, m)
ReplyForward(method, m) == SetForward(EmptyReply, method, m)
ReplyFailure(status) == SetFailure(EmptyReply, status)

IsEmpty(r) == r.message = {} /\ r.forward = {} /\ r.failure = {}

(***************************************************************************)
(* Answers.                                                                *)
(***************************************************************************)
Answer(kind, payload, to, es) ==
  [kind |-> kind, payload |-> payload, to |-> to, effects |-> es]

Replied(message, es) == Answer("reply", message, {}, es)
Forwarded(f, es) ==
  {Answer("forward", f.message, {t}, es) : t \in Resolve(f.method)}

(* What a Reply without failure becomes: its message goes before its       *)
(* forward, and a Reply without either is an empty message.                *)
Success(r, es) ==
  IF r.message # {} THEN {Replied(r.message, es)}
  ELSE IF r.forward # {} THEN UNION {Forwarded(f, es) : f \in r.forward}
  ELSE {Replied({}, es)}

(* invokeHandlerLogic: a failure leaves the side effects out.              *)
EntityAnswer(r) ==
  IF r.failure # {} THEN {Answer("failure", {}, {}, <<>>)}
  ELSE UNION {Success(r, es) : es \in SerializeEffects(r.effects)}

(* serializeResponse, of a Reply itself: a response type takes none of its *)
(* fields, google.protobuf.Any the JSON of all of it.                      *)
WrittenAs(r, response) == IF response = "any" THEN {r} ELSE {}

(* passReplyThroughContext: the side effects are recorded first, and a     *)
(* failure brings them along.  A forward to no method is not one, and the  *)
(* Reply that has nothing else is written itself.                          *)
WithoutMethod(r) == \E f \in r.forward : f.method.style = "none"

ActionAnswer(r, response) ==
  UNION {IF r.failure # {} THEN {Answer("failure", {}, {}, es)}
         ELSE IF r.message # {} THEN {Replied(r.message, es)}
         ELSE IF r.forward # {} /\ ~ WithoutMethod(r) THEN UNION {Forwarded(f, es) : f \in r.forward}
         ELSE {Replied(WrittenAs(r, response), es)}
         : es \in SerializeEffects(r.effects)}
=============================================================================
