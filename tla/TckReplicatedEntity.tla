-------------------------- MODULE TckReplicatedEntity --------------------------
(***************************************************************************)
(* The replicated entity the technology compatibility kit serves           *)
(* (tck/src/replicated-entity.ts): a request is a sequence of updates,     *)
(* deletes and failures, any node of the service may handle it, and the    *)
(* response shows the data.  After each request the proxies bring what it  *)
(* published to the other node, as in DeltaExchange; concurrent requests,  *)
(* the errors of context.delete and failed requests that have changed      *)
(* something are ReplicatedEntity's.  A request's side effects and         *)
(* forwards, and the clocks of registers, change nothing here.             *)
(***************************************************************************)
EXTENDS ReplicatedData, FiniteSets

CONSTANTS
  Blank,      (* the empty text, with which registers are made             *)
  Changes,    (* by how much an update changes a counter                   *)
  MaxSaid,    (* bound: the value of a counter                             *)
  MaxSteps    (* bound: the steps of a request                             *)

ASSUME TckDataAssumption ==
  /\ Blank \in Values
  /\ 0 \in Changes /\ Changes \subseteq Int
  /\ {MaxSaid, MaxSteps} \subseteq Nat

VARIABLES
  type,     (* the type of the data, the first part of the entity's id     *)
  objects,  (* node -> its object, or Null                                 *)
  made,     (* node -> was its object made by createReplicatedData?        *)
  turn,     (* the node handling a request, or 0                           *)
  steps,    (* how many steps the request has had                          *)
  noState,  (* had the node no object before the request?                  *)
  deleted,  (* has the request deleted the entity?                         *)
  said      (* history: the value that the updates of all requests make,   *)
            (* one after another                                           *)

dataVars == <<type, objects, made, turn, steps, noState, deleted, said>>

Nodes == {1, 2}
Peer == 3 - turn
Null == [null |-> TRUE]
Now == objects[turn]

Types ==
  {"counter", "set", "register", "map", "counterMap", "registerMap", "multiMap", "vote"}

----------------------------------------------------------------------------
(* What a type is made as, by createReplicatedData, and by createForDelta  *)
(* for the first delta.                                                    *)

New(blank) ==
  CASE type = "counter" -> NewCounter
    [] type = "set" -> NewSet
    [] type = "register" -> NewRegister(blank)
    [] type \in {"counterMap", "registerMap", "multiMap"} -> NewKeyed
    [] type = "map" -> NewMap
    [] type = "vote" -> NewVote
CreateReplicatedData == New(Blank)
CreateForDelta == New(EmptyObject)

(* The value nothing was said about.  A key has the set of its value, or,  *)
(* in a multimap, the set of its values.                                   *)
Unsaid ==
  CASE type = "counter" -> 0
    [] type = "set" -> {}
    [] type = "register" -> Blank
    [] type \in {"map", "counterMap", "registerMap", "multiMap"} -> [k \in Keys |-> {}]
    [] type = "vote" -> [r \in Nodes |-> FALSE]

TckDataInit ==
  /\ type \in Types
  /\ objects = [r \in Nodes |-> Null] /\ made = [r \in Nodes |-> FALSE]
  /\ turn = 0 /\ steps = 0 /\ noState = FALSE /\ deleted = FALSE
  /\ said = Unsaid

----------------------------------------------------------------------------
(* process. *)

Begin(r) ==
  /\ turn = 0 /\ turn' = r
  /\ steps' = 0 /\ deleted' = FALSE /\ noState' = (objects[r] = Null)
  /\ IF objects[r] = Null
     THEN /\ objects' = [objects EXCEPT ![r] = CreateReplicatedData]
          /\ made' = [made EXCEPT ![r] = TRUE]
     ELSE UNCHANGED <<objects, made>>
  /\ UNCHANGED <<type, said>>

InRequest ==
  /\ turn # 0 /\ steps < MaxSteps /\ steps' = steps + 1
  /\ UNCHANGED <<type, made, turn, noState>>

(* context.delete: the object made in this request is forgotten at once,   *)
(* another one stays, is updated and shown to the end of the request.      *)
Delete ==
  /\ InRequest /\ Now # Null
  /\ IF noState THEN /\ objects' = [objects EXCEPT ![turn] = Null]
                     /\ said' = Unsaid /\ UNCHANGED deleted
     ELSE deleted' = TRUE /\ UNCHANGED <<objects, said>>

Fail ==
  /\ turn # 0 /\ steps = 0 /\ turn' = 0
  /\ UNCHANGED <<type, objects, made, steps, noState, deleted, said>>

----------------------------------------------------------------------------
(* applyUpdate: nothing is updated in an entity that is not there.         *)

UpdatedTo(o, v) ==
  /\ InRequest /\ objects' = [objects EXCEPT ![turn] = o] /\ said' = v
  /\ UNCHANGED deleted

Small(n) == -MaxSaid <= n /\ n <= MaxSaid
Sum(v, n) == IF v = {} THEN n ELSE (CHOOSE i \in v : TRUE) + n

UpdateMissing == turn # 0 /\ Now = Null /\ UpdatedTo(Now, said)

UpdateCounter ==
  \E n \in Changes : Small(said + n) /\ UpdatedTo(CounterIncrement(Now, n), said + n)

UpdateSet ==
  \/ \E e \in Elements : \/ UpdatedTo(SetAdd(Now, e), said \cup {e})
                         \/ UpdatedTo(SetDelete(Now, e), said \ {e})
  \/ UpdatedTo(SetClear(Now), {})

UpdateRegister == \E v \in Values \ {Blank} : UpdatedTo(RegisterSet(Now, v), v)

(* A key that is there is not added again.  A map made for a delta has no  *)
(* defaultValue, so that the update of a key that is not there is ignored. *)
AddAlways(m, k) == MapSet(m, k, NewCounter)
Add(m, k) == IF Has(m, k) THEN m ELSE MapSet(m, k, NewCounter)
Gets(m, k) == Has(m, k) \/ made[turn]
UpdateMap ==
  \/ \E k \in Keys :
       \/ UpdatedTo(Add(Now, k), [said EXCEPT ![k] = {Sum(@, 0)}])
       \/ \E n \in Changes :
            /\ Gets(Now, k) /\ Small(Sum(said[k], n))
            /\ UpdatedTo(MapIncrement(MapGet(Now, k), k, n), [said EXCEPT ![k] = {Sum(@, n)}])
       \/ ~ Gets(Now, k) /\ UpdatedTo(Now, said)
       \/ UpdatedTo(MapDelete(Now, k), [said EXCEPT ![k] = {}])
  \/ UpdatedTo(MapClear(Now), Unsaid)

Remove == \/ \E k \in Keys : UpdatedTo(KeyedDelete(Now, k), [said EXCEPT ![k] = {}])
          \/ UpdatedTo(KeyedClear(Now), Unsaid)

(* To add a key is to increment its counter by nothing. *)
UpdateCounterMap ==
  \/ \E k \in Keys, n \in Changes :
       /\ Small(Sum(said[k], n))
       /\ UpdatedTo(CounterMapIncrement(Now, k, n), [said EXCEPT ![k] = {Sum(@, n)}])
  \/ Remove

(* ... or to set its register to the empty text. *)
UpdateRegisterMap ==
  \/ \E k \in Keys, v \in Values : UpdatedTo(RegisterMapSet(Now, k, v), [said EXCEPT ![k] = {v}])
  \/ Remove

UpdateMultiMap ==
  \/ \E k \in Keys, e \in Elements :
       \/ UpdatedTo(MultiMapPutAll(Now, k, {e}), [said EXCEPT ![k] = @ \cup {e}])
       \/ UpdatedTo(MultiMapDelete(Now, k, e), [said EXCEPT ![k] = @ \ {e}])
  \/ Remove

UpdateVote == \E vote \in BOOLEAN : UpdatedTo(VoteSet(Now, vote), [said EXCEPT ![turn] = vote])

Update ==
  /\ turn # 0 /\ Now # Null
  /\ \/ type = "counter" /\ UpdateCounter
     \/ type = "set" /\ UpdateSet
     \/ type = "register" /\ UpdateRegister
     \/ type = "map" /\ UpdateMap
     \/ type = "counterMap" /\ UpdateCounterMap
     \/ type = "registerMap" /\ UpdateRegisterMap
     \/ type = "multiMap" /\ UpdateMultiMap
     \/ type = "vote" /\ UpdateVote

----------------------------------------------------------------------------
(* The end of a request: the state action of the reply, and what the       *)
(* proxies make of it at the other node.                                   *)

EndRequest == turn # 0 /\ turn' = 0 /\ UNCHANGED <<type, steps, noState, deleted>>

EndDeleted ==
  /\ EndRequest /\ deleted
  /\ objects' = [r \in Nodes |-> Null] /\ said' = Unsaid
  /\ UNCHANGED made

Changed(o) ==
  CASE type = "counter" -> CounterChanged(o)
    [] type = "set" -> SetChanged(o)
    [] type = "register" -> RegisterChanged(o)
    [] type = "map" -> MapChanged(o)
    [] type = "counterMap" -> CounterMapChanged(o)
    [] type = "registerMap" -> RegisterMapChanged(o)
    [] type = "multiMap" -> MultiMapChanged(o)
    [] type = "vote" -> VoteChanged(o)

One(b) == IF b THEN 1 ELSE 0
Votes(o, p) ==
  [self |-> p.self, voters |-> 2,
   votesFor |-> One(p.self) + One(CHOOSE vote \in o.delta : TRUE)]

Published(o) ==
  CASE type = "counter" -> CounterReset(o)
    [] type = "set" -> SetReset(o)
    [] type = "register" -> RegisterReset(o)
    [] type = "map" -> MapReset(o)
    [] type = "counterMap" -> CounterMapReset(o)
    [] type = "registerMap" -> RegisterMapReset(o)
    [] type = "multiMap" -> MultiMapReset(o)
    [] type = "vote" -> VoteReset(o)

Received(p, o) ==
  CASE type = "counter" -> CounterApply(p, CounterDelta(o))
    [] type = "set" -> SetApply(p, SetDelta(o))
    [] type = "register" -> RegisterApply(p, RegisterDelta(o))
    [] type = "map" -> MapApply(p, MapDelta(o))
    [] type = "counterMap" -> CounterMapApply(p, CounterMapDelta(o))
    [] type = "registerMap" -> RegisterMapApply(p, RegisterMapDelta(o))
    [] type = "multiMap" -> MultiMapApply(p, MultiMapDelta(o))
    [] type = "vote" -> VoteApply(p, Votes(o, p))

EndKept ==
  /\ EndRequest /\ ~ deleted
  /\ IF Now # Null /\ Changed(Now)
     THEN /\ objects' = [objects EXCEPT ![turn] = Published(@),
                          ![Peer] = Received(IF @ = Null THEN CreateForDelta ELSE @, Now)]
          /\ made' = [made EXCEPT ![Peer] = @ /\ objects[Peer] # Null]
     ELSE UNCHANGED <<objects, made>>
  /\ UNCHANGED said

TckDataNext ==
  \/ \E r \in Nodes : Begin(r)
  \/ Update \/ UpdateMissing \/ Delete \/ Fail
  \/ EndDeleted \/ EndKept

TckDataSpec == TckDataInit /\ [][TckDataNext]_dataVars

----------------------------------------------------------------------------
(* replicatedDataState: what a response shows.  What JavaScript takes for  *)
(* false is not shown, its key is.                                         *)

Unless(blank, v) == IF v = blank THEN {} ELSE {v}
Entries(o, blank) ==
  {[key |-> k, value |-> Unless(blank, o.entries[k].value)] : k \in {k \in Keys : Has(o, k)}}
ReplicatedDataState(o) ==
  CASE type = "counter" -> Unless(0, o.value)
    [] type = "set" -> o.value
    [] type = "register" -> Unless(Blank, o.value)
    [] type \in {"map", "counterMap"} -> Entries(o, 0)
    [] type = "registerMap" -> Entries(o, Blank)
    [] type = "multiMap" -> {[key |-> k, value |-> o.entries[k].value] : k \in {k \in Keys : Has(o, k)}}
    [] type = "vote" -> [selfVote |-> Unless(FALSE, o.self), votesFor |-> Unless(0, o.votesFor)]

----------------------------------------------------------------------------
(* Properties. *)

TckDataTypeOK ==
  /\ type \in Types /\ turn \in Nodes \cup {0} /\ steps \in 0 .. MaxSteps
  /\ made \in [Nodes -> BOOLEAN] /\ {noState, deleted} \subseteq BOOLEAN

(* What a client expects to be shown by node r. *)
SaidEntries(blanks) ==
  {[key |-> k, value |-> said[k] \ blanks] : k \in {k \in Keys : said[k] # {}}}
Expected(r) ==
  CASE type = "counter" -> Unless(0, said)
    [] type = "set" -> said
    [] type = "register" -> Unless(Blank, said)
    [] type \in {"map", "counterMap"} -> SaidEntries({0})
    [] type = "registerMap" -> SaidEntries({Blank})
    [] type = "multiMap" -> SaidEntries({})
    [] type = "vote" -> [selfVote |-> Unless(FALSE, said[r]),
                         votesFor |-> Unless(0, Cardinality({s \in Nodes : said[s]}))]

(* A counter of a counter map that was never other than zero is known      *)
(* where it was added only.                                                *)
Comparable(shown) == IF type = "counterMap" THEN {e \in shown : e.value # {}} ELSE shown

(* ... and what a node that has the entity does show. *)
ShownIsSaid ==
  \A r \in Nodes : (turn \in {0, r}) /\ objects[r] # Null =>
    Comparable(ReplicatedDataState(objects[r])) = Comparable(Expected(r))

(* A node without the entity has not missed anything. *)
MissingIsUnsaid ==
  turn = 0 => \A r \in Nodes : objects[r] = Null =>
    \/ said = Unsaid
    \/ type = "counterMap" /\ Comparable(Expected(r)) = {}

(* The response to a request shows what the updates of all requests make   *)
(* of the data one after another, since it was last deleted, whichever     *)
(* nodes have handled them; and so does a node that has only been told,    *)
(* while a node that makes the entity anew makes it as the others have it. *)
ResponseShowsUpdates == ShownIsSaid /\ MissingIsUnsaid
=============================================================================
