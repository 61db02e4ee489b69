---------------------------- MODULE DeltaExchange ---------------------------
(***************************************************************************)
(* Two replicas of one replicated data object, of any of the eight types,  *)
(* each in a service of its own, and the proxies between them that take    *)
(* the delta of one and give it to the other.  One replica changes at a    *)
(* time: the proxies' merge of concurrent changes is not in the SDK.       *)
(***************************************************************************)
EXTENDS ReplicatedData

CONSTANTS
  Steps,        (* by how much a counter is incremented, or decremented   *)
  MaxCount,     (* bound on the value and on the delta of a counter         *)
  ReusesValues  (* may the value a map has for a key be set into it again   *)

ASSUME ExchangeAssumption ==
  /\ Steps \subseteq Nat
  /\ MaxCount \in Nat
  /\ ReusesValues \in BOOLEAN

VARIABLES kind,     (* the type of the object                               *)
          object    (* the object at each replica                           *)

vars == <<kind, object>>

Replicas == {1, 2}
Other(r) == 3 - r

Bounded(c) == /\ -MaxCount <= c.value /\ c.value <= MaxCount
              /\ -MaxCount <= c.delta /\ c.delta <= MaxCount

(* increment and decrement *)
Amounts == Steps \cup {- n : n \in Steps}

Num(b) == IF b THEN 1 ELSE 0

(* The replica has changes that were not taken from it yet. *)
Pending(r) ==
  LET o == object[r] IN
  \/ kind = "counter" /\ CounterChanged(o)
  \/ kind = "register" /\ RegisterChanged(o)
  \/ kind = "set" /\ SetChanged(o)
  \/ kind = "counterMap" /\ CounterMapChanged(o)
  \/ kind = "registerMap" /\ RegisterMapChanged(o)
  \/ kind = "multiMap" /\ MultiMapChanged(o)
  \/ kind = "map" /\ MapChanged(o)
  \/ kind = "vote" /\ VoteChanged(o)

Both(o) == object = [r \in Replicas |-> o]

Init ==
  \/ kind = "counter" /\ Both(NewCounter)
  \/ kind = "register" /\ \E v \in Values \cup {EmptyObject} : Both(RegisterReset(NewRegister(v)))
  \/ kind = "set" /\ Both(NewSet)
  \/ kind \in {"counterMap", "registerMap", "multiMap"} /\ Both(NewKeyed)
  \/ kind = "map" /\ Both(NewMap)
  \/ kind = "vote" /\ Both(NewVote)

----------------------------------------------------------------------------
(* A command handler changes the object of one replica. *)

Becomes(r, o) ==
  /\ ~ Pending(Other(r))
  /\ object' = [object EXCEPT ![r] = o]
  /\ UNCHANGED kind

ChangeCounter(r) ==
  /\ kind = "counter"
  /\ \E n \in Amounts : LET c == CounterIncrement(object[r], n) IN Bounded(c) /\ Becomes(r, c)

ChangeRegister(r) ==
  /\ kind = "register"
  /\ \E v \in Values : Becomes(r, RegisterSet(object[r], v))

ChangeSet(r) ==
  /\ kind = "set"
  /\ \/ \E es \in SUBSET Elements : Becomes(r, SetAddAll(object[r], es))
     \/ \E e \in Elements : Becomes(r, SetDelete(object[r], e))
     \/ Becomes(r, SetClear(object[r]))

(* delete and clear are the same in the three maps. *)
ChangeKeyed(r) ==
  /\ kind \in {"counterMap", "registerMap", "multiMap"}
  /\ \/ \E k \in Keys : Becomes(r, KeyedDelete(object[r], k))
     \/ Becomes(r, KeyedClear(object[r]))

ChangeCounterMap(r) ==
  /\ kind = "counterMap"
  /\ \E k \in Keys, n \in Amounts :
       LET m == CounterMapIncrement(object[r], k, n) IN
       Bounded(m.entries[k]) /\ Becomes(r, m)

ChangeRegisterMap(r) ==
  /\ kind = "registerMap"
  /\ \E k \in Keys :
       \/ \E v \in Values : Becomes(r, RegisterMapSet(object[r], k, v))
       \/ Becomes(r, RegisterMapSetThrows(object[r], k))

ChangeMultiMap(r) ==
  /\ kind = "multiMap"
  /\ \E k \in Keys :
       \/ \E es \in SUBSET Elements : Becomes(r, MultiMapPutAll(object[r], k, es))
       \/ \E e \in Elements : Becomes(r, MultiMapDelete(object[r], k, e))

(* What is set into a map: a counter made for it, or the one it holds.     *)
NewValues(m, k) ==
  {c \in {CounterIncrement(NewCounter, n) : n \in Amounts \cup {0}} : Bounded(c)}
    \cup IF ReusesValues /\ Has(m, k) THEN {m.entries[k]} ELSE {}

ChangeMap(r) ==
  /\ kind = "map"
  /\ LET m == object[r] IN
     \/ \E k \in Keys : \E c \in NewValues(m, k) : Becomes(r, MapSet(m, k, c))
     \/ \E k \in Keys : Becomes(r, MapGet(m, k))
     \/ \E k \in Keys, n \in Amounts :
          /\ Has(m, k)
          /\ Bounded(CounterIncrement(m.entries[k], n))
          /\ Becomes(r, MapIncrement(m, k, n))
     \/ \E k \in Keys : Becomes(r, MapDelete(m, k))
     \/ Becomes(r, MapClear(m))

ChangeVote(r) ==
  /\ kind = "vote"
  /\ \E vote \in BOOLEAN : Becomes(r, VoteSet(object[r], vote))

----------------------------------------------------------------------------
(* A command has been answered: getAndResetDelta goes to the proxies, and  *)
(* applyDelta at the other replica follows.                                *)

Exchanged(r, published, received) ==
  /\ Pending(r)
  /\ object' = [object EXCEPT ![r] = published, ![Other(r)] = received]
  /\ UNCHANGED kind

(* The proxies count the votes and tell each replica of all. *)
VotesDelta(r) ==
  LET sent == CHOOSE vote \in object[r].delta : TRUE
      self == object[Other(r)].self
  IN  [self |-> self, votesFor |-> Num(sent) + Num(self), voters |-> 2]

Exchange(r) ==
  LET o == object[r]
      p == object[Other(r)]
  IN
  \/ kind = "counter" /\ Exchanged(r, CounterReset(o), CounterApply(p, CounterDelta(o)))
  \/ kind = "register" /\ Exchanged(r, RegisterReset(o), RegisterApply(p, RegisterDelta(o)))
  \/ kind = "set" /\ Exchanged(r, SetReset(o), SetApply(p, SetDelta(o)))
  \/ kind = "counterMap"
       /\ Exchanged(r, CounterMapReset(o), CounterMapApply(p, CounterMapDelta(o)))
  \/ kind = "registerMap"
       /\ Exchanged(r, RegisterMapReset(o), RegisterMapApply(p, RegisterMapDelta(o)))
  \/ kind = "multiMap" /\ Exchanged(r, MultiMapReset(o), MultiMapApply(p, MultiMapDelta(o)))
  \/ kind = "map" /\ Exchanged(r, MapReset(o), MapApply(p, MapDelta(o)))
  \/ kind = "vote" /\ Exchanged(r, VoteReset(o), VoteApply(p, VotesDelta(r)))

Next ==
  \E r \in Replicas :
    \/ ChangeCounter(r) \/ ChangeRegister(r) \/ ChangeSet(r) \/ ChangeKeyed(r)
    \/ ChangeCounterMap(r) \/ ChangeRegisterMap(r) \/ ChangeMultiMap(r)
    \/ ChangeMap(r) \/ ChangeVote(r)
    \/ Exchange(r)

Spec == Init /\ [][Next]_vars

----------------------------------------------------------------------------
(* Types. *)

OrAbsent(S) == S \cup {Absent}
CounterType == [value : Int, delta : Int]
RegisterType == [value : Values \cup {EmptyObject}, delta : OrAbsent(Values \cup {EmptyObject})]
SetType == [value : SUBSET Elements, added : SUBSET Elements, removed : SUBSET Elements,
            cleared : BOOLEAN]
KeyedType(S) == [entries : [Keys -> OrAbsent(S)], removed : SUBSET Keys, cleared : BOOLEAN]
MapType == [entries : [Keys -> OrAbsent(CounterType)], added : SUBSET Keys,
            removed : SUBSET Keys, cleared : BOOLEAN]
VoteType == [self : BOOLEAN, votesFor : Int, voters : {1, 2}, delta : SUBSET BOOLEAN]

TypeOK ==
  \/ kind = "counter" /\ object \in [Replicas -> CounterType]
  \/ kind = "register" /\ object \in [Replicas -> RegisterType]
  \/ kind = "set" /\ object \in [Replicas -> SetType]
  \/ kind = "counterMap" /\ object \in [Replicas -> KeyedType(CounterType)]
  \/ kind = "registerMap" /\ object \in [Replicas -> KeyedType(RegisterType)]
  \/ kind = "multiMap" /\ object \in [Replicas -> KeyedType(SetType)]
  \/ kind = "map" /\ object \in [Replicas -> MapType]
  \/ kind = "vote" /\ object \in [Replicas -> VoteType]

----------------------------------------------------------------------------
(* Properties. *)

(* What a user sees of each type.  A counter map's missing counter counts  *)
(* as zero and a multimap's missing key as one without values.             *)
CounterMapShows(m) == [k \in Keys |-> Entry(m, k, NewCounter).value]
RegisterMapShows(m) == [k \in Keys |-> IF Has(m, k) THEN m.entries[k].value ELSE Absent]
MultiMapShows(m) == [k \in Keys |-> Entry(m, k, NewSet).value]
MapShows(m) == [k \in Keys |-> IF Has(m, k) THEN <<m.entries[k].value>> ELSE <<>>]

(* o shows what p will show when it is given the delta of o. *)
CounterFollows(o, p) == CounterApply(p, CounterDelta(o)).value = o.value
RegisterFollows(o, p) == (IF RegisterChanged(o) THEN RegisterDelta(o) ELSE p.value) = o.value
SetFollows(o, p) == SetApply(p, SetDelta(o)).value = o.value
CounterMapFollows(o, p) ==
  CounterMapShows(CounterMapApply(p, CounterMapDelta(o))) = CounterMapShows(o)
RegisterMapFollows(o, p) ==
  RegisterMapShows(RegisterMapApply(p, RegisterMapDelta(o))) = RegisterMapShows(o)
MultiMapFollows(o, p) == MultiMapShows(MultiMapApply(p, MultiMapDelta(o))) = MultiMapShows(o)
MapFollows(o, p) == MapShows(MapApply(p, MapDelta(o))) = MapShows(o)
VoteFollows(o, p) ==
  LET known == p.votesFor = Num(p.self) + 1
      sent == IF VoteChanged(o) THEN CHOOSE vote \in o.delta : TRUE ELSE known
  IN  sent = o.self /\ Num(sent) + Num(p.self) = o.votesFor

(* A delta says what happened: after any calls of the mutators, in any     *)
(* order, a replica without changes of its own that is given the delta     *)
(* shows exactly what the changed replica shows.                           *)
PeerFollows ==
  \A r \in Replicas : ~ Pending(Other(r)) =>
    LET o == object[r]
        p == object[Other(r)]
    IN
    /\ kind = "counter" => CounterFollows(o, p)
    /\ kind = "register" => RegisterFollows(o, p)
    /\ kind = "set" => SetFollows(o, p)
    /\ kind = "counterMap" => CounterMapFollows(o, p)
    /\ kind = "registerMap" => RegisterMapFollows(o, p)
    /\ kind = "multiMap" => MultiMapFollows(o, p)
    /\ kind = "map" => MapFollows(o, p)
    /\ kind = "vote" => VoteFollows(o, p)

(* A delta is not echoed: what applyDelta brings in is never sent back as  *)
(* a change of this replica, nor is a published change sent twice.         *)
NotEchoed == [][\A r \in Replicas : Exchange(r) => \A q \in Replicas : ~ Pending(q)']_vars
============================================================================
