---------------------------- MODULE ReplicatedData --------------------------
(***************************************************************************)
(* The replicated data types of sdk/src/replicated-data.  An object keeps  *)
(* the value its user sees and what happened to it since its delta was     *)
(* last taken: each mutator changes both, getAndResetDelta gives the delta *)
(* and forgets it, applyDelta takes the delta of another replica.          *)
(*                                                                         *)
(* For each type: the new object, the mutators, whether there is a delta,  *)
(* the delta, the object without it, and the object after a delta.         *)
(* Elements, keys and values are compared as AnySupport.toComparable does, *)
(* so two of them are equal when their serialized forms are.               *)
(***************************************************************************)
EXTENDS Integers

CONSTANTS Elements,   (* of sets, and of the sets in a multimap             *)
          Keys,       (* of maps                                            *)
          Values,     (* of registers                                       *)
          EmptyObject (* the object {} a map creates a register with        *)

Absent == [absent |-> TRUE]

ASSUME DataAssumption == Absent \notin Values \cup {EmptyObject}

----------------------------------------------------------------------------
(* ReplicatedCounter *)

NewCounter == [value |-> 0, delta |-> 0]
CounterIncrement(c, n) == [value |-> c.value + n, delta |-> c.delta + n]
CounterChanged(c) == c.delta # 0
CounterDelta(c) == [change |-> c.delta]
CounterReset(c) == [c EXCEPT !.delta = 0]
CounterApply(c, d) == [c EXCEPT !.value = @ + d.change]

----------------------------------------------------------------------------
(* ReplicatedRegister.  The delta is the value to send, Absent when there  *)
(* is none; a new register sends its initial value.                        *)

NewRegister(v) == [value |-> v, delta |-> v]
RegisterSet(r, v) == NewRegister(v)
RegisterChanged(r) == r.delta # Absent
RegisterDelta(r) == r.delta
RegisterReset(r) == [r EXCEPT !.delta = Absent]
RegisterApplyKeepsMessage(r, d) == [value |-> [value |-> d], delta |-> Absent]
RegisterApply(r, d) == [value |-> d, delta |-> Absent]

----------------------------------------------------------------------------
(* ReplicatedSet *)

NewSet == [value |-> {}, added |-> {}, removed |-> {}, cleared |-> FALSE]

SetAddAll(s, es) ==
  LET new == es \ s.value IN
  [s EXCEPT !.value = @ \cup new, !.removed = @ \ new,
            !.added = @ \cup (new \ s.removed)]
SetAdd(s, e) == SetAddAll(s, {e})

SetClearKeepsAdded(s) ==
  IF s.value = {} THEN s ELSE [s EXCEPT !.value = {}, !.cleared = TRUE]

(* clear: what was added or removed before it does not matter any more. *)
SetClear(s) == IF s.value = {} THEN s ELSE [NewSet EXCEPT !.cleared = TRUE]

(* delete: the deletion of the last element is a clear, that of an element *)
(* added since the last delta takes the addition back.                     *)
SetDelete(s, e) ==
  IF e \notin s.value THEN s
  ELSE IF s.value = {e} THEN SetClear(s)
  ELSE [s EXCEPT !.value = @ \ {e}, !.added = @ \ {e},
                 !.removed = IF e \in s.added THEN @ ELSE @ \cup {e}]

SetChanged(s) == s.cleared \/ s.added # {} \/ s.removed # {}
SetDelta(s) == [cleared |-> s.cleared, removed |-> s.removed, added |-> s.added]
SetReset(s) == [NewSet EXCEPT !.value = s.value]
SetApply(s, d) ==
  [s EXCEPT !.value = ((IF d.cleared THEN {} ELSE @) \ d.removed) \cup d.added]

----------------------------------------------------------------------------
(* What the counter map, the register map and the multimap have in common: *)
(* entries, the keys removed since the last delta, and whether all were.   *)

NewKeyed == [entries |-> [k \in Keys |-> Absent], removed |-> {}, cleared |-> FALSE]
Has(m, k) == m.entries[k] # Absent
Entry(m, k, new) == IF Has(m, k) THEN m.entries[k] ELSE new

KeyedDelete(m, k) ==
  IF Has(m, k) THEN [m EXCEPT !.entries[k] = Absent, !.removed = @ \cup {k}] ELSE m
KeyedClear(m) ==
  IF \E k \in Keys : Has(m, k) THEN [NewKeyed EXCEPT !.cleared = TRUE] ELSE m

(* The entries of m when delta d has cleared and removed. *)
Kept(m, d) == [k \in Keys |-> IF d.cleared \/ k \in d.removed THEN Absent ELSE m.entries[k]]

(* The parts of a delta and of an object that only depend on the keys. *)
KeyedDelta(m, updated) ==
  [cleared |-> m.cleared, removed |-> m.removed, updated |-> updated]
KeyedChanged(m, updated) ==
  m.cleared \/ m.removed # {} \/ \E k \in Keys : updated[k] # Absent
KeyedReset(entries) == [NewKeyed EXCEPT !.entries = entries]

----------------------------------------------------------------------------
(* ReplicatedCounterMap *)

CounterMapIncrement(m, k, n) ==
  [m EXCEPT !.entries[k] = CounterIncrement(Entry(m, k, NewCounter), n)]
CounterMapUpdated(m) ==
  [k \in Keys |-> IF Has(m, k) /\ CounterChanged(m.entries[k])
                  THEN CounterDelta(m.entries[k]) ELSE Absent]
CounterMapDelta(m) == KeyedDelta(m, CounterMapUpdated(m))
CounterMapChanged(m) == KeyedChanged(m, CounterMapUpdated(m))
CounterMapReset(m) ==
  KeyedReset([k \in Keys |-> IF Has(m, k) THEN CounterReset(m.entries[k]) ELSE Absent])
CounterMapApply(m, d) ==
  [m EXCEPT !.entries = [k \in Keys |->
     LET kept == Kept(m, d)[k] IN
     IF d.updated[k] = Absent THEN kept
     ELSE CounterApply(IF kept = Absent THEN NewCounter ELSE kept, d.updated[k])]]

----------------------------------------------------------------------------
(* ReplicatedRegisterMap *)

RegisterMapSet(m, k, v) == [m EXCEPT !.entries[k] = NewRegister(v)]

(* The value cannot be serialized: set throws, and the register that was   *)
(* created for it stays.                                                   *)
RegisterMapSetThrows(m, k) == [m EXCEPT !.entries[k] = Entry(m, k, NewRegister(EmptyObject))]

RegisterMapUpdated(m) ==
  [k \in Keys |-> IF Has(m, k) /\ RegisterChanged(m.entries[k])
                  THEN RegisterDelta(m.entries[k]) ELSE Absent]
RegisterMapDelta(m) == KeyedDelta(m, RegisterMapUpdated(m))
RegisterMapChanged(m) == KeyedChanged(m, RegisterMapUpdated(m))
RegisterMapReset(m) ==
  KeyedReset([k \in Keys |-> IF Has(m, k) THEN RegisterReset(m.entries[k]) ELSE Absent])
RegisterMapApply(m, d) ==
  [m EXCEPT !.entries = [k \in Keys |->
     LET kept == Kept(m, d)[k] IN
     IF d.updated[k] = Absent THEN kept
     ELSE RegisterApply(IF kept = Absent THEN NewRegister(EmptyObject) ELSE kept,
                        d.updated[k])]]

----------------------------------------------------------------------------
(* ReplicatedMultiMap *)

MultiMapPutAll(m, k, es) == [m EXCEPT !.entries[k] = SetAddAll(Entry(m, k, NewSet), es)]

(* delete: a key without values is deleted. *)
MultiMapDelete(m, k, e) ==
  LET left == SetDelete(m.entries[k], e) IN
  IF ~ Has(m, k) THEN m
  ELSE IF left.value = {} THEN KeyedDelete(m, k)
  ELSE [m EXCEPT !.entries[k] = left]

MultiMapUpdated(m) ==
  [k \in Keys |-> IF Has(m, k) /\ SetChanged(m.entries[k])
                  THEN SetDelta(m.entries[k]) ELSE Absent]
MultiMapDelta(m) == KeyedDelta(m, MultiMapUpdated(m))
MultiMapChanged(m) == KeyedChanged(m, MultiMapUpdated(m))
MultiMapReset(m) ==
  KeyedReset([k \in Keys |-> IF Has(m, k) THEN SetReset(m.entries[k]) ELSE Absent])
MultiMapApply(m, d) ==
  [m EXCEPT !.entries = [k \in Keys |->
     LET kept == Kept(m, d)[k] IN
     IF d.updated[k] = Absent THEN kept
     ELSE SetApply(IF kept = Absent THEN NewSet ELSE kept, d.updated[k])]]

----------------------------------------------------------------------------
(* ReplicatedMap, of counters.  A key set since the last delta is in added *)
(* and sends its value as an initial one.                                  *)

NewMap == [entries |-> [k \in Keys |-> Absent], added |-> {}, removed |-> {},
           cleared |-> FALSE]

MapSet(m, k, c) ==
  [m EXCEPT !.entries[k] = c, !.added = @ \cup {k},
            !.removed = IF Has(m, k) /\ k \notin m.added THEN @ \cup {k} ELSE @]
(* get with a defaultValue callback *)
MapGet(m, k) == IF Has(m, k) THEN m ELSE MapSet(m, k, NewCounter)
MapIncrement(m, k, n) == [m EXCEPT !.entries[k] = CounterIncrement(@, n)]
MapDelete(m, k) ==
  IF ~ Has(m, k) THEN m
  ELSE [m EXCEPT !.entries[k] = Absent, !.added = @ \ {k},
                 !.removed = IF k \in m.added THEN @ ELSE @ \cup {k}]
MapClear(m) == IF \E k \in Keys : Has(m, k) THEN [NewMap EXCEPT !.cleared = TRUE] ELSE m

MapDelta(m) ==
  [cleared |-> m.cleared, removed |-> m.removed,
   added   |-> [k \in Keys |-> IF Has(m, k) /\ k \in m.added
                               THEN CounterDelta(m.entries[k]) ELSE Absent],
   updated |-> [k \in Keys |-> IF Has(m, k) /\ k \notin m.added /\ CounterChanged(m.entries[k])
                               THEN CounterDelta(m.entries[k]) ELSE Absent]]
MapChanged(m) ==
  LET d == MapDelta(m) IN
  d.cleared \/ d.removed # {} \/ \E k \in Keys : d.added[k] # Absent \/ d.updated[k] # Absent
MapReset(m) ==
  [NewMap EXCEPT !.entries =
     [k \in Keys |-> IF Has(m, k) THEN CounterReset(m.entries[k]) ELSE Absent]]

(* An added key that is there already is updated, an updated key that is   *)
(* not there is ignored.                                                   *)
MapApply(m, d) ==
  [m EXCEPT !.entries = [k \in Keys |->
     LET kept == Kept(m, d)[k] IN
     IF d.added[k] # Absent
     THEN CounterApply(IF kept = Absent THEN NewCounter ELSE kept, d.added[k])
     ELSE IF d.updated[k] # Absent /\ kept # Absent THEN CounterApply(kept, d.updated[k])
     ELSE kept]]

----------------------------------------------------------------------------
(* Vote.  The delta is the set of the vote to send, empty when there is    *)
(* none.                                                                   *)

NewVote == [self |-> FALSE, votesFor |-> 0, voters |-> 1, delta |-> {}]
VoteSet(v, vote) ==
  IF vote = v.self THEN v
  ELSE [v EXCEPT !.self = vote, !.votesFor = IF vote THEN @ + 1 ELSE @ - 1,
                 !.delta = {vote}]
VoteChanged(v) == v.delta # {}
VoteReset(v) == [v EXCEPT !.delta = {}]
VoteApply(v, d) ==
  [v EXCEPT !.self = d.self, !.votesFor = d.votesFor, !.voters = d.voters]
============================================================================
