------------------------- MODULE DeltaExchangeProofs ------------------------
(***************************************************************************)
(* Theorems about the replicated data types, for every set of elements,    *)
(* keys and values, every step of the counters and every bound on them.    *)
(*                                                                         *)
(* For each type a relation between a changed object and the object of the *)
(* replica that follows it says what the bookkeeping of the changes means  *)
(* (CounterRel, SetRel, ...): every mutator keeps it, and taking the delta *)
(* and applying it establishes it anew in both directions.                 *)
(* The same relations carry the theorem about the requests to the          *)
(* compatibility kit's entity: its nodes are such a pair of objects.       *)
(***************************************************************************)
EXTENDS DataExercises, TLAPS, FiniteSetTheorems

LEMMA AbsentIsNoObject ==
  Absent \notin CounterType /\ Absent \notin RegisterType /\ Absent \notin SetType
BY DEF Absent, CounterType, RegisterType, SetType

----------------------------------------------------------------------------
(* Sets. *)

(* s follows from the value v: what was removed was there and what was     *)
(* added was not, since the delta was taken or the set was last cleared.   *)
SetBase(s, v) == IF s.cleared THEN {} ELSE v

SetRel(s, v) ==
  /\ s.removed \subseteq SetBase(s, v)
  /\ s.added \cap SetBase(s, v) = {}
  /\ s.value = (SetBase(s, v) \ s.removed) \cup s.added

LEMMA SetAddAllKeeps ==
  ASSUME NEW s \in SetType, NEW v \in SUBSET Elements, NEW es \in SUBSET Elements, SetRel(s, v)
  PROVE  SetAddAll(s, es) \in SetType /\ SetRel(SetAddAll(s, es), v)
BY DEF SetType, SetRel, SetBase, SetAddAll

LEMMA SetClearKeeps ==
  ASSUME NEW s \in SetType, NEW v \in SUBSET Elements, SetRel(s, v)
  PROVE  SetClear(s) \in SetType /\ SetRel(SetClear(s), v)
BY DEF SetType, SetRel, SetBase, SetClear, NewSet

LEMMA SetDeleteKeeps ==
  ASSUME NEW s \in SetType, NEW v \in SUBSET Elements, NEW e \in Elements, SetRel(s, v)
  PROVE  SetDelete(s, e) \in SetType /\ SetRel(SetDelete(s, e), v)
<1>1. CASE e \notin s.value
  BY <1>1 DEF SetDelete
<1>2. CASE s.value = {e}
  <2>1. SetDelete(s, e) = SetClear(s)
    BY <1>2 DEF SetDelete
  <2> QED BY <2>1, SetClearKeeps
<1>3. CASE e \in s.value /\ s.value # {e}
  <2> DEFINE left == [s EXCEPT !.value = @ \ {e}, !.added = @ \ {e},
                               !.removed = IF e \in s.added THEN @ ELSE @ \cup {e}]
  <2>1. SetDelete(s, e) = left
    BY <1>3 DEF SetDelete
  <2>2. /\ left \in SetType /\ left.cleared = s.cleared /\ left.value = s.value \ {e}
        /\ left.added = s.added \ {e}
        /\ left.removed = IF e \in s.added THEN s.removed ELSE s.removed \cup {e}
    BY DEF SetType
  <2> HIDE DEF left
  <2>3. SetRel(left, v)
    BY <1>3, <2>2 DEF SetRel, SetBase
  <2> QED BY <2>1, <2>2, <2>3
<1> QED BY <1>1, <1>2, <1>3

LEMMA SetExchange ==
  ASSUME NEW s \in SetType, NEW p \in SetType, SetRel(s, p.value), ~ SetChanged(p)
  PROVE  /\ SetReset(s) \in SetType /\ SetApply(p, SetDelta(s)) \in SetType
         /\ ~ SetChanged(SetReset(s)) /\ ~ SetChanged(SetApply(p, SetDelta(s)))
         /\ SetReset(s).value = s.value /\ SetApply(p, SetDelta(s)).value = s.value
BY DEF SetType, SetRel, SetBase, SetReset, SetApply, SetDelta, SetChanged, NewSet

LEMMA SetClean ==
  ASSUME NEW s \in SetType, NEW v, ~ SetChanged(s)
  PROVE  SetRel(s, v) <=> s.value = v
BY DEF SetType, SetRel, SetBase, SetChanged

----------------------------------------------------------------------------
(* What the maps have in common. *)

(* n differs from m in entry k only. *)
WithEntry(m, k, e) == [m EXCEPT !.entries[k] = e]

LEMMA EntrySet ==
  ASSUME NEW S, NEW m \in KeyedType(S), NEW k \in Keys, NEW e \in S, NEW p,
         NEW n, n = WithEntry(m, k, e)
  PROVE  /\ n \in KeyedType(S) /\ n.entries[k] = e
         /\ \A j \in Keys : j # k => n.entries[j] = m.entries[j]
         /\ Kept(p, n) = Kept(p, m)
BY DEF WithEntry,  KeyedType, OrAbsent, Kept

Untouched(m, n, p, k) == n.entries[k] = m.entries[k] /\ Kept(p, n)[k] = Kept(p, m)[k]
Gone(n, p, k) == n.entries[k] = Absent /\ Kept(p, n)[k] = Absent

LEMMA KeyedDeleteIs ==
  ASSUME NEW S, NEW m \in KeyedType(S), NEW k \in Keys, NEW p
  PROVE  /\ KeyedDelete(m, k) \in KeyedType(S)
         /\ \A j \in Keys : Untouched(m, KeyedDelete(m, k), p, j) \/ Gone(KeyedDelete(m, k), p, j)
<1>1. CASE ~ Has(m, k)
  BY <1>1 DEF KeyedDelete, Untouched
<1>2. CASE Has(m, k)
  <2> DEFINE n == [m EXCEPT !.entries[k] = Absent, !.removed = @ \cup {k}]
  <2>1. KeyedDelete(m, k) = n
    BY <1>2 DEF KeyedDelete
  <2>2. /\ n \in KeyedType(S) /\ n.entries[k] = Absent /\ n.removed = m.removed \cup {k}
        /\ n.cleared = m.cleared
        /\ \A j \in Keys : j # k => n.entries[j] = m.entries[j]
    BY DEF KeyedType, OrAbsent
  <2> HIDE DEF n
  <2> QED BY <2>1, <2>2 DEF Untouched, Gone, Kept
<1> QED BY <1>1, <1>2

LEMMA KeyedClearIs ==
  ASSUME NEW S, NEW m \in KeyedType(S), NEW p
  PROVE  /\ KeyedClear(m) \in KeyedType(S)
         /\ \A j \in Keys : Untouched(m, KeyedClear(m), p, j) \/ Gone(KeyedClear(m), p, j)
<1> DEFINE n == [NewKeyed EXCEPT !.cleared = TRUE]
<1>1. KeyedClear(m) = m \/ KeyedClear(m) = n
  BY DEF KeyedClear
<1>2. n \in KeyedType(S) /\ n.cleared = TRUE /\ \A j \in Keys : n.entries[j] = Absent
  BY DEF NewKeyed, KeyedType, OrAbsent
<1> HIDE DEF n
<1>3. \A j \in Keys : Gone(n, p, j)
  BY <1>2 DEF Gone, Kept
<1>4. \A j \in Keys : Untouched(m, m, p, j)
  BY DEF Untouched
<1> QED BY <1>1, <1>2, <1>3, <1>4
(* The delta of one replica at the other: the entries it has a change for. *)
LEMMA KeyedResetIs ==
  ASSUME NEW S, NEW entries \in [Keys -> OrAbsent(S)]
  PROVE  LET n == KeyedReset(entries)
         IN  n \in KeyedType(S) /\ n.entries = entries /\ n.removed = {} /\ ~ n.cleared
BY DEF KeyedReset, NewKeyed, KeyedType

LEMMA AppliedIs ==
  ASSUME NEW S, NEW p \in KeyedType(S), NEW entries \in [Keys -> OrAbsent(S)]
  PROVE  LET n == [p EXCEPT !.entries = entries]
         IN  n \in KeyedType(S) /\ n.entries = entries /\ n.removed = p.removed /\ n.cleared = p.cleared
BY DEF KeyedType

LEMMA KeptIs ==
  ASSUME NEW S, NEW p \in KeyedType(S), NEW m, NEW k \in Keys
  PROVE  /\ Kept(p, m)[k] \in OrAbsent(S)
         /\ m.removed = {} /\ m.cleared = FALSE => Kept(p, m)[k] = p.entries[k]
         /\ \A updated : Kept(p, KeyedDelta(m, updated)) = Kept(p, m)
BY DEF KeyedType, OrAbsent, Kept, KeyedDelta

----------------------------------------------------------------------------
(* Counters. *)
CounterRel(c, v) == c.value = v + c.delta

LEMMA CounterIncrementKeeps ==
  ASSUME NEW c \in CounterType, NEW v \in Int, NEW n \in Int, CounterRel(c, v)
  PROVE  CounterIncrement(c, n) \in CounterType /\ CounterRel(CounterIncrement(c, n), v)
BY DEF CounterType, CounterRel, CounterIncrement

LEMMA CounterExchange ==
  ASSUME NEW c \in CounterType, NEW p \in CounterType, CounterRel(c, p.value), ~ CounterChanged(p)
  PROVE  /\ CounterReset(c) \in CounterType /\ CounterApply(p, CounterDelta(c)) \in CounterType
         /\ ~ CounterChanged(CounterReset(c)) /\ ~ CounterChanged(CounterApply(p, CounterDelta(c)))
         /\ CounterReset(c).value = c.value /\ CounterApply(p, CounterDelta(c)).value = c.value
BY DEF CounterType, CounterRel, CounterReset, CounterApply, CounterDelta, CounterChanged

LEMMA CounterClean ==
  ASSUME NEW c \in CounterType, NEW v \in Int, ~ CounterChanged(c)
  PROVE  CounterRel(c, v) <=> c.value = v
BY DEF CounterType, CounterRel, CounterChanged

LEMMA NewCounterIs ==
  NewCounter \in CounterType /\ NewCounter.value = 0 /\ ~ CounterChanged(NewCounter)
BY DEF NewCounter, CounterType, CounterChanged

----------------------------------------------------------------------------
(* Counter maps. *)
OrNew(x, new) == IF x = Absent THEN new ELSE x

CounterEntryRel(e, b) == CounterRel(OrNew(e, NewCounter), OrNew(b, NewCounter).value)
CounterMapRel(m, p) == \A k \in Keys : CounterEntryRel(m.entries[k], Kept(p, m)[k])

LEMMA CounterEntry ==
  ASSUME NEW e \in OrAbsent(CounterType)
  PROVE  OrNew(e, NewCounter) \in CounterType /\ OrNew(e, NewCounter).value \in Int
BY NewCounterIs DEF OrAbsent, OrNew, CounterType

LEMMA CounterMapIncrementKeeps ==
  ASSUME NEW m \in KeyedType(CounterType), NEW p \in KeyedType(CounterType), NEW k \in Keys, NEW n \in Int,
         CounterMapRel(m, p)
  PROVE  CounterMapIncrement(m, k, n) \in KeyedType(CounterType) /\ CounterMapRel(CounterMapIncrement(m, k, n), p)
<1> DEFINE e == Entry(m, k, NewCounter)
           new == CounterIncrement(e, n)
<1>1. m.entries[k] \in OrAbsent(CounterType) /\ e = OrNew(m.entries[k], NewCounter)
  BY DEF KeyedType, Entry, Has, OrNew
<1>2. OrNew(Kept(p, m)[k], NewCounter).value \in Int /\ e \in CounterType
  BY <1>1, KeptIs, CounterEntry
<1>3. CounterRel(e, OrNew(Kept(p, m)[k], NewCounter).value)
  BY <1>1 DEF CounterMapRel, CounterEntryRel
<1> HIDE DEF e
<1>4. new \in CounterType /\ CounterRel(new, OrNew(Kept(p, m)[k], NewCounter).value)
  BY <1>2, <1>3, CounterIncrementKeeps
<1>5. new # Absent
  BY <1>4, AbsentIsNoObject
<1>6. CounterMapIncrement(m, k, n) = WithEntry(m, k, new)
  BY DEF CounterMapIncrement, WithEntry, e
<1> HIDE DEF new
<1> DEFINE after == WithEntry(m, k, new)
<1>7. /\ after \in KeyedType(CounterType) /\ after.entries[k] = new
      /\ \A j \in Keys : j # k => after.entries[j] = m.entries[j]
      /\ Kept(p, after) = Kept(p, m)
  BY <1>4, EntrySet
<1> HIDE DEF after
<1>8. CounterMapRel(after, p)
  <2> SUFFICES ASSUME NEW j \in Keys PROVE CounterEntryRel(after.entries[j], Kept(p, after)[j])
    BY DEF CounterMapRel
  <2>1. CASE j = k
    BY <1>4, <1>5, <1>7, <2>1 DEF CounterEntryRel, OrNew
  <2>2. CASE j # k
    BY <1>7, <2>2 DEF CounterMapRel
  <2> QED BY <2>1, <2>2
<1> QED BY <1>6, <1>7, <1>8 DEF after

LEMMA CounterMapDeletes ==
  ASSUME NEW m, NEW n, NEW p, CounterMapRel(m, p),
         \A j \in Keys : Untouched(m, n, p, j) \/ Gone(n, p, j)
  PROVE  CounterMapRel(n, p)
<1>1. CounterEntryRel(Absent, Absent)
  BY NewCounterIs DEF CounterEntryRel, OrNew, CounterRel, NewCounter
<1> QED BY <1>1 DEF CounterMapRel, Untouched, Gone

LEMMA CounterMapClean ==
  ASSUME NEW m \in KeyedType(CounterType), ~ CounterMapChanged(m), NEW k \in Keys
  PROVE  /\ m.removed = {} /\ ~ m.cleared /\ m.entries[k] \in OrAbsent(CounterType)
         /\ ~ CounterChanged(OrNew(m.entries[k], NewCounter))
<1>1. m.removed = {} /\ ~ m.cleared /\ CounterMapUpdated(m)[k] = Absent
  BY DEF CounterMapChanged, KeyedChanged, KeyedType
<1>2. CASE Has(m, k) /\ CounterChanged(m.entries[k])
  <2>1. CounterMapUpdated(m)[k] = [change |-> m.entries[k].delta]
    BY <1>2 DEF CounterMapUpdated, CounterDelta
  <2>2. [change |-> m.entries[k].delta] # Absent
    BY DEF Absent
  <2> QED BY <1>1, <2>1, <2>2
<1>3. CASE ~ (Has(m, k) /\ CounterChanged(m.entries[k]))
  BY <1>1, <1>3, NewCounterIs DEF KeyedType, Has, OrNew
<1> QED BY <1>2, <1>3

LEMMA CounterMapIsClean ==
  ASSUME NEW m \in KeyedType(CounterType), m.removed = {}, ~ m.cleared,
         \A k \in Keys : ~ CounterChanged(OrNew(m.entries[k], NewCounter))
  PROVE  ~ CounterMapChanged(m)
<1>1. \A k \in Keys : CounterMapUpdated(m)[k] = Absent
  BY DEF CounterMapUpdated, Has, OrNew
<1> QED BY <1>1 DEF CounterMapChanged, KeyedChanged

(* Between replicas without changes the relation is that they show the same. *)
LEMMA CounterMapSame ==
  ASSUME NEW m \in KeyedType(CounterType), NEW p \in KeyedType(CounterType), ~ CounterMapChanged(m)
  PROVE  CounterMapRel(m, p) <=>
           \A k \in Keys : OrNew(m.entries[k], NewCounter).value = OrNew(p.entries[k], NewCounter).value
<1>1. \A k \in Keys : Kept(p, m)[k] = p.entries[k] /\ p.entries[k] \in OrAbsent(CounterType)
  BY CounterMapClean DEF Kept, KeyedType
<1>2. \A k \in Keys : CounterEntryRel(m.entries[k], p.entries[k]) <=>
        OrNew(m.entries[k], NewCounter).value = OrNew(p.entries[k], NewCounter).value
  BY <1>1, CounterMapClean, CounterEntry, CounterClean DEF CounterEntryRel
<1> QED BY <1>1, <1>2 DEF CounterMapRel

LEMMA CounterMapExchange ==
  ASSUME NEW m \in KeyedType(CounterType), NEW p \in KeyedType(CounterType),
         CounterMapRel(m, p), ~ CounterMapChanged(p)
  PROVE  LET n == CounterMapReset(m)
             q == CounterMapApply(p, CounterMapDelta(m))
         IN  /\ n \in KeyedType(CounterType) /\ q \in KeyedType(CounterType)
             /\ ~ CounterMapChanged(n) /\ ~ CounterMapChanged(q)
             /\ \A k \in Keys : /\ OrNew(n.entries[k], NewCounter).value = OrNew(m.entries[k], NewCounter).value
                                /\ OrNew(q.entries[k], NewCounter).value = OrNew(m.entries[k], NewCounter).value
<1> DEFINE n == CounterMapReset(m)
           q == CounterMapApply(p, CounterMapDelta(m))
           reset == [k \in Keys |-> IF Has(m, k) THEN CounterReset(m.entries[k]) ELSE Absent]
           applied == [k \in Keys |->
             LET kept == Kept(p, m)[k] IN
             IF CounterMapUpdated(m)[k] = Absent THEN kept
             ELSE CounterApply(IF kept = Absent THEN NewCounter ELSE kept, CounterMapUpdated(m)[k])]
<1>1. ASSUME NEW k \in Keys
      PROVE  /\ reset[k] \in OrAbsent(CounterType) /\ ~ CounterChanged(OrNew(reset[k], NewCounter))
             /\ OrNew(reset[k], NewCounter).value = OrNew(m.entries[k], NewCounter).value
  <2>1. m.entries[k] \in OrAbsent(CounterType)
    BY DEF KeyedType
  <2>2. CASE Has(m, k)
    <3>1. m.entries[k] \in CounterType /\ reset[k] = CounterReset(m.entries[k]) /\ m.entries[k] # Absent
      BY <2>1, <2>2 DEF Has, OrAbsent
    <3>2. reset[k] \in CounterType /\ ~ CounterChanged(reset[k]) /\ reset[k].value = m.entries[k].value
      BY <3>1 DEF CounterReset, CounterChanged, CounterType
    <3>3. reset[k] # Absent
      BY <3>2, AbsentIsNoObject
    <3> QED BY <3>1, <3>2, <3>3 DEF OrAbsent, OrNew
  <2>3. CASE ~ Has(m, k)
    BY <2>3, NewCounterIs DEF Has, OrAbsent, OrNew
  <2> QED BY <2>2, <2>3
<1>2. ASSUME NEW k \in Keys
      PROVE  /\ applied[k] \in OrAbsent(CounterType) /\ ~ CounterChanged(OrNew(applied[k], NewCounter))
             /\ OrNew(applied[k], NewCounter).value = OrNew(m.entries[k], NewCounter).value
  <2> DEFINE kept == Kept(p, m)[k]
             c == OrNew(m.entries[k], NewCounter)
             b == OrNew(kept, NewCounter)
  <2>1. kept \in OrAbsent(CounterType) /\ (kept = p.entries[k] \/ kept = Absent)
    BY KeptIs DEF Kept
  <2>2. m.entries[k] \in OrAbsent(CounterType) /\ c \in CounterType /\ b \in CounterType
    BY <2>1, CounterEntry DEF KeyedType
  <2>3. ~ CounterChanged(b)
    BY <2>1, CounterMapClean, NewCounterIs DEF OrNew
  <2>4. CounterRel(c, b.value)
    BY DEF CounterMapRel, CounterEntryRel
  <2>5. CASE CounterMapUpdated(m)[k] = Absent
    <3>1. ~ CounterChanged(c)
      <4>1. [change |-> m.entries[k].delta] # Absent
        BY DEF Absent
      <4> QED BY <2>5, <4>1, NewCounterIs DEF CounterMapUpdated, CounterDelta, Has, OrNew
    <3>2. c.value = b.value
      BY <2>2, <2>4, <3>1, CounterClean DEF CounterType
    <3> QED BY <2>1, <2>3, <2>5, <3>2
  <2>6. CASE CounterMapUpdated(m)[k] # Absent
    <3>1. CounterMapUpdated(m)[k] = CounterDelta(c)
      BY <2>6 DEF CounterMapUpdated, Has, OrNew
    <3>2. applied[k] = CounterApply(b, CounterDelta(c))
      BY <2>6, <3>1 DEF OrNew
    <3>3. applied[k] \in CounterType /\ ~ CounterChanged(applied[k]) /\ applied[k].value = c.value
      BY <2>2, <2>3, <2>4, <3>2, CounterExchange
    <3>4. applied[k] # Absent
      BY <3>3, AbsentIsNoObject
    <3> QED BY <3>3, <3>4 DEF OrNew, OrAbsent
  <2> QED BY <2>5, <2>6
<1>3. n = KeyedReset(reset)
  BY DEF CounterMapReset
<1>4. q = [p EXCEPT !.entries = applied]
  <2>1. /\ CounterMapDelta(m).updated = CounterMapUpdated(m)
        /\ Kept(p, CounterMapDelta(m)) = Kept(p, m)
    BY DEF CounterMapDelta, KeyedDelta, Kept
  <2> QED BY <2>1 DEF CounterMapApply
<1>5. reset \in [Keys -> OrAbsent(CounterType)] /\ applied \in [Keys -> OrAbsent(CounterType)]
  BY <1>1, <1>2
<1> HIDE DEF reset, applied
<1>6. n \in KeyedType(CounterType) /\ n.entries = reset /\ n.removed = {} /\ ~ n.cleared
  BY <1>3, <1>5, KeyedResetIs
<1>7. q \in KeyedType(CounterType) /\ q.entries = applied /\ q.removed = p.removed /\ q.cleared = p.cleared
  BY <1>4, <1>5, AppliedIs
<1> HIDE DEF n, q
<1>8. ~ CounterMapChanged(n)
  BY <1>1, <1>6, CounterMapIsClean
<1>9. ~ CounterMapChanged(q)
  <2>1. CASE Keys = {}
    BY <1>7, <2>1 DEF CounterMapChanged, KeyedChanged
  <2>2. CASE Keys # {}
    BY <1>2, <1>7, <2>2, CounterMapIsClean, CounterMapClean
  <2> QED BY <2>1, <2>2
<1> QED BY <1>1, <1>2, <1>6, <1>7, <1>8, <1>9 DEF n, q

----------------------------------------------------------------------------
(* Multimaps. *)
LEMMA NewSetIs == NewSet \in SetType /\ NewSet.value = {} /\ ~ SetChanged(NewSet)
BY DEF NewSet, SetType, SetChanged

SetEntryRel(e, b) == SetRel(OrNew(e, NewSet), OrNew(b, NewSet).value)
MultiMapRel(m, p) == \A k \in Keys : SetEntryRel(m.entries[k], Kept(p, m)[k])

LEMMA SetEntry ==
  ASSUME NEW e \in OrAbsent(SetType)
  PROVE  OrNew(e, NewSet) \in SetType /\ OrNew(e, NewSet).value \in SUBSET Elements
BY NewSetIs DEF OrAbsent, OrNew, SetType

LEMMA MultiMapPutAllKeeps ==
  ASSUME NEW m \in KeyedType(SetType), NEW p \in KeyedType(SetType), NEW k \in Keys, NEW n \in SUBSET Elements,
         MultiMapRel(m, p)
  PROVE  MultiMapPutAll(m, k, n) \in KeyedType(SetType) /\ MultiMapRel(MultiMapPutAll(m, k, n), p)
<1> DEFINE e == Entry(m, k, NewSet)
           new == SetAddAll(e, n)
<1>1. m.entries[k] \in OrAbsent(SetType) /\ e = OrNew(m.entries[k], NewSet)
  BY DEF KeyedType, Entry, Has, OrNew
<1>2. OrNew(Kept(p, m)[k], NewSet).value \in SUBSET Elements /\ e \in SetType
  BY <1>1, KeptIs, SetEntry
<1>3. SetRel(e, OrNew(Kept(p, m)[k], NewSet).value)
  BY <1>1 DEF MultiMapRel, SetEntryRel
<1> HIDE DEF e
<1>4. new \in SetType /\ SetRel(new, OrNew(Kept(p, m)[k], NewSet).value)
  BY <1>2, <1>3, SetAddAllKeeps
<1>5. new # Absent
  BY <1>4, AbsentIsNoObject
<1>6. MultiMapPutAll(m, k, n) = WithEntry(m, k, new)
  BY DEF MultiMapPutAll, WithEntry, e
<1> HIDE DEF new
<1> DEFINE after == WithEntry(m, k, new)
<1>7. /\ after \in KeyedType(SetType) /\ after.entries[k] = new
      /\ \A j \in Keys : j # k => after.entries[j] = m.entries[j]
      /\ Kept(p, after) = Kept(p, m)
  BY <1>4, EntrySet
<1> HIDE DEF after
<1>8. MultiMapRel(after, p)
  <2> SUFFICES ASSUME NEW j \in Keys PROVE SetEntryRel(after.entries[j], Kept(p, after)[j])
    BY DEF MultiMapRel
  <2>1. CASE j = k
    BY <1>4, <1>5, <1>7, <2>1 DEF SetEntryRel, OrNew
  <2>2. CASE j # k
    BY <1>7, <2>2 DEF MultiMapRel
  <2> QED BY <2>1, <2>2
<1> QED BY <1>6, <1>7, <1>8 DEF after

LEMMA MultiMapDeletes ==
  ASSUME NEW m, NEW n, NEW p, MultiMapRel(m, p),
         \A j \in Keys : Untouched(m, n, p, j) \/ Gone(n, p, j)
  PROVE  MultiMapRel(n, p)
<1>1. SetEntryRel(Absent, Absent)
  BY NewSetIs DEF SetEntryRel, OrNew, SetRel, SetBase, NewSet
<1> QED BY <1>1 DEF MultiMapRel, Untouched, Gone

LEMMA MultiMapClean ==
  ASSUME NEW m \in KeyedType(SetType), ~ MultiMapChanged(m), NEW k \in Keys
  PROVE  /\ m.removed = {} /\ ~ m.cleared /\ m.entries[k] \in OrAbsent(SetType)
         /\ ~ SetChanged(OrNew(m.entries[k], NewSet))
<1>1. m.removed = {} /\ ~ m.cleared /\ MultiMapUpdated(m)[k] = Absent
  BY DEF MultiMapChanged, KeyedChanged, KeyedType
<1>2. CASE Has(m, k) /\ SetChanged(m.entries[k])
  <2>1. MultiMapUpdated(m)[k] = SetDelta(m.entries[k])
    BY <1>2 DEF MultiMapUpdated
  <2>2. SetDelta(m.entries[k]) # Absent
    BY DEF Absent, SetDelta
  <2> QED BY <1>1, <2>1, <2>2
<1>3. CASE ~ (Has(m, k) /\ SetChanged(m.entries[k]))
  BY <1>1, <1>3, NewSetIs DEF KeyedType, Has, OrNew
<1> QED BY <1>2, <1>3

LEMMA MultiMapIsClean ==
  ASSUME NEW m \in KeyedType(SetType), m.removed = {}, ~ m.cleared,
         \A k \in Keys : ~ SetChanged(OrNew(m.entries[k], NewSet))
  PROVE  ~ MultiMapChanged(m)
<1>1. \A k \in Keys : MultiMapUpdated(m)[k] = Absent
  BY DEF MultiMapUpdated, Has, OrNew
<1> QED BY <1>1 DEF MultiMapChanged, KeyedChanged

(* Between replicas without changes the relation is that they show the same. *)
LEMMA MultiMapSame ==
  ASSUME NEW m \in KeyedType(SetType), NEW p \in KeyedType(SetType), ~ MultiMapChanged(m)
  PROVE  MultiMapRel(m, p) <=>
           \A k \in Keys : OrNew(m.entries[k], NewSet).value = OrNew(p.entries[k], NewSet).value
<1>1. \A k \in Keys : Kept(p, m)[k] = p.entries[k] /\ p.entries[k] \in OrAbsent(SetType)
  BY MultiMapClean DEF Kept, KeyedType
<1>2. \A k \in Keys : SetEntryRel(m.entries[k], p.entries[k]) <=>
        OrNew(m.entries[k], NewSet).value = OrNew(p.entries[k], NewSet).value
  BY <1>1, MultiMapClean, SetEntry, SetClean DEF SetEntryRel
<1> QED BY <1>1, <1>2 DEF MultiMapRel

LEMMA MultiMapExchange ==
  ASSUME NEW m \in KeyedType(SetType), NEW p \in KeyedType(SetType),
         MultiMapRel(m, p), ~ MultiMapChanged(p)
  PROVE  LET n == MultiMapReset(m)
             q == MultiMapApply(p, MultiMapDelta(m))
         IN  /\ n \in KeyedType(SetType) /\ q \in KeyedType(SetType)
             /\ ~ MultiMapChanged(n) /\ ~ MultiMapChanged(q)
             /\ \A k \in Keys : /\ OrNew(n.entries[k], NewSet).value = OrNew(m.entries[k], NewSet).value
                                /\ OrNew(q.entries[k], NewSet).value = OrNew(m.entries[k], NewSet).value
<1> DEFINE n == MultiMapReset(m)
           q == MultiMapApply(p, MultiMapDelta(m))
           reset == [k \in Keys |-> IF Has(m, k) THEN SetReset(m.entries[k]) ELSE Absent]
           applied == [k \in Keys |->
             LET kept == Kept(p, m)[k] IN
             IF MultiMapUpdated(m)[k] = Absent THEN kept
             ELSE SetApply(IF kept = Absent THEN NewSet ELSE kept, MultiMapUpdated(m)[k])]
<1>1. ASSUME NEW k \in Keys
      PROVE  /\ reset[k] \in OrAbsent(SetType) /\ ~ SetChanged(OrNew(reset[k], NewSet))
             /\ OrNew(reset[k], NewSet).value = OrNew(m.entries[k], NewSet).value
  <2>1. m.entries[k] \in OrAbsent(SetType)
    BY DEF KeyedType
  <2>2. CASE Has(m, k)
    <3>1. m.entries[k] \in SetType /\ reset[k] = SetReset(m.entries[k]) /\ m.entries[k] # Absent
      BY <2>1, <2>2 DEF Has, OrAbsent
    <3>2. reset[k] \in SetType /\ ~ SetChanged(reset[k]) /\ reset[k].value = m.entries[k].value
      BY <3>1 DEF SetReset, SetChanged, SetType, NewSet
    <3>3. reset[k] # Absent
      BY <3>2, AbsentIsNoObject
    <3> QED BY <3>1, <3>2, <3>3 DEF OrAbsent, OrNew
  <2>3. CASE ~ Has(m, k)
    BY <2>3, NewSetIs DEF Has, OrAbsent, OrNew
  <2> QED BY <2>2, <2>3
<1>2. ASSUME NEW k \in Keys
      PROVE  /\ applied[k] \in OrAbsent(SetType) /\ ~ SetChanged(OrNew(applied[k], NewSet))
             /\ OrNew(applied[k], NewSet).value = OrNew(m.entries[k], NewSet).value
  <2> DEFINE kept == Kept(p, m)[k]
             c == OrNew(m.entries[k], NewSet)
             b == OrNew(kept, NewSet)
  <2>1. kept \in OrAbsent(SetType) /\ (kept = p.entries[k] \/ kept = Absent)
    BY KeptIs DEF Kept
  <2>2. m.entries[k] \in OrAbsent(SetType) /\ c \in SetType /\ b \in SetType
    BY <2>1, SetEntry DEF KeyedType
  <2>3. ~ SetChanged(b)
    BY <2>1, MultiMapClean, NewSetIs DEF OrNew
  <2>4. SetRel(c, b.value)
    BY DEF MultiMapRel, SetEntryRel
  <2>5. CASE MultiMapUpdated(m)[k] = Absent
    <3>1. ~ SetChanged(c)
      <4>1. SetDelta(m.entries[k]) # Absent
        BY DEF Absent, SetDelta
      <4> QED BY <2>5, <4>1, NewSetIs DEF MultiMapUpdated, Has, OrNew
    <3>2. c.value = b.value
      BY <2>2, <2>4, <3>1, SetClean DEF SetType
    <3> QED BY <2>1, <2>3, <2>5, <3>2
  <2>6. CASE MultiMapUpdated(m)[k] # Absent
    <3>1. MultiMapUpdated(m)[k] = SetDelta(c)
      BY <2>6 DEF MultiMapUpdated, Has, OrNew
    <3>2. applied[k] = SetApply(b, SetDelta(c))
      BY <2>6, <3>1 DEF OrNew
    <3>3. applied[k] \in SetType /\ ~ SetChanged(applied[k]) /\ applied[k].value = c.value
      BY <2>2, <2>3, <2>4, <3>2, SetExchange
    <3>4. applied[k] # Absent
      BY <3>3, AbsentIsNoObject
    <3> QED BY <3>3, <3>4 DEF OrNew, OrAbsent
  <2> QED BY <2>5, <2>6
<1>3. n = KeyedReset(reset)
  BY DEF MultiMapReset
<1>4. q = [p EXCEPT !.entries = applied]
  <2>1. /\ MultiMapDelta(m).updated = MultiMapUpdated(m)
        /\ Kept(p, MultiMapDelta(m)) = Kept(p, m)
    BY DEF MultiMapDelta, KeyedDelta, Kept
  <2> QED BY <2>1 DEF MultiMapApply
<1>5. reset \in [Keys -> OrAbsent(SetType)] /\ applied \in [Keys -> OrAbsent(SetType)]
  BY <1>1, <1>2
<1> HIDE DEF reset, applied
<1>6. n \in KeyedType(SetType) /\ n.entries = reset /\ n.removed = {} /\ ~ n.cleared
  BY <1>3, <1>5, KeyedResetIs
<1>7. q \in KeyedType(SetType) /\ q.entries = applied /\ q.removed = p.removed /\ q.cleared = p.cleared
  BY <1>4, <1>5, AppliedIs
<1> HIDE DEF n, q
<1>8. ~ MultiMapChanged(n)
  BY <1>1, <1>6, MultiMapIsClean
<1>9. ~ MultiMapChanged(q)
  <2>1. CASE Keys = {}
    BY <1>7, <2>1 DEF MultiMapChanged, KeyedChanged
  <2>2. CASE Keys # {}
    BY <1>2, <1>7, <2>2, MultiMapIsClean, MultiMapClean
  <2> QED BY <2>1, <2>2
<1> QED BY <1>1, <1>2, <1>6, <1>7, <1>8, <1>9 DEF n, q


LEMMA MultiMapDeleteKeeps ==
  ASSUME NEW m \in KeyedType(SetType), NEW p \in KeyedType(SetType), NEW k \in Keys,
         NEW x \in Elements, MultiMapRel(m, p)
  PROVE  MultiMapDelete(m, k, x) \in KeyedType(SetType) /\ MultiMapRel(MultiMapDelete(m, k, x), p)
<1> DEFINE e == m.entries[k]
           new == SetDelete(e, x)
           base == OrNew(Kept(p, m)[k], NewSet).value
<1>1. CASE ~ Has(m, k)
  BY <1>1 DEF MultiMapDelete
<1>2. CASE Has(m, k) /\ new.value = {}
  <2>1. MultiMapDelete(m, k, x) = KeyedDelete(m, k)
    BY <1>2 DEF MultiMapDelete
  <2> QED BY <2>1, KeyedDeleteIs, MultiMapDeletes
<1>3. CASE Has(m, k) /\ new.value # {}
  <2>1. e \in SetType /\ e = OrNew(m.entries[k], NewSet) /\ base \in SUBSET Elements
    BY <1>3, KeptIs, SetEntry DEF KeyedType, Has, OrNew, OrAbsent
  <2>2. SetRel(e, base)
    BY <2>1 DEF MultiMapRel, SetEntryRel
  <2> HIDE DEF e, base
  <2>3. new \in SetType /\ SetRel(new, base)
    BY <2>1, <2>2, SetDeleteKeeps
  <2>4. MultiMapDelete(m, k, x) = WithEntry(m, k, new)
    BY <1>3 DEF MultiMapDelete, WithEntry, e
  <2>5. new # Absent
    BY <2>3, AbsentIsNoObject
  <2> HIDE DEF new
  <2> DEFINE after == WithEntry(m, k, new)
  <2>6. /\ after \in KeyedType(SetType) /\ after.entries[k] = new
        /\ \A j \in Keys : j # k => after.entries[j] = m.entries[j]
        /\ Kept(p, after) = Kept(p, m)
    BY <2>3, EntrySet
  <2> HIDE DEF after
  <2>7. SetEntryRel(after.entries[k], Kept(p, after)[k])
    BY <2>3, <2>5, <2>6 DEF SetEntryRel, OrNew, base
  <2>8. \A j \in Keys : j # k => SetEntryRel(after.entries[j], Kept(p, after)[j])
    BY <2>6 DEF MultiMapRel
  <2>9. MultiMapRel(after, p)
    BY <2>7, <2>8 DEF MultiMapRel
  <2> QED BY <2>4, <2>6, <2>9 DEF after
<1> QED BY <1>1, <1>2, <1>3

----------------------------------------------------------------------------
(* Registers, and register maps. *)
RegisterRel(r, v) == IF r.delta = Absent THEN r.value = v ELSE r.delta = r.value

ShownOf(e) == IF e = Absent THEN Absent ELSE e.value

(* A changed register sends its value; an unchanged one shows what the     *)
(* replica it follows shows, which has none where this one has none.       *)
RegisterEntryRel(e, b) ==
  IF e # Absent /\ e.delta # Absent THEN e.delta = e.value ELSE ShownOf(e) = ShownOf(b)
RegisterMapRel(m, p) == \A k \in Keys : RegisterEntryRel(m.entries[k], Kept(p, m)[k])

LEMMA RegisterIs ==
  /\ \A v \in Values \cup {EmptyObject} :
       /\ v # Absent /\ NewRegister(v) \in RegisterType
       /\ NewRegister(v).value = v /\ NewRegister(v).delta = v
  /\ \A r \in RegisterType :
       /\ r.value # Absent /\ r # Absent
       /\ RegisterReset(r) \in RegisterType /\ RegisterReset(r).value = r.value
       /\ RegisterReset(r).delta = Absent
       /\ r.value \in Values \cup {EmptyObject}
       /\ r.delta \in Values \cup {EmptyObject} \/ r.delta = Absent
  /\ \A r \in RegisterType, d \in Values \cup {EmptyObject} :
       /\ RegisterApply(r, d) \in RegisterType /\ RegisterApply(r, d).value = d
       /\ RegisterApply(r, d).delta = Absent
<1>1. Absent \notin Values \cup {EmptyObject}
  BY DataAssumption
<1> QED BY <1>1, AbsentIsNoObject DEF NewRegister, RegisterType, OrAbsent, RegisterReset, RegisterApply

LEMMA RegisterMapPutKeeps ==
  ASSUME NEW m \in KeyedType(RegisterType), NEW p, NEW k \in Keys,
         NEW v \in Values \cup {EmptyObject}, RegisterMapRel(m, p)
  PROVE  /\ WithEntry(m, k, NewRegister(v)) \in KeyedType(RegisterType)
         /\ RegisterMapRel(WithEntry(m, k, NewRegister(v)), p)
<1> DEFINE new == NewRegister(v)
<1>1. new \in RegisterType /\ new # Absent /\ new.delta # Absent /\ new.delta = new.value
  BY RegisterIs
<1> HIDE DEF new
<1> DEFINE after == WithEntry(m, k, new)
<1>2. /\ after \in KeyedType(RegisterType) /\ after.entries[k] = new
      /\ \A j \in Keys : j # k => after.entries[j] = m.entries[j]
      /\ Kept(p, after) = Kept(p, m)
  BY <1>1, EntrySet
<1> HIDE DEF after
<1>3. RegisterEntryRel(after.entries[k], Kept(p, after)[k])
  BY <1>1, <1>2 DEF RegisterEntryRel
<1>4. \A j \in Keys : j # k => RegisterEntryRel(after.entries[j], Kept(p, after)[j])
  BY <1>2 DEF RegisterMapRel
<1>5. RegisterMapRel(after, p)
  BY <1>3, <1>4 DEF RegisterMapRel
<1> QED BY <1>2, <1>5 DEF after, new

LEMMA RegisterMapSetKeeps ==
  ASSUME NEW m \in KeyedType(RegisterType), NEW p, NEW k \in Keys, NEW v \in Values,
         RegisterMapRel(m, p)
  PROVE  RegisterMapSet(m, k, v) \in KeyedType(RegisterType) /\ RegisterMapRel(RegisterMapSet(m, k, v), p)
<1>1. RegisterMapSet(m, k, v) = WithEntry(m, k, NewRegister(v))
  BY DEF RegisterMapSet, WithEntry
<1> QED BY <1>1, RegisterMapPutKeeps

LEMMA RegisterMapSetThrowsKeeps ==
  ASSUME NEW m \in KeyedType(RegisterType), NEW p, NEW k \in Keys, RegisterMapRel(m, p)
  PROVE  /\ RegisterMapSetThrows(m, k) \in KeyedType(RegisterType)
         /\ RegisterMapRel(RegisterMapSetThrows(m, k), p)
<1>1. CASE ~ Has(m, k)
  <2>1. RegisterMapSetThrows(m, k) = WithEntry(m, k, NewRegister(EmptyObject))
    BY <1>1 DEF RegisterMapSetThrows, WithEntry, Entry
  <2> QED BY <2>1, RegisterMapPutKeeps
<1>2. CASE Has(m, k)
  <2>1. RegisterMapSetThrows(m, k) = [m EXCEPT !.entries[k] = m.entries[k]]
    BY <1>2 DEF RegisterMapSetThrows, Entry
  <2>2. RegisterMapSetThrows(m, k) = m
    BY <2>1 DEF KeyedType
  <2> QED BY <2>2
<1> QED BY <1>1, <1>2

LEMMA RegisterMapDeletes ==
  ASSUME NEW m, NEW n, NEW p, RegisterMapRel(m, p),
         \A j \in Keys : Untouched(m, n, p, j) \/ Gone(n, p, j)
  PROVE  RegisterMapRel(n, p)
<1>1. RegisterEntryRel(Absent, Absent)
  BY DEF RegisterEntryRel, ShownOf
<1> QED BY <1>1 DEF RegisterMapRel, Untouched, Gone

RegisterQuiet(e) == e = Absent \/ e.delta = Absent

LEMMA RegisterMapClean ==
  ASSUME NEW m \in KeyedType(RegisterType), ~ RegisterMapChanged(m), NEW k \in Keys
  PROVE  /\ m.removed = {} /\ ~ m.cleared /\ m.entries[k] \in OrAbsent(RegisterType)
         /\ RegisterQuiet(m.entries[k])
<1>1. m.removed = {} /\ ~ m.cleared /\ RegisterMapUpdated(m)[k] = Absent
  BY DEF RegisterMapChanged, KeyedChanged, KeyedType
<1>2. Has(m, k) /\ RegisterChanged(m.entries[k]) => RegisterMapUpdated(m)[k] = m.entries[k].delta
  BY DEF RegisterMapUpdated, RegisterDelta
<1> QED BY <1>1, <1>2 DEF RegisterQuiet, RegisterChanged, Has, KeyedType

LEMMA RegisterMapIsClean ==
  ASSUME NEW m \in KeyedType(RegisterType), m.removed = {}, ~ m.cleared,
         \A k \in Keys : RegisterQuiet(m.entries[k])
  PROVE  ~ RegisterMapChanged(m)
<1>1. \A k \in Keys : RegisterMapUpdated(m)[k] = Absent
  BY DEF RegisterMapUpdated, Has, RegisterQuiet, RegisterChanged
<1> QED BY <1>1 DEF RegisterMapChanged, KeyedChanged

LEMMA RegisterMapSame ==
  ASSUME NEW m \in KeyedType(RegisterType), NEW p \in KeyedType(RegisterType), ~ RegisterMapChanged(m)
  PROVE  RegisterMapRel(m, p) <=>
           \A k \in Keys : ShownOf(m.entries[k]) = ShownOf(p.entries[k])
<1>1. \A k \in Keys : Kept(p, m)[k] = p.entries[k]
  BY RegisterMapClean DEF Kept, KeyedType
<1>2. \A k \in Keys : RegisterEntryRel(m.entries[k], p.entries[k]) <=>
        ShownOf(m.entries[k]) = ShownOf(p.entries[k])
  BY RegisterMapClean DEF RegisterEntryRel, RegisterQuiet
<1> QED BY <1>1, <1>2 DEF RegisterMapRel

LEMMA RegisterMapExchange ==
  ASSUME NEW m \in KeyedType(RegisterType), NEW p \in KeyedType(RegisterType),
         RegisterMapRel(m, p), ~ RegisterMapChanged(p)
  PROVE  LET n == RegisterMapReset(m)
             q == RegisterMapApply(p, RegisterMapDelta(m))
         IN  /\ n \in KeyedType(RegisterType) /\ q \in KeyedType(RegisterType)
             /\ ~ RegisterMapChanged(n) /\ ~ RegisterMapChanged(q)
             /\ \A k \in Keys : /\ ShownOf(n.entries[k]) = ShownOf(m.entries[k])
                                /\ ShownOf(q.entries[k]) = ShownOf(m.entries[k])
<1> DEFINE n == RegisterMapReset(m)
           q == RegisterMapApply(p, RegisterMapDelta(m))
           reset == [k \in Keys |-> IF Has(m, k) THEN RegisterReset(m.entries[k]) ELSE Absent]
           applied == [k \in Keys |->
             LET kept == Kept(p, m)[k] IN
             IF RegisterMapUpdated(m)[k] = Absent THEN kept
             ELSE RegisterApply(IF kept = Absent THEN NewRegister(EmptyObject) ELSE kept,
                                RegisterMapUpdated(m)[k])]
<1>1. ASSUME NEW k \in Keys
      PROVE  /\ reset[k] \in OrAbsent(RegisterType) /\ RegisterQuiet(reset[k])
             /\ ShownOf(reset[k]) = ShownOf(m.entries[k])
  <2>1. CASE Has(m, k)
    <3>1. m.entries[k] \in RegisterType /\ reset[k] = RegisterReset(m.entries[k])
      BY <2>1 DEF Has, OrAbsent, KeyedType
    <3>2. reset[k] \in RegisterType /\ reset[k].delta = Absent /\ reset[k].value = m.entries[k].value
          /\ reset[k] # Absent /\ m.entries[k] # Absent
      BY <3>1, RegisterIs
    <3> HIDE DEF reset
    <3> QED BY <3>2 DEF OrAbsent, ShownOf, RegisterQuiet
  <2>2. CASE ~ Has(m, k)
    BY <2>2 DEF Has, OrAbsent, ShownOf, RegisterQuiet
  <2> QED BY <2>1, <2>2
<1>2. ASSUME NEW k \in Keys
      PROVE  /\ applied[k] \in OrAbsent(RegisterType) /\ RegisterQuiet(applied[k])
             /\ ShownOf(applied[k]) = ShownOf(m.entries[k])
  <2> DEFINE kept == Kept(p, m)[k]
             e == m.entries[k]
             d == RegisterMapUpdated(m)[k]
  <2>1. kept \in OrAbsent(RegisterType) /\ (kept = p.entries[k] \/ kept = Absent)
    BY KeptIs DEF Kept
  <2>2. e \in OrAbsent(RegisterType) /\ RegisterQuiet(kept) /\ RegisterEntryRel(e, kept)
    BY <2>1, RegisterMapClean DEF KeyedType, RegisterQuiet, RegisterMapRel
  <2>3. d = IF e # Absent /\ e.delta # Absent THEN e.delta ELSE Absent
    BY DEF RegisterMapUpdated, RegisterDelta, RegisterChanged, Has
  <2>4. applied[k] = IF d = Absent THEN kept
                     ELSE RegisterApply(IF kept = Absent THEN NewRegister(EmptyObject) ELSE kept, d)
    OBVIOUS
  <2> HIDE DEF kept, e, d, applied
  <2>5. CASE d = Absent
    BY <2>1, <2>2, <2>3, <2>4, <2>5 DEF RegisterEntryRel, e
  <2>6. CASE d # Absent
    <3>1. e \in RegisterType /\ d = e.value /\ d \in Values \cup {EmptyObject}
      BY <2>2, <2>3, <2>6, RegisterIs DEF RegisterEntryRel, OrAbsent
    <3>2. (IF kept = Absent THEN NewRegister(EmptyObject) ELSE kept) \in RegisterType
      BY <2>1, RegisterIs DEF OrAbsent
    <3>3. applied[k] \in RegisterType /\ applied[k].value = d /\ applied[k].delta = Absent
      BY <2>4, <2>6, <3>1, <3>2, RegisterIs
    <3>4. applied[k] # Absent /\ e # Absent
      BY <3>1, <3>3, AbsentIsNoObject
    <3>5. ShownOf(applied[k]) = ShownOf(e)
      BY <3>1, <3>3, <3>4 DEF ShownOf
    <3> QED BY <3>3, <3>5 DEF OrAbsent, RegisterQuiet, e
  <2> QED BY <2>5, <2>6
<1>3. n = KeyedReset(reset)
  BY DEF RegisterMapReset
<1>4. q = [p EXCEPT !.entries = applied]
  <2>1. /\ RegisterMapDelta(m).updated = RegisterMapUpdated(m)
        /\ Kept(p, RegisterMapDelta(m)) = Kept(p, m)
    BY DEF RegisterMapDelta, KeyedDelta, Kept
  <2> QED BY <2>1 DEF RegisterMapApply
<1>5. reset \in [Keys -> OrAbsent(RegisterType)] /\ applied \in [Keys -> OrAbsent(RegisterType)]
  BY <1>1, <1>2
<1> HIDE DEF reset, applied
<1>6. n \in KeyedType(RegisterType) /\ n.entries = reset /\ n.removed = {} /\ ~ n.cleared
  BY <1>3, <1>5, KeyedResetIs
<1>7. q \in KeyedType(RegisterType) /\ q.entries = applied /\ q.removed = p.removed /\ q.cleared = p.cleared
  BY <1>4, <1>5, AppliedIs
<1> HIDE DEF n, q
<1>8. ~ RegisterMapChanged(n)
  BY <1>1, <1>6, RegisterMapIsClean
<1>9. ~ RegisterMapChanged(q)
  <2>1. CASE Keys = {}
    BY <1>7, <2>1 DEF RegisterMapChanged, KeyedChanged
  <2>2. CASE Keys # {}
    BY <1>2, <1>7, <2>2, RegisterMapIsClean, RegisterMapClean
  <2> QED BY <2>1, <2>2
<1> QED BY <1>1, <1>2, <1>6, <1>7, <1>8, <1>9 DEF n, q

----------------------------------------------------------------------------
(* Maps of counters. *)
MapFits(m) == \A k \in m.added : Has(m, k)

(* A key in added is a new one for the replica that follows; of any other  *)
(* the two have a counter or neither has.                                  *)
MapEntryRel(e, isNew, b) ==
  /\ isNew => b = Absent /\ e # Absent /\ e.value = e.delta
  /\ ~ isNew => /\ e = Absent <=> b = Absent
                /\ e # Absent => CounterRel(e, b.value)
MapRel(m, p) == \A k \in Keys : MapEntryRel(m.entries[k], k \in m.added, Kept(p, m)[k])

(* n differs from m in what is known of key k only. *)
AtKey(m, n, p, k) ==
  \A j \in Keys \ {k} : /\ n.entries[j] = m.entries[j] /\ (j \in n.added <=> j \in m.added)
                        /\ Kept(p, n)[j] = Kept(p, m)[j]

LEMMA MapAtKeyKeeps ==
  ASSUME NEW m, NEW n, NEW p, NEW k \in Keys, MapRel(m, p), AtKey(m, n, p, k),
         MapEntryRel(n.entries[k], k \in n.added, Kept(p, n)[k])
  PROVE  MapRel(n, p)
BY DEF MapRel, AtKey

LEMMA MapSetIs ==
  ASSUME NEW m \in MapType, MapFits(m), NEW p, NEW k \in Keys, NEW c \in CounterType,
         NEW n, n = MapSet(m, k, c)
  PROVE  /\ n \in MapType /\ MapFits(n) /\ AtKey(m, n, p, k)
         /\ n.entries[k] = c /\ k \in n.added
         /\ Kept(p, n)[k] = Absent
            \/ ((~ Has(m, k) \/ k \in m.added) /\ Kept(p, n)[k] = Kept(p, m)[k])
<1>1. /\ n \in MapType /\ n.entries[k] = c /\ n.added = m.added \cup {k}
      /\ n.removed = IF Has(m, k) /\ k \notin m.added THEN m.removed \cup {k} ELSE m.removed
      /\ n.cleared = m.cleared
      /\ \A j \in Keys : j # k => n.entries[j] = m.entries[j]
  BY DEF MapSet, MapType, OrAbsent
<1>2. c # Absent
  BY AbsentIsNoObject
<1>3. MapFits(n)
  BY <1>1, <1>2 DEF MapFits, Has, MapType
<1>4. AtKey(m, n, p, k)
  BY <1>1 DEF AtKey, Kept
<1>5. Kept(p, n)[k] = Absent
      \/ ((~ Has(m, k) \/ k \in m.added) /\ Kept(p, n)[k] = Kept(p, m)[k])
  BY <1>1 DEF Kept
<1> QED BY <1>1, <1>3, <1>4, <1>5

(* A counter that was not incremented before it was set. *)
LEMMA MapSetKeeps ==
  ASSUME NEW m \in MapType, NEW p, NEW k \in Keys, NEW c \in CounterType, MapFits(m),
         MapRel(m, p), c.value = c.delta
  PROVE  MapRel(MapSet(m, k, c), p)
<1> DEFINE n == MapSet(m, k, c)
<1>0. n = MapSet(m, k, c)
  OBVIOUS
<1> HIDE DEF n
<1>1. /\ AtKey(m, n, p, k) /\ n.entries[k] = c /\ k \in n.added
      /\ Kept(p, n)[k] = Absent
         \/ ((~ Has(m, k) \/ k \in m.added) /\ Kept(p, n)[k] = Kept(p, m)[k])
  BY <1>0, MapSetIs
<1>2. Kept(p, n)[k] = Absent
  BY <1>1 DEF MapRel, MapEntryRel, Has
<1>3. c # Absent
  BY AbsentIsNoObject
<1>4. MapRel(n, p)
  BY <1>1, <1>2, <1>3, MapAtKeyKeeps DEF MapEntryRel
<1> QED BY <1>4 DEF n

LEMMA MapIncrementKeeps ==
  ASSUME NEW m \in MapType, NEW p, NEW k \in Keys, NEW x \in Int, MapFits(m), Has(m, k)
  PROVE  /\ MapIncrement(m, k, x) \in MapType /\ MapFits(MapIncrement(m, k, x))
         /\ p \in MapType /\ MapRel(m, p) => MapRel(MapIncrement(m, k, x), p)
<1> DEFINE n == MapIncrement(m, k, x)
           e == m.entries[k]
           new == CounterIncrement(e, x)
<1>1. e \in CounterType /\ new \in CounterType /\ new.value = e.value + x /\ new.delta = e.delta + x
  BY DEF MapType, Has, OrAbsent, CounterType, CounterIncrement
<1> HIDE DEF new
<1>2. n = WithEntry(m, k, new)
  BY DEF MapIncrement, WithEntry, new
<1>3. /\ n \in MapType /\ n.entries[k] = new /\ n.added = m.added /\ n.removed = m.removed
      /\ n.cleared = m.cleared /\ \A j \in Keys : j # k => n.entries[j] = m.entries[j]
  BY <1>1, <1>2 DEF WithEntry, MapType, OrAbsent
<1> HIDE DEF n
<1>4. new # Absent /\ e # Absent
  BY <1>1, AbsentIsNoObject
<1>5. MapFits(n)
  BY <1>3, <1>4 DEF MapFits, Has, MapType
<1>6. ASSUME p \in MapType, MapRel(m, p) PROVE MapRel(n, p)
  <2>1. AtKey(m, n, p, k) /\ Kept(p, n)[k] = Kept(p, m)[k]
    BY <1>3 DEF AtKey, Kept
  <2> DEFINE b == Kept(p, m)[k]
  <2>2. MapEntryRel(e, k \in m.added, b)
    BY <1>6 DEF MapRel
  <2>3. b \in OrAbsent(CounterType)
    BY <1>6 DEF Kept, MapType, OrAbsent
  <2>4. b # Absent => b.value \in Int
    BY <2>3 DEF OrAbsent, CounterType
  <2>5. e.value \in Int /\ e.delta \in Int
    BY <1>1 DEF CounterType
  <2> HIDE DEF b, e
  <2>6. MapEntryRel(new, k \in m.added, b)
    BY <1>1, <1>4, <2>2, <2>4, <2>5 DEF MapEntryRel, CounterRel
  <2> QED BY <1>3, <1>6, <2>1, <2>6, MapAtKeyKeeps DEF b
<1> QED BY <1>3, <1>5, <1>6 DEF n

LEMMA MapDeleteKeeps ==
  ASSUME NEW m \in MapType, NEW p, NEW k \in Keys, MapFits(m)
  PROVE  /\ MapDelete(m, k) \in MapType /\ MapFits(MapDelete(m, k))
         /\ MapRel(m, p) => MapRel(MapDelete(m, k), p)
<1>1. CASE ~ Has(m, k)
  BY <1>1 DEF MapDelete
<1>2. CASE Has(m, k)
  <2> DEFINE n == MapDelete(m, k)
  <2>1. n = [m EXCEPT !.entries[k] = Absent, !.added = @ \ {k},
                      !.removed = IF k \in m.added THEN @ ELSE @ \cup {k}]
    BY <1>2 DEF MapDelete
  <2> DEFINE without == [m.entries EXCEPT ![k] = Absent]
  <2>a. /\ without \in [Keys -> OrAbsent(CounterType)] /\ without[k] = Absent
        /\ \A j \in Keys : j # k => without[j] = m.entries[j]
    BY DEF MapType, OrAbsent
  <2>b. n = [entries |-> without, added |-> m.added \ {k},
             removed |-> IF k \in m.added THEN m.removed ELSE m.removed \cup {k},
             cleared |-> m.cleared]
    BY <2>1 DEF MapType
  <2> HIDE DEF without
  <2>2. /\ n \in MapType /\ n.entries[k] = Absent /\ n.added = m.added \ {k}
        /\ n.removed = IF k \in m.added THEN m.removed ELSE m.removed \cup {k}
        /\ n.cleared = m.cleared /\ \A j \in Keys : j # k => n.entries[j] = m.entries[j]
    BY <2>a, <2>b DEF MapType
  <2> HIDE DEF n
  <2>3. MapFits(n)
    BY <2>2 DEF MapFits, Has, MapType
  <2>4. ASSUME MapRel(m, p) PROVE MapRel(n, p)
    <3>1. AtKey(m, n, p, k)
      BY <2>2 DEF AtKey, Kept
    <3>2. Kept(p, n)[k] = Absent
      BY <2>2, <2>4 DEF MapRel, MapEntryRel, Kept
    <3> QED BY <2>2, <2>4, <3>1, <3>2, MapAtKeyKeeps DEF MapEntryRel
  <2> QED BY <2>2, <2>3, <2>4 DEF n
<1> QED BY <1>1, <1>2

LEMMA MapClearKeeps ==
  ASSUME NEW m \in MapType, NEW p, MapFits(m)
  PROVE  /\ MapClear(m) \in MapType /\ MapFits(MapClear(m))
         /\ MapRel(m, p) => MapRel(MapClear(m), p)
<1> DEFINE n == [NewMap EXCEPT !.cleared = TRUE]
<1>1. MapClear(m) = m \/ MapClear(m) = n
  BY DEF MapClear
<1>2. n \in MapType /\ n.added = {} /\ n.cleared /\ \A j \in Keys : n.entries[j] = Absent
  BY DEF NewMap, MapType, OrAbsent
<1> HIDE DEF n
<1>3. MapFits(n)
  BY <1>2 DEF MapFits
<1>4. MapRel(n, p)
  BY <1>2 DEF MapRel, MapEntryRel, Kept
<1> QED BY <1>1, <1>2, <1>3, <1>4

MapQuiet(m) ==
  /\ m.added = {} /\ m.removed = {} /\ ~ m.cleared
  /\ \A k \in Keys : m.entries[k] # Absent => m.entries[k].delta = 0

LEMMA MapClean ==
  ASSUME NEW m \in MapType, MapFits(m)
  PROVE  ~ MapChanged(m) <=> MapQuiet(m)
<1>1. \A k \in Keys : CounterDelta(m.entries[k]) # Absent
  BY DEF CounterDelta, Absent
<1> DEFINE d == MapDelta(m)
<1>2. /\ d.cleared = m.cleared /\ d.removed = m.removed
      /\ \A k \in Keys : d.added[k] # Absent <=> Has(m, k) /\ k \in m.added
      /\ \A k \in Keys : d.updated[k] # Absent
           <=> Has(m, k) /\ k \notin m.added /\ CounterChanged(m.entries[k])
  BY <1>1 DEF MapDelta
<1>3. MapChanged(m) <=> \/ d.cleared \/ d.removed # {}
                        \/ \E k \in Keys : d.added[k] # Absent \/ d.updated[k] # Absent
  BY DEF MapChanged
<1> HIDE DEF d
<1> QED BY <1>2, <1>3 DEF MapQuiet, MapFits, MapType, Has, CounterChanged

(* Between replicas without changes: they have the same keys and values. *)
MapSame(m, p) ==
  \A k \in Keys : /\ m.entries[k] = Absent <=> p.entries[k] = Absent
                  /\ m.entries[k] # Absent => m.entries[k].value = p.entries[k].value

LEMMA MapQuietRel ==
  ASSUME NEW m \in MapType, NEW p \in MapType, MapQuiet(m)
  PROVE  MapRel(m, p) <=> MapSame(m, p)
<1>1. \A k \in Keys : /\ Kept(p, m)[k] = p.entries[k] /\ k \notin m.added
                      /\ p.entries[k] # Absent => p.entries[k].value \in Int
                      /\ m.entries[k] # Absent => m.entries[k].delta = 0
  BY DEF MapQuiet, Kept, MapType, OrAbsent, CounterType
<1> QED BY <1>1 DEF MapRel, MapEntryRel, MapSame, CounterRel

LEMMA MapExchange ==
  ASSUME NEW m \in MapType, NEW p \in MapType, MapFits(m), MapQuiet(p),
         NEW n, n = MapReset(m), NEW q, q = MapApply(p, MapDelta(m))
  PROVE  /\ n \in MapType /\ q \in MapType /\ MapQuiet(n) /\ MapQuiet(q)
         /\ MapRel(m, p) => MapSame(n, m) /\ MapSame(q, m)
<1> DEFINE d == MapDelta(m)
           base(k) == Kept(p, m)[k]
           reset == [k \in Keys |-> IF Has(m, k) THEN CounterReset(m.entries[k]) ELSE Absent]
           applied == [k \in Keys |->
             LET kept == Kept(p, d)[k] IN
             IF d.added[k] # Absent
             THEN CounterApply(IF kept = Absent THEN NewCounter ELSE kept, d.added[k])
             ELSE IF d.updated[k] # Absent /\ kept # Absent THEN CounterApply(kept, d.updated[k])
             ELSE kept]
<1>1. ASSUME NEW k \in Keys
      PROVE  /\ reset[k] \in OrAbsent(CounterType)
             /\ reset[k] = Absent <=> m.entries[k] = Absent
             /\ m.entries[k] # Absent => reset[k].delta = 0 /\ reset[k].value = m.entries[k].value
  <2>1. CASE Has(m, k)
    <3>1. m.entries[k] \in CounterType /\ m.entries[k] # Absent
      BY <2>1 DEF MapType, Has, OrAbsent
    <3>2. /\ CounterReset(m.entries[k]) \in CounterType /\ CounterReset(m.entries[k]).delta = 0
          /\ CounterReset(m.entries[k]).value = m.entries[k].value
      BY <3>1 DEF CounterReset, CounterType
    <3>3. CounterReset(m.entries[k]) # Absent
      BY <3>2, AbsentIsNoObject
    <3> QED BY <2>1, <3>1, <3>2, <3>3 DEF OrAbsent
  <2>2. CASE ~ Has(m, k)
    BY <2>2 DEF Has, OrAbsent
  <2> QED BY <2>1, <2>2
<1>2. ASSUME NEW k \in Keys
      PROVE  /\ applied[k] \in OrAbsent(CounterType)
             /\ applied[k] # Absent => applied[k].delta = 0
             /\ MapRel(m, p) => /\ applied[k] = Absent <=> m.entries[k] = Absent
                                /\ m.entries[k] # Absent => applied[k].value = m.entries[k].value
  <2> DEFINE b == base(k)
             e == m.entries[k]
             new == CounterApply(IF b = Absent THEN NewCounter ELSE b, CounterDelta(e))
  <2>1. Kept(p, d)[k] = b /\ b \in OrAbsent(CounterType) /\ (b # Absent => b.delta = 0)
    BY DEF Kept, MapDelta, MapQuiet, MapType, OrAbsent
  <2>2. CounterDelta(e) # Absent
    BY DEF CounterDelta, Absent
  <2>3. /\ d.added[k] = IF e # Absent /\ k \in m.added THEN CounterDelta(e) ELSE Absent
        /\ d.updated[k] = IF e # Absent /\ k \notin m.added /\ e.delta # 0 THEN CounterDelta(e) ELSE Absent
    BY DEF MapDelta, Has, CounterChanged
  <2>4. /\ e \in OrAbsent(CounterType)
        /\ MapRel(m, p) => MapEntryRel(e, k \in m.added, b)
    BY DEF MapType, MapRel
  <2>5. applied[k] = IF e # Absent /\ (k \in m.added \/ (e.delta # 0 /\ b # Absent)) THEN new ELSE b
    BY <2>1, <2>2, <2>3
  <2>6. e # Absent => /\ new \in CounterType /\ new.delta = 0
                      /\ new.value = (IF b = Absent THEN 0 ELSE b.value) + e.delta
    BY <2>1, <2>4 DEF OrAbsent, CounterType, CounterApply, CounterDelta, NewCounter
  <2>7. new \in CounterType => new # Absent
    BY AbsentIsNoObject
  <2>8. /\ e # Absent => e.value \in Int /\ e.delta \in Int
        /\ b # Absent => b.value \in Int
    BY <2>1, <2>4 DEF OrAbsent, CounterType
  <2> HIDE DEF applied, b, e, new
  <2>9. applied[k] \in OrAbsent(CounterType) /\ (applied[k] # Absent => applied[k].delta = 0)
    BY <2>1, <2>5, <2>6 DEF OrAbsent
  <2>10. MapRel(m, p) => /\ applied[k] = Absent <=> e = Absent
                         /\ e # Absent => applied[k].value = e.value
    BY <2>4, <2>5, <2>6, <2>7, <2>8 DEF MapEntryRel, CounterRel
  <2> QED BY <2>9, <2>10 DEF e
<1>3. n = [NewMap EXCEPT !.entries = reset] /\ q = [p EXCEPT !.entries = applied]
  BY DEF MapReset, MapApply
<1>4. reset \in [Keys -> OrAbsent(CounterType)] /\ applied \in [Keys -> OrAbsent(CounterType)]
  BY <1>1, <1>2
<1> HIDE DEF reset, applied
<1>5. /\ n \in MapType /\ n.entries = reset /\ n.added = {} /\ n.removed = {} /\ ~ n.cleared
      /\ q \in MapType /\ q.entries = applied /\ q.added = {} /\ q.removed = {} /\ ~ q.cleared
  BY <1>3, <1>4 DEF MapType, NewMap, MapQuiet
<1>6. MapQuiet(n) /\ MapQuiet(q)
  BY <1>1, <1>2, <1>5 DEF MapQuiet
<1> QED BY <1>1, <1>2, <1>5, <1>6 DEF MapSame

----------------------------------------------------------------------------
(* Votes. *)
VoteRel(o, p) ==
  /\ o.delta \subseteq {o.self}
  /\ o.votesFor = Num(o.self) + Num(p.self)
  /\ o.delta = {} => p.votesFor = Num(p.self) + Num(o.self)

LEMMA VoteSetKeeps ==
  ASSUME NEW o \in VoteType, NEW p \in VoteType, NEW vote \in BOOLEAN, VoteRel(o, p)
  PROVE  VoteSet(o, vote) \in VoteType /\ VoteRel(VoteSet(o, vote), p)
<1>1. CASE vote = o.self
  BY <1>1 DEF VoteSet
<1>2. CASE vote # o.self
  <2> DEFINE n == VoteSet(o, vote)
  <2>1. n = [o EXCEPT !.self = vote, !.votesFor = IF vote THEN @ + 1 ELSE @ - 1, !.delta = {vote}]
    BY <1>2 DEF VoteSet
  <2> DEFINE count == IF vote THEN o.votesFor + 1 ELSE o.votesFor - 1
  <2>a. n = [self |-> vote, votesFor |-> count, voters |-> o.voters, delta |-> {vote}]
    BY <2>1 DEF VoteType
  <2>b. count \in Int
    BY DEF VoteType
  <2>2. /\ n \in VoteType /\ n.self = vote /\ n.delta = {vote}
        /\ n.votesFor = IF vote THEN o.votesFor + 1 ELSE o.votesFor - 1
    BY <2>a, <2>b DEF VoteType
  <2> HIDE DEF n
  <2>3. Num(o.self) = 1 - Num(vote) /\ Num(vote) = (IF vote THEN 1 ELSE 0) /\ Num(p.self) \in Int
    BY <1>2 DEF VoteType, Num
  <2>4. n.votesFor = Num(n.self) + Num(p.self)
    BY <2>2, <2>3 DEF VoteRel, VoteType
  <2> QED BY <2>2, <2>4 DEF VoteRel, n
<1> QED BY <1>1, <1>2

(* sent is the vote in the delta, or the one that p knows. *)
LEMMA VoteSent ==
  ASSUME NEW o \in VoteType, VoteChanged(o), o.delta \subseteq {o.self}
  PROVE  (CHOOSE vote \in o.delta : TRUE) = o.self
BY DEF VoteChanged

LEMMA VoteExchange ==
  ASSUME NEW o \in VoteType, NEW p \in VoteType, VoteRel(o, p), ~ VoteChanged(p),
         NEW n, n = VoteReset(o),
         NEW q, q = VoteApply(p, [self |-> p.self, votesFor |-> Num(o.self) + Num(p.self), voters |-> 2])
  PROVE  /\ n \in VoteType /\ q \in VoteType /\ ~ VoteChanged(n) /\ ~ VoteChanged(q)
         /\ VoteRel(n, q)
<1>1. Num(o.self) \in Int /\ Num(p.self) \in Int
  BY DEF Num
<1>a. /\ n = [self |-> o.self, votesFor |-> o.votesFor, voters |-> o.voters, delta |-> {}]
      /\ q = [self |-> p.self, votesFor |-> Num(o.self) + Num(p.self), voters |-> 2, delta |-> p.delta]
  BY DEF VoteType, VoteReset, VoteApply
<1>2. /\ n \in VoteType /\ n.self = o.self /\ n.votesFor = o.votesFor /\ n.delta = {}
      /\ q \in VoteType /\ q.self = p.self /\ q.votesFor = Num(o.self) + Num(p.self) /\ q.delta = {}
  BY <1>a, <1>1 DEF VoteType, VoteChanged
<1> QED BY <1>1, <1>2 DEF VoteRel, VoteChanged

LEMMA VoteShows ==
  ASSUME NEW o \in VoteType, NEW p \in VoteType, VoteRel(o, p)
  PROVE  VoteFollows(o, p)
<1>1. CASE VoteChanged(o)
  <2>1. (CHOOSE vote \in o.delta : TRUE) = o.self
    BY <1>1, VoteSent DEF VoteRel
  <2>2. Num(o.self) \in Int /\ Num(p.self) \in Int
    BY DEF Num
  <2> QED BY <1>1, <2>1, <2>2 DEF VoteFollows, VoteRel
<1>2. CASE ~ VoteChanged(o)
  <2>1. p.votesFor = Num(p.self) + Num(o.self)
    BY <1>2 DEF VoteRel, VoteChanged
  <2>2. (p.votesFor = Num(p.self) + 1) = o.self
    BY <2>1 DEF Num, VoteType
  <2>3. Num(o.self) \in Int /\ Num(p.self) \in Int
    BY DEF Num
  <2> QED BY <1>2, <2>2, <2>3 DEF VoteFollows, VoteRel
<1> QED BY <1>1, <1>2

----------------------------------------------------------------------------
(* The object of one replica, whatever its type. *)
ObjectOf(t) ==
  IF t = "counter" THEN CounterType ELSE IF t = "register" THEN RegisterType
  ELSE IF t = "set" THEN SetType ELSE IF t = "counterMap" THEN KeyedType(CounterType)
  ELSE IF t = "registerMap" THEN KeyedType(RegisterType)
  ELSE IF t = "multiMap" THEN KeyedType(SetType)
  ELSE IF t = "map" THEN {m \in MapType : MapFits(m)} ELSE VoteType

Kinds == {"counter", "register", "set", "counterMap", "registerMap", "multiMap", "map", "vote"}

ChangedAs(t, o) ==
  \/ t = "counter" /\ CounterChanged(o)
  \/ t = "register" /\ RegisterChanged(o)
  \/ t = "set" /\ SetChanged(o)
  \/ t = "counterMap" /\ CounterMapChanged(o)
  \/ t = "registerMap" /\ RegisterMapChanged(o)
  \/ t = "multiMap" /\ MultiMapChanged(o)
  \/ t = "map" /\ MapChanged(o)
  \/ t = "vote" /\ VoteChanged(o)

(* How the object o of one replica relates to that of the other when the   *)
(* other has no changes: what o shows is what p shows and what o's delta   *)
(* says.  It is more than PeerFollows, which only speaks of the outcome.   *)
Related(t, o, p) ==
  /\ t = "counter" => CounterRel(o, p.value)
  /\ t = "register" => RegisterRel(o, p.value)
  /\ t = "set" => SetRel(o, p.value)
  /\ t = "counterMap" => CounterMapRel(o, p)
  /\ t = "registerMap" => RegisterMapRel(o, p)
  /\ t = "multiMap" => MultiMapRel(o, p)
  /\ t = "map" /\ ~ ReusesValues => MapRel(o, p)
  /\ t = "vote" => VoteRel(o, p)

DataInv ==
  /\ kind \in Kinds
  /\ object \in [Replicas -> ObjectOf(kind)]
  /\ \E r \in Replicas : ~ Pending(r)
  /\ \A r \in Replicas : ~ Pending(Other(r)) => Related(kind, object[r], object[Other(r)])

LEMMA OtherIs ==
  /\ \A r \in Replicas : Other(r) \in Replicas /\ Other(r) # r /\ Other(Other(r)) = r
  /\ \A r, s \in Replicas : s = r \/ s = Other(r)
BY DEF Replicas, Other

LEMMA PendingIs == \A r \in Replicas : Pending(r) <=> ChangedAs(kind, object[r])
BY DEF Pending, ChangedAs

LEMMA KindIs ==
  /\ ObjectOf("counter") = CounterType /\ ObjectOf("register") = RegisterType
  /\ ObjectOf("set") = SetType /\ ObjectOf("counterMap") = KeyedType(CounterType)
  /\ ObjectOf("registerMap") = KeyedType(RegisterType) /\ ObjectOf("multiMap") = KeyedType(SetType)
  /\ ObjectOf("map") = {m \in MapType : MapFits(m)} /\ ObjectOf("vote") = VoteType
BY DEF ObjectOf

(* Of two replicas without changes, each follows the other. *)
LEMMA Symmetric ==
  ASSUME NEW t \in Kinds, NEW o \in ObjectOf(t), NEW p \in ObjectOf(t),
         ~ ChangedAs(t, o), ~ ChangedAs(t, p), Related(t, o, p)
  PROVE  Related(t, p, o)
<1>1. CASE t = "counter"
  <2>1. o \in CounterType /\ p \in CounterType /\ ~ CounterChanged(o) /\ ~ CounterChanged(p)
    BY <1>1, KindIs DEF ChangedAs
  <2>2. CounterRel(o, p.value) => CounterRel(p, o.value)
    BY <2>1 DEF CounterChanged, CounterRel, CounterType
  <2> QED BY <1>1, <2>2 DEF Related
<1>2. CASE t = "register"
  BY <1>2, KindIs DEF ChangedAs, Related, RegisterChanged, RegisterRel
<1>3. CASE t = "set"
  BY <1>3, KindIs, SetClean DEF ChangedAs, Related
<1>4. CASE t = "counterMap"
  BY <1>4, KindIs, CounterMapSame DEF ChangedAs, Related
<1>5. CASE t = "registerMap"
  BY <1>5, KindIs, RegisterMapSame DEF ChangedAs, Related
<1>6. CASE t = "multiMap"
  BY <1>6, KindIs, MultiMapSame DEF ChangedAs, Related
<1>7. CASE t = "map"
  <2>1. o \in MapType /\ p \in MapType /\ MapQuiet(o) /\ MapQuiet(p)
    BY <1>7, KindIs, MapClean DEF ChangedAs
  <2>2. ~ ReusesValues => MapSame(o, p)
    BY <1>7, <2>1, MapQuietRel DEF Related
  <2>3. ~ ReusesValues => MapRel(p, o)
    BY <2>1, <2>2, MapQuietRel DEF MapSame
  <2> QED BY <1>7, <2>3 DEF Related
<1>8. CASE t = "vote"
  BY <1>8, KindIs DEF ChangedAs, Related, VoteChanged, VoteRel, Num
<1> QED BY <1>1, <1>2, <1>3, <1>4, <1>5, <1>6, <1>7, <1>8 DEF Kinds

LEMMA BecomesKeeps ==
  ASSUME DataInv, NEW r \in Replicas, NEW n \in ObjectOf(kind), Becomes(r, n),
         Related(kind, n, object[Other(r)])
  PROVE  DataInv'
<1> DEFINE s == Other(r)
<1>1. s \in Replicas /\ s # r /\ Other(s) = r /\ \A x \in Replicas : x = r \/ x = s
  BY OtherIs
<1>2. /\ kind' = kind /\ object' \in [Replicas -> ObjectOf(kind)]
      /\ object'[r] = n /\ object'[s] = object[s]
  BY <1>1 DEF Becomes, DataInv
<1>3. ~ ChangedAs(kind, object[s])
  BY <1>1, PendingIs DEF Becomes
<1>4. Pending(r)' <=> ChangedAs(kind, n)
  BY <1>2 DEF Pending, ChangedAs
<1>5. ~ Pending(s)'
  BY <1>2, <1>3 DEF Pending, ChangedAs
<1>6. ~ Pending(r)' => Related(kind, object[s], n)
  BY <1>1, <1>3, <1>4, Symmetric DEF DataInv
<1> HIDE DEF s
<1>7. ASSUME NEW x \in Replicas, ~ Pending(Other(x))' PROVE Related(kind', object'[x], object'[Other(x)])
  BY <1>1, <1>2, <1>6, <1>7 DEF s
<1> QED BY <1>1, <1>2, <1>5, <1>7 DEF DataInv

LEMMA ExchangedKeeps ==
  ASSUME DataInv, NEW r \in Replicas, NEW n \in ObjectOf(kind), NEW q \in ObjectOf(kind),
         Exchanged(r, n, q), ~ ChangedAs(kind, n), ~ ChangedAs(kind, q), Related(kind, n, q)
  PROVE  DataInv' /\ \A x \in Replicas : ~ Pending(x)'
<1> DEFINE s == Other(r)
<1>1. s \in Replicas /\ s # r /\ Other(s) = r /\ \A x \in Replicas : x = r \/ x = s
  BY OtherIs
<1>2. /\ kind' = kind /\ object' \in [Replicas -> ObjectOf(kind)]
      /\ object'[r] = n /\ object'[s] = q
  BY <1>1 DEF Exchanged, DataInv
<1>3. ~ Pending(r)' /\ ~ Pending(s)'
  BY <1>2 DEF Pending, ChangedAs
<1>4. Related(kind, q, n)
  BY Symmetric DEF DataInv
<1> HIDE DEF s
<1>5. ASSUME NEW x \in Replicas PROVE Related(kind', object'[x], object'[Other(x)])
  BY <1>1, <1>2, <1>4 DEF s
<1>6. \A x \in Replicas : ~ Pending(x)'
  BY <1>1, <1>3
<1> QED BY <1>1, <1>2, <1>5, <1>6 DEF DataInv

----------------------------------------------------------------------------
(* The initial states. *)
LEMMA BothKeeps ==
  ASSUME kind \in Kinds, NEW o \in ObjectOf(kind), Both(o), ~ ChangedAs(kind, o),
         Related(kind, o, o)
  PROVE  DataInv
<1>1. \A r \in Replicas : object[r] = o /\ object[Other(r)] = o
  BY OtherIs DEF Both
<1>2. 1 \in Replicas
  BY DEF Replicas
<1> QED BY <1>1, <1>2, PendingIs DEF DataInv, Both

LEMMA NewKeyedIs ==
  ASSUME NEW S
  PROVE  /\ NewKeyed \in KeyedType(S) /\ NewKeyed.removed = {} /\ ~ NewKeyed.cleared
         /\ \A k \in Keys : NewKeyed.entries[k] = Absent /\ Kept(NewKeyed, NewKeyed)[k] = Absent
BY DEF NewKeyed, KeyedType, OrAbsent, Kept

LEMMA InitKeeps == Init => DataInv
<1> SUFFICES ASSUME Init PROVE DataInv
  OBVIOUS
<1>1. CASE kind = "counter" /\ Both(NewCounter)
  <2>1. Related(kind, NewCounter, NewCounter) /\ ~ ChangedAs(kind, NewCounter)
    BY <1>1, NewCounterIs DEF Related, ChangedAs, CounterRel, NewCounter
  <2> QED BY <1>1, <2>1, NewCounterIs, KindIs, BothKeeps DEF Kinds
<1>2. CASE kind = "register" /\ \E v \in Values \cup {EmptyObject} : Both(RegisterReset(NewRegister(v)))
  <2>1. PICK v \in Values \cup {EmptyObject} : Both(RegisterReset(NewRegister(v)))
    BY <1>2
  <2> DEFINE o == RegisterReset(NewRegister(v))
  <2>2. o \in RegisterType /\ o.delta = Absent
    BY RegisterIs
  <2> HIDE DEF o
  <2>3. Related(kind, o, o) /\ ~ ChangedAs(kind, o)
    BY <1>2, <2>2 DEF Related, ChangedAs, RegisterRel, RegisterChanged
  <2> QED BY <1>2, <2>1, <2>2, <2>3, KindIs, BothKeeps DEF Kinds, o
<1>3. CASE kind = "set" /\ Both(NewSet)
  <2>1. Related(kind, NewSet, NewSet) /\ ~ ChangedAs(kind, NewSet)
    BY <1>3, NewSetIs, SetClean DEF Related, ChangedAs
  <2> QED BY <1>3, <2>1, NewSetIs, KindIs, BothKeeps DEF Kinds
<1>4. CASE kind = "counterMap" /\ Both(NewKeyed)
  <2>1. ~ CounterMapChanged(NewKeyed)
    BY NewKeyedIs, NewCounterIs, CounterMapIsClean DEF OrNew
  <2>2. CounterMapRel(NewKeyed, NewKeyed)
    BY <2>1, NewKeyedIs, CounterMapSame
  <2>3. Related(kind, NewKeyed, NewKeyed) /\ ~ ChangedAs(kind, NewKeyed)
    BY <1>4, <2>1, <2>2 DEF Related, ChangedAs
  <2> QED BY <1>4, <2>3, NewKeyedIs, KindIs, BothKeeps DEF Kinds
<1>5. CASE kind = "registerMap" /\ Both(NewKeyed)
  <2>1. ~ RegisterMapChanged(NewKeyed)
    BY NewKeyedIs, RegisterMapIsClean DEF RegisterQuiet
  <2>2. RegisterMapRel(NewKeyed, NewKeyed)
    BY <2>1, NewKeyedIs, RegisterMapSame
  <2>3. Related(kind, NewKeyed, NewKeyed) /\ ~ ChangedAs(kind, NewKeyed)
    BY <1>5, <2>1, <2>2 DEF Related, ChangedAs
  <2> QED BY <1>5, <2>3, NewKeyedIs, KindIs, BothKeeps DEF Kinds
<1>6. CASE kind = "multiMap" /\ Both(NewKeyed)
  <2>1. ~ MultiMapChanged(NewKeyed)
    BY NewKeyedIs, NewSetIs, MultiMapIsClean DEF OrNew
  <2>2. MultiMapRel(NewKeyed, NewKeyed)
    BY <2>1, NewKeyedIs, MultiMapSame
  <2>3. Related(kind, NewKeyed, NewKeyed) /\ ~ ChangedAs(kind, NewKeyed)
    BY <1>6, <2>1, <2>2 DEF Related, ChangedAs
  <2> QED BY <1>6, <2>3, NewKeyedIs, KindIs, BothKeeps DEF Kinds
<1>7. CASE kind = "map" /\ Both(NewMap)
  <2>1. NewMap \in MapType /\ MapFits(NewMap) /\ MapQuiet(NewMap)
    BY DEF NewMap, MapType, OrAbsent, MapFits, MapQuiet
  <2>2. ~ MapChanged(NewMap) /\ MapRel(NewMap, NewMap)
    BY <2>1, MapClean, MapQuietRel DEF MapSame
  <2>3. Related(kind, NewMap, NewMap) /\ ~ ChangedAs(kind, NewMap)
    BY <1>7, <2>2 DEF Related, ChangedAs
  <2> QED BY <1>7, <2>1, <2>3, KindIs, BothKeeps DEF Kinds
<1>8. CASE kind = "vote" /\ Both(NewVote)
  <2>1. NewVote \in VoteType /\ VoteRel(NewVote, NewVote) /\ ~ VoteChanged(NewVote)
    BY DEF NewVote, VoteType, VoteRel, VoteChanged, Num
  <2>2. Related(kind, NewVote, NewVote) /\ ~ ChangedAs(kind, NewVote)
    BY <1>8, <2>1 DEF Related, ChangedAs
  <2> QED BY <1>8, <2>1, <2>2, KindIs, BothKeeps DEF Kinds
<1> QED BY <1>1, <1>2, <1>3, <1>4, <1>5, <1>6, <1>7, <1>8 DEF Init

----------------------------------------------------------------------------
(* The changes. *)
LEMMA Given ==
  ASSUME DataInv, NEW r \in Replicas, ~ Pending(Other(r))
  PROVE  /\ object[r] \in ObjectOf(kind) /\ object[Other(r)] \in ObjectOf(kind)
         /\ Related(kind, object[r], object[Other(r)])
         /\ ~ ChangedAs(kind, object[Other(r)])
BY OtherIs, PendingIs DEF DataInv

LEMMA AmountsAreInts == Amounts \subseteq Int
<1>1. \A n \in Steps : n \in Int /\ - n \in Int
  <2>1. \A n \in Nat : n \in Int /\ - n \in Int
    OBVIOUS
  <2> QED BY <2>1, ExchangeAssumption
<1> QED BY <1>1 DEF Amounts

LEMMA CounterKeeps ==
  ASSUME DataInv, NEW r \in Replicas, ChangeCounter(r)
  PROVE  DataInv'
<1>1. PICK x \in Amounts : Becomes(r, CounterIncrement(object[r], x))
  BY DEF ChangeCounter
<1> DEFINE n == CounterIncrement(object[r], x)
           p == object[Other(r)]
<1>2. kind = "counter" /\ object[r] \in CounterType /\ p \in CounterType /\ CounterRel(object[r], p.value)
  BY <1>1, Given, KindIs DEF ChangeCounter, Becomes, Related
<1>3. n \in CounterType /\ CounterRel(n, p.value)
  <2>1. p.value \in Int
    BY <1>2 DEF CounterType
  <2> QED BY <1>2, <2>1, AmountsAreInts, CounterIncrementKeeps
<1> HIDE DEF n
<1>4. n \in ObjectOf(kind) /\ Related(kind, n, p)
  BY <1>2, <1>3, KindIs DEF Related
<1> QED BY <1>1, <1>4, BecomesKeeps DEF n

LEMMA RegisterKeeps ==
  ASSUME DataInv, NEW r \in Replicas, ChangeRegister(r)
  PROVE  DataInv'
<1>1. PICK v \in Values : Becomes(r, RegisterSet(object[r], v))
  BY DEF ChangeRegister
<1> DEFINE n == RegisterSet(object[r], v)
           p == object[Other(r)]
<1>2. kind = "register" /\ n \in RegisterType /\ n.delta = n.value /\ n.delta # Absent
  BY RegisterIs DEF ChangeRegister, RegisterSet
<1> HIDE DEF n
<1>3. n \in ObjectOf(kind) /\ Related(kind, n, p)
  BY <1>2, KindIs DEF Related, RegisterRel
<1> QED BY <1>1, <1>3, BecomesKeeps DEF n

LEMMA SetKeeps ==
  ASSUME DataInv, NEW r \in Replicas, ChangeSet(r)
  PROVE  DataInv'
<1> DEFINE s == object[r]
           p == object[Other(r)]
<1>1. ~ Pending(Other(r)) /\ kind = "set"
  BY DEF ChangeSet, Becomes
<1>2. s \in SetType /\ p.value \in SUBSET Elements /\ SetRel(s, p.value)
  <2>1. s \in SetType /\ p \in SetType /\ SetRel(s, p.value)
    BY <1>1, Given, KindIs DEF Related
  <2> QED BY <2>1 DEF SetType
<1>3. ASSUME NEW n \in SetType, SetRel(n, p.value), Becomes(r, n)
      PROVE  DataInv'
  <2>1. n \in ObjectOf(kind) /\ Related(kind, n, p)
    BY <1>1, <1>3, KindIs DEF Related
  <2> QED BY <1>3, <2>1, BecomesKeeps
<1> HIDE DEF p
<1>4. CASE \E es \in SUBSET Elements : Becomes(r, SetAddAll(s, es))
  BY <1>2, <1>3, <1>4, SetAddAllKeeps
<1>5. CASE \E e \in Elements : Becomes(r, SetDelete(s, e))
  BY <1>2, <1>3, <1>5, SetDeleteKeeps
<1>6. CASE Becomes(r, SetClear(s))
  BY <1>2, <1>3, <1>6, SetClearKeeps
<1> QED BY <1>4, <1>5, <1>6 DEF ChangeSet

LEMMA KeyedKeeps ==
  ASSUME DataInv, NEW r \in Replicas, ChangeKeyed(r)
  PROVE  DataInv'
<1> DEFINE m == object[r]
           p == object[Other(r)]
<1>1. ~ Pending(Other(r)) /\ kind \in {"counterMap", "registerMap", "multiMap"}
  BY DEF ChangeKeyed, Becomes
<1>2. Related(kind, m, p) /\ m \in ObjectOf(kind)
  BY <1>1, Given
<1>3. PICK S : ObjectOf(kind) = KeyedType(S)
  BY <1>1, KindIs
<1> HIDE DEF m, p
<1>4. ASSUME NEW n \in KeyedType(S), Becomes(r, n),
             \A j \in Keys : Untouched(m, n, p, j) \/ Gone(n, p, j)
      PROVE  DataInv'
  <2>1. Related(kind, n, p)
    BY <1>1, <1>2, <1>4, CounterMapDeletes, RegisterMapDeletes, MultiMapDeletes DEF Related
  <2> QED BY <1>3, <1>4, <2>1, BecomesKeeps DEF p
<1>5. ASSUME NEW k \in Keys, Becomes(r, KeyedDelete(m, k))
      PROVE  DataInv'
  BY <1>2, <1>3, <1>4, <1>5, KeyedDeleteIs
<1>6. CASE Becomes(r, KeyedClear(m))
  BY <1>2, <1>3, <1>4, <1>6, KeyedClearIs
<1> QED BY <1>5, <1>6 DEF ChangeKeyed, m

LEMMA CounterMapKeeps ==
  ASSUME DataInv, NEW r \in Replicas, ChangeCounterMap(r)
  PROVE  DataInv'
<1>1. PICK k \in Keys, x \in Amounts : Becomes(r, CounterMapIncrement(object[r], k, x))
  BY DEF ChangeCounterMap
<1> DEFINE n == CounterMapIncrement(object[r], k, x)
           p == object[Other(r)]
<1>2. /\ kind = "counterMap" /\ object[r] \in KeyedType(CounterType) /\ p \in KeyedType(CounterType)
      /\ CounterMapRel(object[r], p)
  BY <1>1, Given, KindIs DEF ChangeCounterMap, Becomes, Related
<1>3. n \in KeyedType(CounterType) /\ CounterMapRel(n, p)
  BY <1>2, AmountsAreInts, CounterMapIncrementKeeps
<1> HIDE DEF n
<1>4. n \in ObjectOf(kind) /\ Related(kind, n, p)
  BY <1>2, <1>3, KindIs DEF Related
<1> QED BY <1>1, <1>4, BecomesKeeps DEF n

LEMMA RegisterMapKeeps ==
  ASSUME DataInv, NEW r \in Replicas, ChangeRegisterMap(r)
  PROVE  DataInv'
<1> DEFINE m == object[r]
           p == object[Other(r)]
<1>1. PICK k \in Keys : \/ \E v \in Values : Becomes(r, RegisterMapSet(m, k, v))
                        \/ Becomes(r, RegisterMapSetThrows(m, k))
  BY DEF ChangeRegisterMap
<1>2. kind = "registerMap" /\ m \in KeyedType(RegisterType) /\ RegisterMapRel(m, p)
  BY <1>1, Given, KindIs DEF ChangeRegisterMap, Becomes, Related
<1>3. ASSUME NEW n \in KeyedType(RegisterType), RegisterMapRel(n, p), Becomes(r, n)
      PROVE  DataInv'
  <2>1. n \in ObjectOf(kind) /\ Related(kind, n, p)
    BY <1>2, <1>3, KindIs DEF Related
  <2> QED BY <1>3, <2>1, BecomesKeeps
<1> HIDE DEF m, p
<1>4. CASE \E v \in Values : Becomes(r, RegisterMapSet(m, k, v))
  BY <1>2, <1>3, <1>4, RegisterMapSetKeeps
<1>5. CASE Becomes(r, RegisterMapSetThrows(m, k))
  BY <1>2, <1>3, <1>5, RegisterMapSetThrowsKeeps
<1> QED BY <1>1, <1>4, <1>5

LEMMA MultiMapKeeps ==
  ASSUME DataInv, NEW r \in Replicas, ChangeMultiMap(r)
  PROVE  DataInv'
<1> DEFINE m == object[r]
           p == object[Other(r)]
<1>1. PICK k \in Keys : \/ \E es \in SUBSET Elements : Becomes(r, MultiMapPutAll(m, k, es))
                        \/ \E e \in Elements : Becomes(r, MultiMapDelete(m, k, e))
  BY DEF ChangeMultiMap
<1>2. kind = "multiMap" /\ m \in KeyedType(SetType) /\ p \in KeyedType(SetType) /\ MultiMapRel(m, p)
  BY <1>1, Given, KindIs DEF ChangeMultiMap, Becomes, Related
<1>3. ASSUME NEW n \in KeyedType(SetType), MultiMapRel(n, p), Becomes(r, n)
      PROVE  DataInv'
  <2>1. n \in ObjectOf(kind) /\ Related(kind, n, p)
    BY <1>2, <1>3, KindIs DEF Related
  <2> QED BY <1>3, <2>1, BecomesKeeps
<1> HIDE DEF m, p
<1>4. CASE \E es \in SUBSET Elements : Becomes(r, MultiMapPutAll(m, k, es))
  BY <1>2, <1>3, <1>4, MultiMapPutAllKeeps
<1>5. CASE \E e \in Elements : Becomes(r, MultiMapDelete(m, k, e))
  BY <1>2, <1>3, <1>5, MultiMapDeleteKeeps
<1> QED BY <1>1, <1>4, <1>5

LEMMA VoteKeeps ==
  ASSUME DataInv, NEW r \in Replicas, ChangeVote(r)
  PROVE  DataInv'
<1>1. PICK vote \in BOOLEAN : Becomes(r, VoteSet(object[r], vote))
  BY DEF ChangeVote
<1> DEFINE n == VoteSet(object[r], vote)
           p == object[Other(r)]
<1>2. kind = "vote" /\ object[r] \in VoteType /\ p \in VoteType /\ VoteRel(object[r], p)
  BY <1>1, Given, KindIs DEF ChangeVote, Becomes, Related
<1>3. n \in VoteType /\ VoteRel(n, p)
  BY <1>2, VoteSetKeeps
<1> HIDE DEF n
<1>4. n \in ObjectOf(kind) /\ Related(kind, n, p)
  BY <1>2, <1>3, KindIs DEF Related
<1> QED BY <1>1, <1>4, BecomesKeeps DEF n

(* Every value that is set into a map is a counter; without reuse, one     *)
(* whose value is its delta.                                               *)
LEMMA NewValuesAre ==
  ASSUME NEW m \in MapType, NEW k \in Keys, NEW c \in NewValues(m, k)
  PROVE  c \in CounterType /\ (~ ReusesValues => c.value = c.delta)
<1>1. CASE c \in {CounterIncrement(NewCounter, n) : n \in Amounts \cup {0}}
  <2>1. PICK n \in Amounts \cup {0} : c = CounterIncrement(NewCounter, n)
    BY <1>1
  <2>2. c = [value |-> 0 + n, delta |-> 0 + n] /\ n \in Int
    BY <2>1, AmountsAreInts DEF CounterIncrement, NewCounter
  <2> QED BY <2>2 DEF CounterType
<1>2. CASE ReusesValues /\ Has(m, k) /\ c = m.entries[k]
  BY <1>2 DEF MapType, Has, OrAbsent
<1> QED BY <1>1, <1>2 DEF NewValues

LEMMA MapKeeps ==
  ASSUME DataInv, NEW r \in Replicas, ChangeMap(r)
  PROVE  DataInv'
<1> DEFINE m == object[r]
           p == object[Other(r)]
<1>1. \/ \E k \in Keys : \E c \in NewValues(m, k) : Becomes(r, MapSet(m, k, c))
      \/ \E k \in Keys : Becomes(r, MapGet(m, k))
      \/ \E k \in Keys, x \in Amounts : Has(m, k) /\ Becomes(r, MapIncrement(m, k, x))
      \/ \E k \in Keys : Becomes(r, MapDelete(m, k))
      \/ Becomes(r, MapClear(m))
  BY DEF ChangeMap
<1>2. kind = "map" /\ ~ Pending(Other(r))
  BY <1>1 DEF ChangeMap, Becomes
<1>3. /\ m \in MapType /\ p \in MapType /\ MapFits(m)
      /\ ~ ReusesValues => MapRel(m, p)
  BY <1>2, Given, KindIs DEF Related
<1>4. ASSUME NEW n, n \in MapType, MapFits(n), ~ ReusesValues => MapRel(n, p), Becomes(r, n)
      PROVE  DataInv'
  <2>1. n \in ObjectOf(kind) /\ Related(kind, n, p)
    BY <1>2, <1>4, KindIs DEF Related
  <2> QED BY <1>4, <2>1, BecomesKeeps
<1> HIDE DEF m, p
<1>5. ASSUME NEW k \in Keys, NEW c \in CounterType, ~ ReusesValues => c.value = c.delta,
             Becomes(r, MapSet(m, k, c))
      PROVE  DataInv'
  <2>1. PICK n : n = MapSet(m, k, c)
    OBVIOUS
  <2>2. n \in MapType /\ MapFits(n)
    BY <1>3, <2>1, MapSetIs
  <2>3. ~ ReusesValues => MapRel(n, p)
    BY <1>3, <1>5, <2>1, MapSetKeeps
  <2> QED BY <1>4, <1>5, <2>1, <2>2, <2>3
<1>6. CASE \E k \in Keys : \E c \in NewValues(m, k) : Becomes(r, MapSet(m, k, c))
  BY <1>3, <1>5, <1>6, NewValuesAre
<1>7. CASE \E k \in Keys : Becomes(r, MapGet(m, k))
  <2>1. PICK k \in Keys : Becomes(r, MapGet(m, k))
    BY <1>7
  <2>2. CASE Has(m, k)
    <3>1. MapGet(m, k) = m
      BY <2>2 DEF MapGet
    <3> QED BY <1>3, <1>4, <2>1, <3>1
  <2>3. CASE ~ Has(m, k)
    <3>1. MapGet(m, k) = MapSet(m, k, NewCounter)
      BY <2>3 DEF MapGet
    <3>2. NewCounter \in CounterType /\ NewCounter.value = NewCounter.delta
      BY NewCounterIs DEF NewCounter
    <3> QED BY <1>5, <2>1, <3>1, <3>2
  <2> QED BY <2>2, <2>3
<1>8. CASE \E k \in Keys, x \in Amounts : Has(m, k) /\ Becomes(r, MapIncrement(m, k, x))
  <2>1. PICK k \in Keys, x \in Amounts : Has(m, k) /\ Becomes(r, MapIncrement(m, k, x))
    BY <1>8
  <2>2. x \in Int
    BY AmountsAreInts
  <2> QED BY <1>3, <1>4, <2>1, <2>2, MapIncrementKeeps
<1>9. CASE \E k \in Keys : Becomes(r, MapDelete(m, k))
  BY <1>3, <1>4, <1>9, MapDeleteKeeps
<1>10. CASE Becomes(r, MapClear(m))
  BY <1>3, <1>4, <1>10, MapClearKeeps
<1> QED BY <1>1, <1>6, <1>7, <1>8, <1>9, <1>10 DEF m

----------------------------------------------------------------------------
(* The exchange. *)
LEMMA ExchangeKeeps ==
  ASSUME DataInv, NEW r \in Replicas, Exchange(r)
  PROVE  DataInv' /\ \A x \in Replicas : ~ Pending(x)'
<1> DEFINE o == object[r]
           p == object[Other(r)]
           Done == DataInv' /\ \A x \in Replicas : ~ Pending(x)'
<1>1. Pending(r) /\ ~ Pending(Other(r))
  <2>1. Pending(r)
    BY DEF Exchange, Exchanged
  <2> QED BY <2>1, OtherIs DEF DataInv
<1>2. /\ ChangedAs(kind, o) /\ ~ ChangedAs(kind, p) /\ Related(kind, o, p)
      /\ o \in ObjectOf(kind) /\ p \in ObjectOf(kind)
  BY <1>1, Given, PendingIs
<1>3. ASSUME NEW n \in ObjectOf(kind), NEW q \in ObjectOf(kind), Exchanged(r, n, q),
             ~ ChangedAs(kind, n), ~ ChangedAs(kind, q), Related(kind, n, q)
      PROVE  Done
  BY <1>3, ExchangedKeeps
<1>4. CASE kind = "counter" /\ Exchanged(r, CounterReset(o), CounterApply(p, CounterDelta(o)))
  <2> DEFINE n == CounterReset(o)
             q == CounterApply(p, CounterDelta(o))
  <2>1. o \in CounterType /\ p \in CounterType /\ ~ CounterChanged(p) /\ CounterRel(o, p.value)
    BY <1>2, <1>4, KindIs DEF ChangedAs, Related
  <2>2. /\ n \in CounterType /\ q \in CounterType /\ ~ CounterChanged(n) /\ ~ CounterChanged(q)
        /\ n.value = q.value
    BY <2>1, CounterExchange
  <2> HIDE DEF n, q
  <2>3. CounterRel(n, q.value)
    BY <2>2 DEF CounterRel, CounterChanged, CounterType
  <2>4. /\ n \in ObjectOf(kind) /\ q \in ObjectOf(kind) /\ Related(kind, n, q)
        /\ ~ ChangedAs(kind, n) /\ ~ ChangedAs(kind, q)
    BY <1>4, <2>2, <2>3, KindIs DEF ChangedAs, Related
  <2> QED BY <1>3, <1>4, <2>4 DEF n, q
<1>5. CASE kind = "register" /\ Exchanged(r, RegisterReset(o), RegisterApply(p, RegisterDelta(o)))
  <2> DEFINE n == RegisterReset(o)
             q == RegisterApply(p, RegisterDelta(o))
  <2>1. /\ o \in RegisterType /\ p \in RegisterType /\ o.delta # Absent /\ o.delta = o.value
        /\ RegisterDelta(o) = o.delta
    BY <1>2, <1>5, KindIs DEF ChangedAs, Related, RegisterChanged, RegisterRel, RegisterDelta
  <2>2. /\ n \in RegisterType /\ q \in RegisterType /\ n.delta = Absent /\ q.delta = Absent
        /\ n.value = o.value /\ q.value = o.value
    BY <2>1, RegisterIs
  <2> HIDE DEF n, q
  <2>3. /\ n \in ObjectOf(kind) /\ q \in ObjectOf(kind) /\ Related(kind, n, q)
        /\ ~ ChangedAs(kind, n) /\ ~ ChangedAs(kind, q)
    BY <1>5, <2>2, KindIs DEF ChangedAs, Related, RegisterChanged, RegisterRel
  <2> QED BY <1>3, <1>5, <2>3 DEF n, q
<1>6. CASE kind = "set" /\ Exchanged(r, SetReset(o), SetApply(p, SetDelta(o)))
  <2> DEFINE n == SetReset(o)
             q == SetApply(p, SetDelta(o))
  <2>1. o \in SetType /\ p \in SetType /\ ~ SetChanged(p) /\ SetRel(o, p.value)
    BY <1>2, <1>6, KindIs DEF ChangedAs, Related
  <2>2. /\ n \in SetType /\ q \in SetType /\ ~ SetChanged(n) /\ ~ SetChanged(q)
        /\ n.value = q.value
    BY <2>1, SetExchange
  <2> HIDE DEF n, q
  <2>3. SetRel(n, q.value)
    BY <2>2, SetClean
  <2>4. /\ n \in ObjectOf(kind) /\ q \in ObjectOf(kind) /\ Related(kind, n, q)
        /\ ~ ChangedAs(kind, n) /\ ~ ChangedAs(kind, q)
    BY <1>6, <2>2, <2>3, KindIs DEF ChangedAs, Related
  <2> QED BY <1>3, <1>6, <2>4 DEF n, q
<1>7. CASE kind = "counterMap"
            /\ Exchanged(r, CounterMapReset(o), CounterMapApply(p, CounterMapDelta(o)))
  <2> DEFINE n == CounterMapReset(o)
             q == CounterMapApply(p, CounterMapDelta(o))
  <2>1. /\ o \in KeyedType(CounterType) /\ p \in KeyedType(CounterType)
        /\ ~ CounterMapChanged(p) /\ CounterMapRel(o, p)
    BY <1>2, <1>7, KindIs DEF ChangedAs, Related
  <2>2. /\ n \in KeyedType(CounterType) /\ q \in KeyedType(CounterType)
        /\ ~ CounterMapChanged(n) /\ ~ CounterMapChanged(q)
        /\ \A k \in Keys : OrNew(n.entries[k], NewCounter).value = OrNew(q.entries[k], NewCounter).value
    BY <2>1, CounterMapExchange
  <2> HIDE DEF n, q
  <2>3. CounterMapRel(n, q)
    BY <2>2, CounterMapSame
  <2>4. /\ n \in ObjectOf(kind) /\ q \in ObjectOf(kind) /\ Related(kind, n, q)
        /\ ~ ChangedAs(kind, n) /\ ~ ChangedAs(kind, q)
    BY <1>7, <2>2, <2>3, KindIs DEF ChangedAs, Related
  <2> QED BY <1>3, <1>7, <2>4 DEF n, q
<1>8. CASE kind = "registerMap"
            /\ Exchanged(r, RegisterMapReset(o), RegisterMapApply(p, RegisterMapDelta(o)))
  <2> DEFINE n == RegisterMapReset(o)
             q == RegisterMapApply(p, RegisterMapDelta(o))
  <2>1. /\ o \in KeyedType(RegisterType) /\ p \in KeyedType(RegisterType)
        /\ ~ RegisterMapChanged(p) /\ RegisterMapRel(o, p)
    BY <1>2, <1>8, KindIs DEF ChangedAs, Related
  <2>2. /\ n \in KeyedType(RegisterType) /\ q \in KeyedType(RegisterType)
        /\ ~ RegisterMapChanged(n) /\ ~ RegisterMapChanged(q)
        /\ \A k \in Keys : ShownOf(n.entries[k]) = ShownOf(q.entries[k])
    BY <2>1, RegisterMapExchange
  <2> HIDE DEF n, q
  <2>3. RegisterMapRel(n, q)
    BY <2>2, RegisterMapSame
  <2>4. /\ n \in ObjectOf(kind) /\ q \in ObjectOf(kind) /\ Related(kind, n, q)
        /\ ~ ChangedAs(kind, n) /\ ~ ChangedAs(kind, q)
    BY <1>8, <2>2, <2>3, KindIs DEF ChangedAs, Related
  <2> QED BY <1>3, <1>8, <2>4 DEF n, q
<1>9. CASE kind = "multiMap"
            /\ Exchanged(r, MultiMapReset(o), MultiMapApply(p, MultiMapDelta(o)))
  <2> DEFINE n == MultiMapReset(o)
             q == MultiMapApply(p, MultiMapDelta(o))
  <2>1. /\ o \in KeyedType(SetType) /\ p \in KeyedType(SetType)
        /\ ~ MultiMapChanged(p) /\ MultiMapRel(o, p)
    BY <1>2, <1>9, KindIs DEF ChangedAs, Related
  <2>2. /\ n \in KeyedType(SetType) /\ q \in KeyedType(SetType)
        /\ ~ MultiMapChanged(n) /\ ~ MultiMapChanged(q)
        /\ \A k \in Keys : OrNew(n.entries[k], NewSet).value = OrNew(q.entries[k], NewSet).value
    BY <2>1, MultiMapExchange
  <2> HIDE DEF n, q
  <2>3. MultiMapRel(n, q)
    BY <2>2, MultiMapSame
  <2>4. /\ n \in ObjectOf(kind) /\ q \in ObjectOf(kind) /\ Related(kind, n, q)
        /\ ~ ChangedAs(kind, n) /\ ~ ChangedAs(kind, q)
    BY <1>9, <2>2, <2>3, KindIs DEF ChangedAs, Related
  <2> QED BY <1>3, <1>9, <2>4 DEF n, q
<1>10. CASE kind = "map" /\ Exchanged(r, MapReset(o), MapApply(p, MapDelta(o)))
  <2> DEFINE n == MapReset(o)
             q == MapApply(p, MapDelta(o))
  <2>0. n = MapReset(o) /\ q = MapApply(p, MapDelta(o))
    OBVIOUS
  <2> HIDE DEF n, q
  <2>1. /\ o \in MapType /\ p \in MapType /\ MapFits(o) /\ MapQuiet(p)
        /\ ~ ReusesValues => MapRel(o, p)
    BY <1>2, <1>10, KindIs, MapClean DEF ChangedAs, Related
  <2>2. /\ n \in MapType /\ q \in MapType /\ MapQuiet(n) /\ MapQuiet(q)
        /\ ~ ReusesValues => MapSame(n, o) /\ MapSame(q, o)
    BY <2>0, <2>1, MapExchange
  <2>3. MapFits(n) /\ MapFits(q)
    BY <2>2 DEF MapFits, MapQuiet
  <2>4. ~ ReusesValues => MapRel(n, q)
    <3>1. MapSame(n, o) /\ MapSame(q, o) => MapSame(n, q)
      BY DEF MapSame
    <3> QED BY <2>2, <3>1, MapQuietRel
  <2>5. ~ MapChanged(n) /\ ~ MapChanged(q)
    BY <2>2, <2>3, MapClean
  <2>6. /\ n \in ObjectOf(kind) /\ q \in ObjectOf(kind) /\ Related(kind, n, q)
        /\ ~ ChangedAs(kind, n) /\ ~ ChangedAs(kind, q)
    BY <1>10, <2>2, <2>3, <2>4, <2>5, KindIs DEF ChangedAs, Related
  <2> QED BY <1>3, <1>10, <2>0, <2>6
<1>11. CASE kind = "vote" /\ Exchanged(r, VoteReset(o), VoteApply(p, VotesDelta(r)))
  <2> DEFINE n == VoteReset(o)
             q == VoteApply(p, VotesDelta(r))
  <2>1. o \in VoteType /\ p \in VoteType /\ VoteChanged(o) /\ ~ VoteChanged(p) /\ VoteRel(o, p)
    BY <1>2, <1>11, KindIs DEF ChangedAs, Related
  <2>2. VotesDelta(r) = [self |-> p.self, votesFor |-> Num(o.self) + Num(p.self), voters |-> 2]
    <3>1. (CHOOSE vote \in o.delta : TRUE) = o.self
      BY <2>1, VoteSent DEF VoteRel
    <3> QED BY <3>1 DEF VotesDelta
  <2> HIDE DEF n, q
  <2>3. n = VoteReset(o)
        /\ q = VoteApply(p, [self |-> p.self, votesFor |-> Num(o.self) + Num(p.self), voters |-> 2])
    BY <2>2 DEF n, q
  <2>4. n \in VoteType /\ q \in VoteType /\ ~ VoteChanged(n) /\ ~ VoteChanged(q) /\ VoteRel(n, q)
    BY <2>1, <2>3, VoteExchange
  <2>5. /\ n \in ObjectOf(kind) /\ q \in ObjectOf(kind) /\ Related(kind, n, q)
        /\ ~ ChangedAs(kind, n) /\ ~ ChangedAs(kind, q)
    BY <1>11, <2>4, KindIs DEF ChangedAs, Related
  <2> QED BY <1>3, <1>11, <2>5 DEF n, q
<1> QED BY <1>4, <1>5, <1>6, <1>7, <1>8, <1>9, <1>10, <1>11 DEF Exchange

----------------------------------------------------------------------------
(* The theorems. *)
LEMMA DataIsInvariant == ExercisesSpec => []DataInv
<1>1. ExercisesInit => DataInv
  BY InitKeeps DEF ExercisesInit
<1>2. DataInv /\ [ExercisesNext]_<<exercise, vars, dataVars>> => DataInv'
  <2> SUFFICES ASSUME DataInv, [Next]_vars PROVE DataInv'
    BY DEF ExercisesNext
  <2>1. CASE Next
    <3>1. PICK r \in Replicas :
            \/ ChangeCounter(r) \/ ChangeRegister(r) \/ ChangeSet(r) \/ ChangeKeyed(r)
            \/ ChangeCounterMap(r) \/ ChangeRegisterMap(r) \/ ChangeMultiMap(r)
            \/ ChangeMap(r) \/ ChangeVote(r) \/ Exchange(r)
      BY <2>1 DEF Next
    <3> QED
      BY <3>1, CounterKeeps, RegisterKeeps, SetKeeps, KeyedKeeps, CounterMapKeeps,
         RegisterMapKeeps, MultiMapKeeps, MapKeeps, VoteKeeps, ExchangeKeeps
  <2>2. CASE UNCHANGED vars
    BY <2>2 DEF vars, DataInv, Pending
  <2> QED BY <2>1, <2>2
<1> QED BY <1>1, <1>2, PTL DEF ExercisesSpec

(* A request to the kit's entity keeps the types of what it keeps itself.  *)
LEMMA RequestsKeepTypes == TckDataTypeOK /\ [TckDataNext]_dataVars => TckDataTypeOK'
<1> SUFFICES ASSUME TckDataTypeOK, [TckDataNext]_dataVars PROVE TckDataTypeOK'
  OBVIOUS
<1>0. MaxSteps \in Nat /\ 0 \in Nodes \cup {0}
  BY TckDataAssumption
<1>1. ASSUME NEW r \in Nodes, Begin(r) PROVE TckDataTypeOK'
  <2>1. /\ turn' = r /\ steps' = 0 /\ deleted' = FALSE /\ type' = type
        /\ noState' = (objects[r] = Null)
        /\ made' = [made EXCEPT ![r] = TRUE] \/ made' = made
    BY <1>1 DEF Begin
  <2>2. noState' \in BOOLEAN
    BY <2>1
  <2>3. steps' \in 0 .. MaxSteps
    BY <1>0, <2>1
  <2> QED BY <2>1, <2>2, <2>3 DEF TckDataTypeOK
<1>2. ASSUME InRequest, deleted' = deleted \/ deleted' = TRUE PROVE TckDataTypeOK'
  <2>1. steps' \in 0 .. MaxSteps
    BY <1>0, <1>2 DEF InRequest, TckDataTypeOK
  <2> QED BY <1>2, <2>1 DEF InRequest, TckDataTypeOK
<1>3. CASE Update
  <2>1. InRequest /\ deleted' = deleted
    BY <1>3 DEF Update, UpdateCounter, UpdateSet, UpdateRegister, UpdateMap, UpdateCounterMap,
                UpdateRegisterMap, UpdateMultiMap, UpdateVote, Remove, UpdatedTo
  <2> QED BY <1>2, <2>1
<1>4. CASE UpdateMissing
  BY <1>2, <1>4 DEF UpdateMissing, UpdatedTo
<1>5. CASE Delete
  BY <1>2, <1>5 DEF Delete
<1>6. CASE Fail
  BY <1>0, <1>6 DEF Fail, TckDataTypeOK
<1>7. CASE EndDeleted
  BY <1>0, <1>7 DEF EndDeleted, EndRequest, TckDataTypeOK
<1>8. CASE EndKept
  <2>1. /\ turn' = 0 /\ UNCHANGED <<type, steps, noState, deleted>>
        /\ made' = [made EXCEPT ![Peer] = @ /\ objects[Peer] # Null] \/ made' = made
    BY <1>8 DEF EndKept, EndRequest
  <2>2. made' \in [Nodes -> BOOLEAN]
    BY <2>1 DEF TckDataTypeOK
  <2> QED BY <1>0, <2>1, <2>2 DEF TckDataTypeOK
<1>9. CASE UNCHANGED dataVars
  BY <1>9 DEF dataVars, TckDataTypeOK
<1> QED BY <1>1, <1>3, <1>4, <1>5, <1>6, <1>7, <1>8, <1>9 DEF TckDataNext

(* The values and the bookkeeping of all eight types keep their types,     *)
(* through every mutator, getAndResetDelta and applyDelta                  *)
(* (replicated-data/*.ts), and so does what the kit's entity keeps beside. *)
THEOREM ExercisesTypeTheorem == ExercisesSpec => []ExercisesTypeOK
<1>1. DataInv => TypeOK
  <2> SUFFICES ASSUME DataInv PROVE TypeOK
    OBVIOUS
  <2>1. \A S : object \in [Replicas -> {m \in S : MapFits(m)}] => object \in [Replicas -> S]
    OBVIOUS
  <2> QED BY <2>1, KindIs DEF DataInv, Kinds, TypeOK
<1>2. ExercisesInit => exercise \in Exercises /\ TckDataTypeOK
  <2>1. 0 \in 0 .. MaxSteps
    BY TckDataAssumption
  <2> QED BY <2>1 DEF ExercisesInit, TckDataInit, TckDataTypeOK
<1>3. exercise \in Exercises /\ TckDataTypeOK /\ [ExercisesNext]_<<exercise, vars, dataVars>>
        => (exercise \in Exercises /\ TckDataTypeOK)'
  BY RequestsKeepTypes DEF ExercisesNext
<1>4. ExercisesSpec => [](exercise \in Exercises /\ TckDataTypeOK)
  BY <1>2, <1>3, PTL DEF ExercisesSpec
<1>5. DataInv /\ exercise \in Exercises /\ TckDataTypeOK => ExercisesTypeOK
  BY <1>1 DEF ExercisesTypeOK
<1> QED BY <1>4, <1>5, DataIsInvariant, PTL

LEMMA ShowsIs ==
  ASSUME NEW m
  PROVE  /\ CounterMapShows(m) = [k \in Keys |-> OrNew(m.entries[k], NewCounter).value]
         /\ RegisterMapShows(m) = [k \in Keys |-> ShownOf(m.entries[k])]
         /\ MultiMapShows(m) = [k \in Keys |-> OrNew(m.entries[k], NewSet).value]
BY DEF CounterMapShows, RegisterMapShows, MultiMapShows, Entry, Has, OrNew, ShownOf

LEMMA RelatedFollows ==
  ASSUME ~ ReusesValues, DataInv, NEW r \in Replicas, ~ Pending(Other(r))
  PROVE  LET o == object[r]
             p == object[Other(r)]
         IN  /\ kind = "counter" => CounterFollows(o, p)
             /\ kind = "register" => RegisterFollows(o, p)
             /\ kind = "set" => SetFollows(o, p)
             /\ kind = "counterMap" => CounterMapFollows(o, p)
             /\ kind = "registerMap" => RegisterMapFollows(o, p)
             /\ kind = "multiMap" => MultiMapFollows(o, p)
             /\ kind = "map" => MapFollows(o, p)
             /\ kind = "vote" => VoteFollows(o, p)
<1> DEFINE o == object[r]
           p == object[Other(r)]
<1>1. /\ o \in ObjectOf(kind) /\ p \in ObjectOf(kind) /\ Related(kind, o, p)
      /\ ~ ChangedAs(kind, p)
  BY Given
<1> HIDE DEF o, p
<1>2. kind = "counter" => CounterFollows(o, p)
  BY <1>1, KindIs, CounterExchange DEF Related, ChangedAs, CounterFollows
<1>3. kind = "register" => RegisterFollows(o, p)
  BY <1>1 DEF Related, RegisterRel, RegisterChanged, RegisterDelta, RegisterFollows
<1>4. kind = "set" => SetFollows(o, p)
  BY <1>1, KindIs, SetExchange DEF Related, ChangedAs, SetFollows
<1>5. ASSUME kind = "counterMap" PROVE CounterMapFollows(o, p)
  <2>1. /\ o \in KeyedType(CounterType) /\ p \in KeyedType(CounterType)
        /\ CounterMapRel(o, p) /\ ~ CounterMapChanged(p)
    BY <1>1, <1>5, KindIs DEF Related, ChangedAs
  <2> DEFINE q == CounterMapApply(p, CounterMapDelta(o))
  <2>2. \A k \in Keys : OrNew(q.entries[k], NewCounter).value = OrNew(o.entries[k], NewCounter).value
    BY <2>1, CounterMapExchange
  <2> HIDE DEF q
  <2>3. CounterMapShows(q) = CounterMapShows(o)
    BY <2>2, ShowsIs
  <2> QED BY <2>3 DEF CounterMapFollows, q
<1>6. ASSUME kind = "registerMap" PROVE RegisterMapFollows(o, p)
  <2>1. /\ o \in KeyedType(RegisterType) /\ p \in KeyedType(RegisterType)
        /\ RegisterMapRel(o, p) /\ ~ RegisterMapChanged(p)
    BY <1>1, <1>6, KindIs DEF Related, ChangedAs
  <2> DEFINE q == RegisterMapApply(p, RegisterMapDelta(o))
  <2>2. \A k \in Keys : ShownOf(q.entries[k]) = ShownOf(o.entries[k])
    BY <2>1, RegisterMapExchange
  <2> HIDE DEF q
  <2>3. RegisterMapShows(q) = RegisterMapShows(o)
    BY <2>2, ShowsIs
  <2> QED BY <2>3 DEF RegisterMapFollows, q
<1>7. ASSUME kind = "multiMap" PROVE MultiMapFollows(o, p)
  <2>1. /\ o \in KeyedType(SetType) /\ p \in KeyedType(SetType)
        /\ MultiMapRel(o, p) /\ ~ MultiMapChanged(p)
    BY <1>1, <1>7, KindIs DEF Related, ChangedAs
  <2> DEFINE q == MultiMapApply(p, MultiMapDelta(o))
  <2>2. \A k \in Keys : OrNew(q.entries[k], NewSet).value = OrNew(o.entries[k], NewSet).value
    BY <2>1, MultiMapExchange
  <2> HIDE DEF q
  <2>3. MultiMapShows(q) = MultiMapShows(o)
    BY <2>2, ShowsIs
  <2> QED BY <2>3 DEF MultiMapFollows, q
<1>8. ASSUME kind = "map" PROVE MapFollows(o, p)
  <2>1. /\ o \in MapType /\ p \in MapType /\ MapFits(o) /\ MapQuiet(p) /\ MapRel(o, p)
    BY <1>1, <1>8, KindIs, MapClean DEF Related, ChangedAs
  <2>2. PICK q : q = MapApply(p, MapDelta(o))
    OBVIOUS
  <2>3. PICK n : n = MapReset(o)
    OBVIOUS
  <2>4. MapSame(q, o)
    BY <2>1, <2>2, <2>3, MapExchange
  <2>5. MapShows(q) = MapShows(o)
    BY <2>4 DEF MapSame, MapShows, Has
  <2> QED BY <2>2, <2>5 DEF MapFollows
<1>9. kind = "vote" => VoteFollows(o, p)
  BY <1>1, KindIs, VoteShows DEF Related
<1> QED BY <1>2, <1>3, <1>4, <1>5, <1>6, <1>7, <1>8, <1>9 DEF o, p

(* A replica without changes that is given the delta of the other shows    *)
(* exactly what the other shows, whatever mutators were called, in any     *)
(* order and any number: for all eight types, as long as no value of a     *)
(* ReplicatedMap is set into it a second time.                             *)
THEOREM PeerFollowsTheorem ==
  ASSUME ~ ReusesValues
  PROVE  ExercisesSpec => []PeerFollows
<1>1. DataInv => PeerFollows
  BY RelatedFollows DEF PeerFollows
<1> QED BY <1>1, DataIsInvariant, PTL

(* What applyDelta brings in is never sent back, and what                  *)
(* getAndResetDelta gave is not given again, reused values or not.         *)
THEOREM NotEchoedTheorem == ExercisesSpec => NotEchoed
<1>1. DataInv /\ [ExercisesNext]_<<exercise, vars, dataVars>> =>
        [\A r \in Replicas : Exchange(r) => \A q \in Replicas : ~ Pending(q)']_vars
  BY ExchangeKeeps DEF ExercisesNext
<1> QED BY <1>1, DataIsInvariant, PTL DEF ExercisesSpec, NotEchoed

----------------------------------------------------------------------------
(* Requests to the kit's entity.  An object shows the value the updates    *)
(* have made, leads the object of the other node (which has not been told  *)
(* of its changes) in the relation of its type, and between requests both  *)
(* show that value.                                                        *)

Leads(t, o, p) == IF t = "map" THEN MapRel(o, p) ELSE Related(t, o, p)

(* A multimap has no key without values. *)
Full(m) == \A k \in Keys : Has(m, k) => m.entries[k].value # {}
KeptAs(t) == {o \in ObjectOf(t) : t = "multiMap" => Full(o)}

SaidOf(t) ==
  IF t = "counter" THEN Int
  ELSE IF t = "set" THEN SUBSET Elements
  ELSE IF t = "register" THEN Values
  ELSE IF t \in {"map", "counterMap"}
  THEN {v \in [Keys -> SUBSET Int] : \A k \in Keys : \A m, n \in v[k] : m = n}
  ELSE IF t = "registerMap" THEN [Keys -> SUBSET Values]
  ELSE IF t = "multiMap" THEN [Keys -> SUBSET Elements]
  ELSE [Nodes -> BOOLEAN]

(* The object o of node r shows v. *)
Shows(t, r, o, v) ==
  /\ t \in {"counter", "set", "register"} => o.value = v
  /\ t \in {"map", "registerMap"} =>
       \A k \in Keys : v[k] = IF Has(o, k) THEN {o.entries[k].value} ELSE {}
  /\ t = "counterMap" => \A k \in Keys : OrNew(o.entries[k], NewCounter).value = Sum(v[k], 0)
  /\ t = "multiMap" => \A k \in Keys : OrNew(o.entries[k], NewSet).value = v[k]
  /\ t = "vote" => o.self = v[r] /\ o.votesFor = Num(v[1]) + Num(v[2])

(* o has nothing to tell; a register may not have told its initial value.  *)
Settled(t, o) ==
  IF t = "register" THEN o.delta = Absent \/ o.delta = o.value ELSE ~ ChangedAs(t, o)

LEMMA TypesAreKinds == Types = Kinds
BY DEF Types, Kinds

LEMMA SumIs ==
  /\ \A n \in Int : Sum({}, n) = n
  /\ \A m, n \in Int : Sum({m}, n) = m + n
  /\ \A m \in Int : Sum({m}, 0) = m
<1>1. \A m : (CHOOSE i \in {m} : TRUE) = m
  OBVIOUS
<1>2. \A m \in Int : Sum({m}, 0) = m
  BY <1>1 DEF Sum
<1> QED BY <1>1, <1>2 DEF Sum

LEMMA SumOf ==
  ASSUME NEW t \in {"map", "counterMap"}, NEW v \in SaidOf(t), NEW k \in Keys, NEW n \in Int
  PROVE  /\ Sum(v[k], n) \in Int /\ Sum(v[k], n) = Sum(v[k], 0) + n
         /\ Sum({Sum(v[k], n)}, 0) = Sum(v[k], 0) + n
         /\ [v EXCEPT ![k] = {Sum(@, n)}] \in SaidOf(t)
         /\ [v EXCEPT ![k] = {}] \in SaidOf(t)
<1>1. v \in [Keys -> SUBSET Int] /\ \A j \in Keys : \A i, m \in v[j] : i = m
  BY DEF SaidOf
<1>2. Sum(v[k], n) \in Int /\ Sum(v[k], n) = Sum(v[k], 0) + n /\ Sum(v[k], 0) \in Int
  <2>1. CASE v[k] = {}
    BY <2>1, SumIs
  <2>2. CASE v[k] # {}
    <3>1. PICK i \in Int : v[k] = {i}
      BY <1>1, <2>2
    <3>2. Sum({i}, n) = i + n /\ Sum({i}, 0) = i + 0
      BY SumIs
    <3> QED BY <3>1, <3>2
  <2> QED BY <2>1, <2>2
<1>3. Sum({Sum(v[k], n)}, 0) = Sum(v[k], 0) + n
  <2>1. PICK i \in Int : i = Sum(v[k], n)
    BY <1>2
  <2>2. Sum({i}, 0) = i + 0
    BY SumIs
  <2> QED BY <1>2, <2>1, <2>2
<1>4. \A set \in SUBSET Int : (\A i, m \in set : i = m) => [v EXCEPT ![k] = set] \in SaidOf(t)
  BY <1>1 DEF SaidOf
<1>5. [v EXCEPT ![k] = {}] \in SaidOf(t)
  BY <1>4
<1>6. [v EXCEPT ![k] = {Sum(v[k], n)}] \in SaidOf(t)
  BY <1>2, <1>4
<1> QED BY <1>2, <1>3, <1>5, <1>6

LEMMA NullIsNoObject ==
  ASSUME NEW t \in Kinds
  PROVE  Null \notin ObjectOf(t)
<1>1. /\ Null \notin CounterType /\ Null \notin RegisterType /\ Null \notin SetType /\ Null \notin VoteType
      /\ Null \notin MapType /\ \A S : Null \notin KeyedType(S)
  BY DEF Null, CounterType, RegisterType, SetType, KeyedType, MapType, VoteType
<1> QED BY <1>1, KindIs DEF Kinds

----------------------------------------------------------------------------
(* New objects. *)

LEMMA NewIs ==
  ASSUME type \in Kinds
  PROVE  /\ Unsaid \in SaidOf(type)
         /\ CreateReplicatedData \in KeptAs(type) /\ CreateForDelta \in KeptAs(type)
         /\ Settled(type, CreateReplicatedData) /\ Settled(type, CreateForDelta)
         /\ type # "register" => CreateForDelta = CreateReplicatedData
         /\ type = "register" => CreateReplicatedData.delta # Absent
         /\ \A r \in Nodes : Shows(type, r, CreateReplicatedData, Unsaid)
<1> USE DEF CreateReplicatedData, CreateForDelta, New
<1>0. type # "register" => CreateForDelta = CreateReplicatedData
  BY DEF Kinds
<1>1. CASE type = "counter"
  BY <1>1, KindIs, NewCounterIs DEF SaidOf, Unsaid, KeptAs, Settled, ChangedAs, Shows
<1>2. CASE type = "set"
  BY <1>2, KindIs, NewSetIs DEF SaidOf, Unsaid, KeptAs, Settled, ChangedAs, Shows
<1>3. CASE type = "register"
  <2>1. Blank \in Values
    BY TckDataAssumption
  <2> QED BY <1>3, <2>1, KindIs, RegisterIs DEF SaidOf, Unsaid, KeptAs, Settled, Shows
<1>4. CASE type = "map"
  <2>1. NewMap \in MapType /\ MapFits(NewMap) /\ MapQuiet(NewMap) /\ \A k \in Keys : ~ Has(NewMap, k)
    BY DEF NewMap, MapType, OrAbsent, MapFits, MapQuiet, Has
  <2>2. ~ MapChanged(NewMap)
    BY <2>1, MapClean
  <2> QED BY <1>4, <2>1, <2>2, KindIs DEF SaidOf, Unsaid, KeptAs, Settled, ChangedAs, Shows
<1>5. CASE type = "counterMap"
  <2>1. NewKeyed \in KeyedType(CounterType) /\ ~ CounterMapChanged(NewKeyed)
        /\ \A k \in Keys : OrNew(NewKeyed.entries[k], NewCounter).value = 0
    BY NewKeyedIs, NewCounterIs, CounterMapIsClean DEF OrNew
  <2> QED BY <1>5, <2>1, KindIs, SumIs DEF SaidOf, Unsaid, KeptAs, Settled, ChangedAs, Shows
<1>6. CASE type = "registerMap"
  <2>1. NewKeyed \in KeyedType(RegisterType) /\ ~ RegisterMapChanged(NewKeyed)
        /\ \A k \in Keys : ~ Has(NewKeyed, k)
    BY NewKeyedIs, RegisterMapIsClean DEF RegisterQuiet, Has
  <2> QED BY <1>6, <2>1, KindIs DEF SaidOf, Unsaid, KeptAs, Settled, ChangedAs, Shows
<1>7. CASE type = "multiMap"
  <2>1. NewKeyed \in KeyedType(SetType) /\ ~ MultiMapChanged(NewKeyed)
        /\ \A k \in Keys : OrNew(NewKeyed.entries[k], NewSet).value = {} /\ ~ Has(NewKeyed, k)
    BY NewKeyedIs, NewSetIs, MultiMapIsClean DEF OrNew, Has
  <2>2. Full(NewKeyed)
    BY <2>1 DEF Full
  <2> QED BY <1>7, <2>1, <2>2, KindIs DEF SaidOf, Unsaid, KeptAs, Settled, ChangedAs, Shows
<1>8. CASE type = "vote"
  <2>1. NewVote \in VoteType /\ ~ VoteChanged(NewVote)
    BY DEF NewVote, VoteType, VoteChanged
  <2>2. \A r \in Nodes : Shows("vote", r, NewVote, [s \in Nodes |-> FALSE])
    BY DEF Shows, Nodes, NewVote, Num
  <2>3. CreateReplicatedData = NewVote /\ CreateForDelta = NewVote /\ Unsaid = [s \in Nodes |-> FALSE]
    BY <1>8 DEF Unsaid
  <2>4. NewVote \in KeptAs("vote") /\ [s \in Nodes |-> FALSE] \in SaidOf("vote") /\ Settled("vote", NewVote)
    BY <2>1, KindIs DEF SaidOf, KeptAs, Settled, ChangedAs
  <2> QED BY <1>8, <2>2, <2>3, <2>4
<1> QED BY <1>0, <1>1, <1>2, <1>3, <1>4, <1>5, <1>6, <1>7, <1>8 DEF Kinds

(* Where a new object shows what was said, that is nothing. *)
LEMMA NewShowsUnsaid ==
  ASSUME type \in Kinds, NEW r \in Nodes, NEW v \in SaidOf(type),
         Shows(type, r, CreateReplicatedData, v)
  PROVE  /\ type # "counterMap" => v = Unsaid
         /\ type = "counterMap" => \A k \in Keys : Sum(v[k], 0) = 0
         /\ \A s, p : Shows(type, s, p, v) => Shows(type, s, p, Unsaid)
<1> USE DEF CreateReplicatedData, New
<1>1. CASE type \in {"counter", "set", "register"}
  <2>1. v = Unsaid
    BY <1>1 DEF Shows, Unsaid, NewCounter, NewSet, NewRegister
  <2> QED BY <1>1, <2>1
<1>2. CASE type \in {"map", "registerMap", "multiMap"}
  <2>1. \A k \in Keys : v[k] = {}
    BY <1>2 DEF Shows, NewMap, NewKeyed, Has, OrNew, NewSet
  <2>2. v = [k \in Keys |-> v[k]]
    BY <1>2 DEF SaidOf
  <2>3. v = Unsaid
    BY <1>2, <2>1, <2>2 DEF Unsaid
  <2> QED BY <1>2, <2>3
<1>3. CASE type = "counterMap"
  <2>1. \A k \in Keys : Sum(v[k], 0) = 0
    BY <1>3 DEF Shows, NewKeyed, NewCounter, OrNew
  <2>2. \A k \in Keys : Sum(Unsaid[k], 0) = 0
    BY <1>3, SumIs DEF Unsaid
  <2> QED BY <1>3, <2>1, <2>2 DEF Shows
<1>4. CASE type = "vote"
  <2>1. v \in [Nodes -> BOOLEAN] /\ Num(v[1]) + Num(v[2]) = 0
    BY <1>4 DEF Shows, SaidOf, NewVote
  <2>2. v[1] = FALSE /\ v[2] = FALSE
    BY <2>1 DEF Num, Nodes
  <2>3. v = Unsaid
    BY <1>4, <2>1, <2>2 DEF Unsaid, Nodes
  <2> QED BY <1>4, <2>3
<1> QED BY <1>1, <1>2, <1>3, <1>4 DEF Kinds

----------------------------------------------------------------------------
(* Two nodes. *)

(* Of two objects without changes that show the same, each leads.          *)
LEMMA ShowsLead ==
  ASSUME NEW t \in Kinds, NEW o \in KeptAs(t), NEW p \in KeptAs(t), NEW r \in Nodes, NEW v \in SaidOf(t),
         Settled(t, o), Settled(t, p), Shows(t, r, o, v), Shows(t, 3 - r, p, v)
  PROVE  Leads(t, o, p)
<1>0. o \in ObjectOf(t) /\ p \in ObjectOf(t) /\ (t # "register" => ~ ChangedAs(t, o) /\ ~ ChangedAs(t, p))
  BY DEF KeptAs, Settled
<1>1. CASE t = "counter"
  <2>1. o \in CounterType /\ p.value \in Int /\ ~ CounterChanged(o)
    <3>1. o \in CounterType /\ p \in CounterType /\ ~ CounterChanged(o)
      BY <1>0, <1>1, KindIs DEF ChangedAs
    <3> QED BY <3>1 DEF CounterType
  <2>2. CounterRel(o, p.value) <=> o.value = p.value
    BY <2>1, CounterClean
  <2> QED BY <1>1, <2>2 DEF Leads, Related, Shows
<1>2. CASE t = "set"
  BY <1>0, <1>2, KindIs, SetClean DEF ChangedAs, Leads, Related, Shows
<1>3. CASE t = "register"
  BY <1>0, <1>3 DEF Leads, Related, RegisterRel, Settled, Shows
<1>4. CASE t = "map"
  <2>1. o \in MapType /\ p \in MapType /\ MapQuiet(o)
    BY <1>0, <1>4, KindIs, MapClean DEF ChangedAs
  <2>2. MapSame(o, p)
    BY <1>4 DEF Shows, MapSame, Has
  <2> QED BY <1>4, <2>1, <2>2, MapQuietRel DEF Leads
<1>5. CASE t = "counterMap"
  BY <1>0, <1>5, KindIs, CounterMapSame DEF ChangedAs, Leads, Related, Shows
<1>6. CASE t = "registerMap"
  <2>1. \A k \in Keys : ShownOf(o.entries[k]) = ShownOf(p.entries[k])
    BY <1>6 DEF Shows, ShownOf, Has
  <2> QED BY <1>0, <1>6, <2>1, KindIs, RegisterMapSame DEF ChangedAs, Leads, Related
<1>7. CASE t = "multiMap"
  BY <1>0, <1>7, KindIs, MultiMapSame DEF ChangedAs, Leads, Related, Shows
<1>8. CASE t = "vote"
  <2>1. v \in [Nodes -> BOOLEAN] /\ o.delta = {}
    BY <1>0, <1>8 DEF SaidOf, ChangedAs, VoteChanged
  <2>2. /\ o.self = v[r] /\ p.self = v[3 - r]
        /\ o.votesFor = Num(v[1]) + Num(v[2]) /\ p.votesFor = Num(v[1]) + Num(v[2])
    BY <1>8 DEF Shows
  <2>3. o.votesFor = Num(o.self) + Num(p.self) /\ p.votesFor = Num(p.self) + Num(o.self)
    <3>1. CASE r = 1
      BY <2>1, <2>2, <3>1 DEF Num
    <3>2. CASE r = 2
      BY <2>1, <2>2, <3>2 DEF Num
    <3> QED BY <3>1, <3>2 DEF Nodes
  <2> QED BY <1>8, <2>1, <2>3 DEF Leads, Related, VoteRel
<1> QED BY <1>1, <1>2, <1>3, <1>4, <1>5, <1>6, <1>7, <1>8 DEF Kinds

LEMMA VotesOfOther ==
  ASSUME NEW v \in [Nodes -> BOOLEAN], NEW r \in Nodes, NEW a \in BOOLEAN, NEW b \in BOOLEAN,
         a = v[r], Num(v[1]) + Num(v[2]) = Num(a) + Num(b)
  PROVE  b = v[3 - r]
<1>1. CASE r = 1
  BY <1>1 DEF Num, Nodes
<1>2. CASE r = 2
  BY <1>2 DEF Num, Nodes
<1> QED BY <1>1, <1>2 DEF Nodes

(* An object without changes shows what the one it leads shows. *)
LEMMA LeadsShows ==
  ASSUME NEW t \in Kinds, NEW o \in KeptAs(t), NEW p \in KeptAs(t), NEW r \in Nodes, NEW v \in SaidOf(t),
         ~ ChangedAs(t, o), Leads(t, o, p), Shows(t, r, o, v)
  PROVE  Shows(t, 3 - r, p, v)
<1>0. o \in ObjectOf(t) /\ p \in ObjectOf(t)
  BY DEF KeptAs
<1>1. CASE t = "counter"
  <2>1. o \in CounterType /\ p.value \in Int /\ ~ CounterChanged(o)
    <3>1. o \in CounterType /\ p \in CounterType /\ ~ CounterChanged(o)
      BY <1>0, <1>1, KindIs DEF ChangedAs
    <3> QED BY <3>1 DEF CounterType
  <2>2. CounterRel(o, p.value) <=> o.value = p.value
    BY <2>1, CounterClean
  <2> QED BY <1>1, <2>2 DEF Leads, Related, Shows
<1>2. CASE t = "set"
  BY <1>0, <1>2, KindIs, SetClean DEF ChangedAs, Leads, Related, Shows
<1>3. CASE t = "register"
  BY <1>0, <1>3 DEF Leads, Related, RegisterRel, ChangedAs, RegisterChanged, Shows
<1>4. CASE t = "map"
  <2>1. o \in MapType /\ p \in MapType /\ MapQuiet(o)
    BY <1>0, <1>4, KindIs, MapClean DEF ChangedAs
  <2>2. MapSame(o, p)
    BY <1>4, <2>1, MapQuietRel DEF Leads
  <2> QED BY <1>4, <2>2 DEF Shows, MapSame, Has
<1>5. CASE t = "counterMap"
  BY <1>0, <1>5, KindIs, CounterMapSame DEF ChangedAs, Leads, Related, Shows
<1>6. CASE t = "registerMap"
  <2>1. \A k \in Keys : ShownOf(o.entries[k]) = ShownOf(p.entries[k])
    BY <1>0, <1>6, KindIs, RegisterMapSame DEF ChangedAs, Leads, Related
  <2>2. \A k \in Keys : /\ o.entries[k] \in OrAbsent(RegisterType)
                        /\ p.entries[k] \in OrAbsent(RegisterType)
    <3>1. o \in KeyedType(RegisterType) /\ p \in KeyedType(RegisterType)
      BY <1>0, <1>6, KindIs
    <3> QED BY <3>1 DEF KeyedType
  <2>3. \A k \in Keys : /\ Has(o, k) <=> Has(p, k)
                        /\ Has(o, k) => o.entries[k].value = p.entries[k].value
    BY <2>1, <2>2, RegisterIs DEF ShownOf, Has, OrAbsent
  <2> QED BY <1>6, <2>3 DEF Shows
<1>7. CASE t = "multiMap"
  BY <1>0, <1>7, KindIs, MultiMapSame DEF ChangedAs, Leads, Related, Shows
<1>8. CASE t = "vote"
  <2>1. v \in [Nodes -> BOOLEAN] /\ o.delta = {} /\ o \in VoteType /\ p \in VoteType
    BY <1>0, <1>8, KindIs DEF SaidOf, ChangedAs, VoteChanged
  <2>2. /\ o.self = v[r] /\ o.votesFor = Num(v[1]) + Num(v[2])
        /\ o.votesFor = Num(o.self) + Num(p.self)
        /\ p.votesFor = Num(p.self) + Num(o.self)
    BY <1>8, <2>1 DEF Shows, Leads, Related, VoteRel
  <2>3. p.self \in BOOLEAN /\ o.self \in BOOLEAN
    BY <2>1 DEF VoteType
  <2>4. p.self = v[3 - r]
    BY <2>1, <2>2, <2>3, VotesOfOther
  <2>5. Num(p.self) + Num(o.self) = Num(o.self) + Num(p.self)
    BY DEF Num
  <2> QED BY <1>8, <2>2, <2>4, <2>5 DEF Shows
<1> QED BY <1>1, <1>2, <1>3, <1>4, <1>5, <1>6, <1>7, <1>8 DEF Kinds

LEMMA ChangedIs == ASSUME type \in Kinds, NEW o PROVE Changed(o) <=> ChangedAs(type, o)
BY DEF Changed, ChangedAs, Kinds

(* What a multimap is told of it keeps no key without values for. *)
LEMMA ToldIsFull ==
  ASSUME NEW m \in KeyedType(SetType), NEW p \in KeyedType(SetType), Full(m), Full(p),
         MultiMapRel(m, p), ~ MultiMapChanged(p)
  PROVE  Full(MultiMapReset(m)) /\ Full(MultiMapApply(p, MultiMapDelta(m)))
<1> DEFINE n == MultiMapReset(m)
           q == MultiMapApply(p, MultiMapDelta(m))
<1>1. /\ n \in KeyedType(SetType) /\ q \in KeyedType(SetType)
      /\ \A k \in Keys : /\ OrNew(n.entries[k], NewSet).value = OrNew(m.entries[k], NewSet).value
                         /\ OrNew(q.entries[k], NewSet).value = OrNew(m.entries[k], NewSet).value
  BY MultiMapExchange
<1>2. ASSUME NEW k \in Keys, Has(m, k) PROVE m.entries[k].value # {}
  BY <1>2 DEF Full
<1>3. ASSUME NEW k \in Keys, ~ Has(m, k) PROVE ~ Has(n, k) /\ ~ Has(q, k)
  <2>1. n.entries[k] = Absent
    BY <1>3 DEF MultiMapReset, KeyedReset, NewKeyed
  <2>2. q.entries[k] = Kept(p, m)[k]
    <3>1. MultiMapUpdated(m)[k] = Absent
      BY <1>3 DEF MultiMapUpdated
    <3>2. q.entries[k] = Kept(p, MultiMapDelta(m))[k]
      BY <3>1 DEF MultiMapApply, MultiMapDelta, KeyedDelta, KeyedType
    <3>3. Kept(p, MultiMapDelta(m)) = Kept(p, m)
      BY DEF MultiMapDelta, KeyedDelta, Kept
    <3> QED BY <3>2, <3>3
  <2>3. Kept(p, m)[k] = Absent \/ Kept(p, m)[k] = p.entries[k]
    BY DEF Kept
  <2>4. OrNew(q.entries[k], NewSet).value = {}
    BY <1>1, <1>3, NewSetIs DEF OrNew, Has
  <2>5. Kept(p, m)[k] = Absent
    BY <2>2, <2>3, <2>4 DEF Full, Has, OrNew
  <2> QED BY <2>1, <2>2, <2>5 DEF Has
<1> HIDE DEF n, q
<1>4. ASSUME NEW k \in Keys, Has(m, k)
      PROVE  /\ Has(n, k) => n.entries[k].value # {}
             /\ Has(q, k) => q.entries[k].value # {}
  BY <1>1, <1>2, <1>4 DEF OrNew, Has
<1>5. Full(n) /\ Full(q)
  BY <1>3, <1>4 DEF Full
<1> QED BY <1>5 DEF n, q

(* After a request of which the other node was told both show the same. *)
LEMMA ToldShows ==
  ASSUME type \in Kinds, NEW o \in KeptAs(type), NEW p \in KeptAs(type), NEW r \in Nodes,
         NEW v \in SaidOf(type), Settled(type, p), Leads(type, o, p), Shows(type, r, o, v),
         ChangedAs(type, o)
  PROVE  /\ Published(o) \in KeptAs(type) /\ Received(p, o) \in KeptAs(type)
         /\ Settled(type, Published(o)) /\ Settled(type, Received(p, o))
         /\ Shows(type, r, Published(o), v) /\ Shows(type, 3 - r, Received(p, o), v)
<1>0. o \in ObjectOf(type) /\ p \in ObjectOf(type) /\ (type # "register" => ~ ChangedAs(type, p))
  BY DEF KeptAs, Settled
<1>1. CASE type = "counter"
  <2>1. o \in CounterType /\ p \in CounterType /\ ~ CounterChanged(p) /\ CounterRel(o, p.value)
    BY <1>0, <1>1, KindIs DEF ChangedAs, Leads, Related
  <2>2. Published(o) = CounterReset(o) /\ Received(p, o) = CounterApply(p, CounterDelta(o))
    BY <1>1 DEF Published, Received
  <2> QED BY <1>1, <2>1, <2>2, CounterExchange, KindIs DEF KeptAs, Settled, ChangedAs, Shows
<1>2. CASE type = "set"
  <2>1. o \in SetType /\ p \in SetType /\ ~ SetChanged(p) /\ SetRel(o, p.value)
    BY <1>0, <1>2, KindIs DEF ChangedAs, Leads, Related
  <2>2. Published(o) = SetReset(o) /\ Received(p, o) = SetApply(p, SetDelta(o))
    BY <1>2 DEF Published, Received
  <2> QED BY <1>2, <2>1, <2>2, SetExchange, KindIs DEF KeptAs, Settled, ChangedAs, Shows
<1>3. CASE type = "register"
  <2>1. o \in RegisterType /\ p \in RegisterType /\ o.delta # Absent /\ o.delta = o.value
    BY <1>0, <1>3, KindIs DEF ChangedAs, RegisterChanged, Leads, Related, RegisterRel
  <2>2. Published(o) = RegisterReset(o) /\ Received(p, o) = RegisterApply(p, o.delta)
    BY <1>3 DEF Published, Received, RegisterDelta
  <2>3. o.delta \in Values \cup {EmptyObject}
    BY <2>1, RegisterIs
  <2>4. /\ Published(o) \in RegisterType /\ Published(o).value = o.value /\ Published(o).delta = Absent
        /\ Received(p, o) \in RegisterType /\ Received(p, o).value = o.value
        /\ Received(p, o).delta = Absent
    BY <2>1, <2>2, <2>3, RegisterIs
  <2> QED BY <1>3, <2>4, KindIs DEF KeptAs, Settled, Shows
<1>4. CASE type = "map"
  <2>1. o \in MapType /\ p \in MapType /\ MapFits(o) /\ MapQuiet(p) /\ MapRel(o, p)
    BY <1>0, <1>4, KindIs, MapClean DEF ChangedAs, Leads
  <2>2. Published(o) = MapReset(o) /\ Received(p, o) = MapApply(p, MapDelta(o))
    BY <1>4 DEF Published, Received
  <2> DEFINE n == Published(o)
             q == Received(p, o)
  <2>3. /\ n \in MapType /\ q \in MapType /\ MapQuiet(n) /\ MapQuiet(q)
        /\ MapSame(n, o) /\ MapSame(q, o)
    BY <2>1, <2>2, MapExchange
  <2> HIDE DEF n, q
  <2>4. MapFits(n) /\ MapFits(q)
    BY <2>3 DEF MapFits, MapQuiet
  <2>5. ~ MapChanged(n) /\ ~ MapChanged(q)
    BY <2>3, <2>4, MapClean
  <2>6. Shows(type, r, n, v) /\ Shows(type, 3 - r, q, v)
    BY <1>4, <2>3 DEF Shows, MapSame, Has
  <2>7. n \in KeptAs(type) /\ q \in KeptAs(type) /\ Settled(type, n) /\ Settled(type, q)
    BY <1>4, <2>3, <2>4, <2>5, KindIs DEF KeptAs, Settled, ChangedAs
  <2> QED BY <2>6, <2>7 DEF n, q
<1>5. CASE type = "counterMap"
  <2>1. /\ o \in KeyedType(CounterType) /\ p \in KeyedType(CounterType)
        /\ ~ CounterMapChanged(p) /\ CounterMapRel(o, p)
    BY <1>0, <1>5, KindIs DEF ChangedAs, Leads, Related
  <2>2. Published(o) = CounterMapReset(o) /\ Received(p, o) = CounterMapApply(p, CounterMapDelta(o))
    BY <1>5 DEF Published, Received
  <2> QED BY <1>5, <2>1, <2>2, CounterMapExchange, KindIs DEF KeptAs, Settled, ChangedAs, Shows
<1>6. CASE type = "registerMap"
  <2>1. /\ o \in KeyedType(RegisterType) /\ p \in KeyedType(RegisterType)
        /\ ~ RegisterMapChanged(p) /\ RegisterMapRel(o, p)
    BY <1>0, <1>6, KindIs DEF ChangedAs, Leads, Related
  <2>2. Published(o) = RegisterMapReset(o) /\ Received(p, o) = RegisterMapApply(p, RegisterMapDelta(o))
    BY <1>6 DEF Published, Received
  <2> DEFINE n == Published(o)
             q == Received(p, o)
  <2>3. /\ n \in KeyedType(RegisterType) /\ q \in KeyedType(RegisterType)
        /\ ~ RegisterMapChanged(n) /\ ~ RegisterMapChanged(q)
        /\ \A k \in Keys : /\ ShownOf(n.entries[k]) = ShownOf(o.entries[k])
                           /\ ShownOf(q.entries[k]) = ShownOf(o.entries[k])
    BY <2>1, <2>2, RegisterMapExchange
  <2> HIDE DEF n, q
  <2>4. \A m \in {n, q}, k \in Keys : /\ Has(o, k) <=> Has(m, k)
                                      /\ Has(o, k) => o.entries[k].value = m.entries[k].value
    <3>1. \A m \in {n, q, o}, k \in Keys : m.entries[k] \in OrAbsent(RegisterType)
      BY <2>1, <2>3 DEF KeyedType
    <3> QED BY <2>3, <3>1, RegisterIs DEF ShownOf, Has, OrAbsent
  <2>5. Shows(type, r, n, v) /\ Shows(type, 3 - r, q, v)
    BY <1>6, <2>4 DEF Shows
  <2>6. n \in KeptAs(type) /\ q \in KeptAs(type) /\ Settled(type, n) /\ Settled(type, q)
    BY <1>6, <2>3, KindIs DEF KeptAs, Settled, ChangedAs
  <2> QED BY <2>5, <2>6 DEF n, q
<1>7. CASE type = "multiMap"
  <2>1. /\ o \in KeyedType(SetType) /\ p \in KeyedType(SetType) /\ Full(o) /\ Full(p)
        /\ ~ MultiMapChanged(p) /\ MultiMapRel(o, p)
    BY <1>0, <1>7, KindIs DEF KeptAs, ChangedAs, Leads, Related
  <2>2. Published(o) = MultiMapReset(o) /\ Received(p, o) = MultiMapApply(p, MultiMapDelta(o))
    BY <1>7 DEF Published, Received
  <2> QED BY <1>7, <2>1, <2>2, MultiMapExchange, ToldIsFull, KindIs DEF KeptAs, Settled, ChangedAs, Shows
<1>8. CASE type = "vote"
  <2>1. /\ o \in VoteType /\ p \in VoteType /\ ~ VoteChanged(p) /\ VoteRel(o, p) /\ VoteChanged(o)
        /\ v \in [Nodes -> BOOLEAN]
    BY <1>0, <1>8, KindIs DEF ChangedAs, Leads, Related, SaidOf
  <2>2. Votes(o, p) = [self |-> p.self, votesFor |-> Num(o.self) + Num(p.self), voters |-> 2]
    <3>1. (CHOOSE vote \in o.delta : TRUE) = o.self
      BY <2>1, VoteSent DEF VoteRel
    <3>2. One(p.self) + One(o.self) = Num(o.self) + Num(p.self)
      BY DEF One, Num
    <3> QED BY <3>1, <3>2 DEF Votes
  <2>3. Published(o) = VoteReset(o) /\ Received(p, o) = VoteApply(p, Votes(o, p))
    BY <1>8 DEF Published, Received
  <2> DEFINE n == Published(o)
             q == Received(p, o)
  <2>4. n \in VoteType /\ q \in VoteType /\ ~ VoteChanged(n) /\ ~ VoteChanged(q)
    BY <2>1, <2>2, <2>3, VoteExchange
  <2>5. /\ n.self = o.self /\ n.votesFor = o.votesFor
        /\ q.self = p.self /\ q.votesFor = Num(o.self) + Num(p.self)
    BY <2>1, <2>2, <2>3 DEF VoteReset, VoteApply, VoteType
  <2> HIDE DEF n, q
  <2>6. /\ o.self = v[r] /\ o.votesFor = Num(v[1]) + Num(v[2])
        /\ o.votesFor = Num(o.self) + Num(p.self)
    BY <1>8, <2>1 DEF Shows, VoteRel
  <2>7. o.self \in BOOLEAN /\ p.self \in BOOLEAN
    BY <2>1 DEF VoteType
  <2>8. p.self = v[3 - r]
    BY <2>1, <2>6, <2>7, VotesOfOther
  <2>9. Shows(type, r, n, v) /\ Shows(type, 3 - r, q, v)
    BY <1>8, <2>5, <2>6, <2>8 DEF Shows
  <2>10. n \in KeptAs(type) /\ q \in KeptAs(type) /\ Settled(type, n) /\ Settled(type, q)
    BY <1>8, <2>4, KindIs DEF KeptAs, Settled, ChangedAs
  <2> QED BY <2>9, <2>10 DEF n, q
<1> QED BY <1>1, <1>2, <1>3, <1>4, <1>5, <1>6, <1>7, <1>8 DEF Kinds

----------------------------------------------------------------------------
(* Updates. *)

(* o and v are what an update may leave, when p is what the other node has. *)
Keeps(p, o, v) ==
  /\ o \in KeptAs(type) /\ v \in SaidOf(type)
  /\ Leads(type, o, p) /\ Shows(type, turn, o, v)
  /\ type = "register" => o.delta # Absent

LEMMA ChangesAreInts == Changes \subseteq Int
BY TckDataAssumption

LEMMA CounterIsUpdated ==
  ASSUME type = "counter", NEW p \in KeptAs(type), Keeps(p, Now, said), UpdateCounter
  PROVE  \E o, v : UpdatedTo(o, v) /\ Keeps(p, o, v)
<1>1. PICK n \in Changes : UpdatedTo(CounterIncrement(Now, n), said + n)
  BY DEF UpdateCounter
<1>2. n \in Int /\ Now \in CounterType /\ p \in CounterType /\ said \in Int
      /\ CounterRel(Now, p.value) /\ Now.value = said
  BY ChangesAreInts, KindIs DEF Keeps, KeptAs, SaidOf, Leads, Related, Shows
<1>3. p.value \in Int
  BY <1>2 DEF CounterType
<1> DEFINE o == CounterIncrement(Now, n)
<1>4. o \in CounterType /\ CounterRel(o, p.value)
  BY <1>2, <1>3, CounterIncrementKeeps
<1>5. o.value = said + n
  BY <1>2 DEF CounterIncrement
<1> HIDE DEF o
<1>6. Keeps(p, o, said + n)
  BY <1>2, <1>4, <1>5, KindIs DEF Keeps, KeptAs, SaidOf, Leads, Related, Shows
<1> QED BY <1>1, <1>6 DEF o

LEMMA SetValues ==
  ASSUME NEW s \in SetType, NEW e \in Elements
  PROVE  /\ SetAdd(s, e).value = s.value \cup {e}
         /\ SetDelete(s, e).value = s.value \ {e}
         /\ SetClear(s).value = {}
<1>1. SetAdd(s, e).value = s.value \cup {e}
  BY DEF SetAdd, SetAddAll, SetType
<1>2. SetClear(s).value = {}
  BY DEF SetClear, SetType, NewSet
<1>3. SetDelete(s, e).value = s.value \ {e}
  <2>1. CASE e \notin s.value
    BY <2>1 DEF SetDelete
  <2>2. CASE s.value = {e}
    BY <1>2, <2>2 DEF SetDelete
  <2>3. CASE e \in s.value /\ s.value # {e}
    BY <2>3 DEF SetDelete, SetType
  <2> QED BY <2>1, <2>2, <2>3
<1> QED BY <1>1, <1>2, <1>3

LEMMA SetIsUpdated ==
  ASSUME type = "set", NEW p \in KeptAs(type), Keeps(p, Now, said), UpdateSet
  PROVE  \E o, v : UpdatedTo(o, v) /\ Keeps(p, o, v)
<1>1. Now \in SetType /\ p \in SetType /\ said \in SUBSET Elements
      /\ SetRel(Now, p.value) /\ Now.value = said
  BY KindIs DEF Keeps, KeptAs, SaidOf, Leads, Related, Shows
<1>2. p.value \in SUBSET Elements
  BY <1>1 DEF SetType
<1>3. \A o, v : o \in SetType /\ SetRel(o, p.value) /\ o.value = v /\ v \in SUBSET Elements => Keeps(p, o, v)
  BY KindIs DEF Keeps, KeptAs, SaidOf, Leads, Related, Shows
<1>4. ASSUME NEW e \in Elements PROVE Keeps(p, SetAdd(Now, e), said \cup {e})
  <2>1. SetAdd(Now, e) \in SetType /\ SetRel(SetAdd(Now, e), p.value)
    BY <1>1, <1>2, SetAddAllKeeps DEF SetAdd
  <2>2. SetAdd(Now, e).value = said \cup {e} /\ said \cup {e} \in SUBSET Elements
    BY <1>1, SetValues
  <2> QED BY <1>3, <2>1, <2>2
<1>5. ASSUME NEW e \in Elements PROVE Keeps(p, SetDelete(Now, e), said \ {e})
  <2>1. SetDelete(Now, e) \in SetType /\ SetRel(SetDelete(Now, e), p.value)
    BY <1>1, <1>2, SetDeleteKeeps
  <2> QED BY <1>1, <1>3, <2>1, SetValues
<1>6. Keeps(p, SetClear(Now), {})
  <2>1. SetClear(Now) \in SetType /\ SetRel(SetClear(Now), p.value)
    BY <1>1, <1>2, SetClearKeeps
  <2>2. SetClear(Now).value = {}
    BY DEF SetClear, NewSet
  <2> QED BY <1>3, <2>1, <2>2
<1> QED BY <1>4, <1>5, <1>6 DEF UpdateSet

LEMMA RegisterIsUpdated ==
  ASSUME type = "register", NEW p \in KeptAs(type), Keeps(p, Now, said), UpdateRegister
  PROVE  \E o, v : UpdatedTo(o, v) /\ Keeps(p, o, v)
<1>1. PICK v \in Values : UpdatedTo(RegisterSet(Now, v), v)
  BY DEF UpdateRegister
<1>2. /\ RegisterSet(Now, v) \in RegisterType /\ RegisterSet(Now, v).value = v
      /\ RegisterSet(Now, v).delta = v /\ v # Absent
  BY RegisterIs DEF RegisterSet
<1>3. Keeps(p, RegisterSet(Now, v), v)
  BY <1>2, KindIs DEF Keeps, KeptAs, SaidOf, Leads, Related, RegisterRel, Shows
<1> QED BY <1>1, <1>3

LEMMA MapKeepsIs ==
  ASSUME type = "map", NEW p, NEW o, NEW v
  PROVE  Keeps(p, o, v) <=>
           /\ o \in MapType /\ MapFits(o) /\ MapRel(o, p) /\ v \in SaidOf("map")
           /\ \A k \in Keys : v[k] = IF Has(o, k) THEN {o.entries[k].value} ELSE {}
BY KindIs DEF Keeps, KeptAs, Leads, Shows

LEMMA MapGetIsUpdated ==
  ASSUME type = "map", NEW p \in KeptAs(type), NEW m, NEW v, Keeps(p, m, v), NEW k \in Keys
  PROVE  Has(MapGet(m, k), k) /\ Keeps(p, MapGet(m, k), [v EXCEPT ![k] = {Sum(@, 0)}])
<1> DEFINE w == [v EXCEPT ![k] = {Sum(@, 0)}]
<1>1. /\ m \in MapType /\ MapFits(m) /\ MapRel(m, p) /\ v \in SaidOf("map")
      /\ \A j \in Keys : v[j] = IF Has(m, j) THEN {m.entries[j].value} ELSE {}
  BY MapKeepsIs
<1>2. v \in [Keys -> SUBSET Int] /\ w \in SaidOf("map")
  <2>1. v \in [Keys -> SUBSET Int]
    BY <1>1 DEF SaidOf
  <2>2. PICK z \in Int : z = 0
    OBVIOUS
  <2>3. [v EXCEPT ![k] = {Sum(@, z)}] \in SaidOf("map")
    BY <1>1, SumOf
  <2> QED BY <2>1, <2>2, <2>3
<1>3. w[k] = {Sum(v[k], 0)} /\ \A j \in Keys : j # k => w[j] = v[j]
  BY <1>2
<1> HIDE DEF w
<1>4. CASE Has(m, k)
  <2>1. PICK i : v[k] = {i}
    BY <1>1, <1>4
  <2>2. w[k] = v[k]
    <3>1. v[k] \subseteq Int
      BY <1>2
    <3>2. i \in Int
      BY <2>1, <3>1
    <3>3. Sum({i}, 0) = i
      BY <3>2, SumIs
    <3> QED BY <1>3, <2>1, <3>3
  <2>3. MapGet(m, k) = m
    BY <1>4 DEF MapGet
  <2>4. \A j \in Keys : w[j] = v[j]
    BY <1>3, <2>2
  <2>5. Keeps(p, m, w)
    BY <1>1, <1>2, <2>4, MapKeepsIs
  <2> QED BY <1>4, <2>3, <2>5 DEF w
<1>5. CASE ~ Has(m, k)
  <2> DEFINE n == MapSet(m, k, NewCounter)
  <2>1. MapGet(m, k) = n /\ n = MapSet(m, k, NewCounter)
    BY <1>5 DEF MapGet
  <2> HIDE DEF n
  <2>2. NewCounter \in CounterType /\ NewCounter.value = 0 /\ NewCounter.value = NewCounter.delta /\ NewCounter # Absent
    BY NewCounterIs, AbsentIsNoObject DEF NewCounter
  <2>3. n \in MapType /\ MapFits(n) /\ AtKey(m, n, p, k) /\ n.entries[k] = NewCounter
    BY <1>1, <2>1, <2>2, MapSetIs
  <2>4. MapRel(n, p)
    BY <1>1, <2>1, <2>2, MapSetKeeps
  <2>5. w[k] = {0}
    <3>1. v[k] = {}
      BY <1>1, <1>5
    <3>2. Sum({}, 0) = 0
      BY SumIs
    <3> QED BY <1>3, <3>1, <3>2
  <2>6. \A j \in Keys : w[j] = IF Has(n, j) THEN {n.entries[j].value} ELSE {}
    <3>1. w[k] = {n.entries[k].value} /\ Has(n, k)
      BY <2>2, <2>3, <2>5 DEF Has
    <3>2. ASSUME NEW j \in Keys, j # k PROVE w[j] = IF Has(n, j) THEN {n.entries[j].value} ELSE {}
      BY <1>1, <1>3, <2>3, <3>2 DEF AtKey, Has
    <3> QED BY <3>1, <3>2
  <2>7. Has(n, k) /\ Keeps(p, n, w)
    BY <1>2, <2>2, <2>3, <2>4, <2>6, MapKeepsIs DEF Has
  <2> QED BY <2>1, <2>7 DEF w
<1> QED BY <1>4, <1>5

LEMMA MapIncrementIsUpdated ==
  ASSUME type = "map", NEW p \in KeptAs(type), Keeps(p, Now, said), NEW k \in Keys, NEW n \in Int
  PROVE  Keeps(p, MapIncrement(MapGet(Now, k), k, n), [said EXCEPT ![k] = {Sum(@, n)}])
<1> DEFINE m == MapGet(Now, k)
           w == [said EXCEPT ![k] = {Sum(@, 0)}]
           o == MapIncrement(m, k, n)
           v == [said EXCEPT ![k] = {Sum(@, n)}]
<1>1. Has(m, k) /\ Keeps(p, m, w)
  BY MapGetIsUpdated
<1>2. said \in SaidOf("map") /\ said \in [Keys -> SUBSET Int] /\ p \in MapType
  BY KindIs DEF Keeps, SaidOf, KeptAs
<1>3. /\ v \in SaidOf("map") /\ v[k] = {Sum(said[k], 0) + n} /\ w[k] = {Sum(said[k], 0)}
      /\ \A j \in Keys : j # k => v[j] = w[j]
  <2>1. v \in SaidOf("map") /\ Sum(said[k], n) = Sum(said[k], 0) + n
    BY <1>2, SumOf
  <2> QED BY <1>2, <2>1
<1> HIDE DEF m, v, w
<1>4. /\ m \in MapType /\ MapFits(m) /\ MapRel(m, p)
      /\ \A j \in Keys : w[j] = IF Has(m, j) THEN {m.entries[j].value} ELSE {}
  BY <1>1, MapKeepsIs
<1>5. o \in MapType /\ MapFits(o) /\ MapRel(o, p)
  BY <1>1, <1>2, <1>4, MapIncrementKeeps
<1>6. /\ o.entries[k] = CounterIncrement(m.entries[k], n)
      /\ \A j \in Keys : j # k => o.entries[j] = m.entries[j]
  BY <1>4 DEF MapIncrement, MapType
<1> HIDE DEF o
<1>7. o.entries[k].value = m.entries[k].value + n /\ o.entries[k] # Absent
  BY <1>6 DEF CounterIncrement, Absent
<1>8. m.entries[k].value = Sum(said[k], 0)
  BY <1>1, <1>3, <1>4
<1>9. \A j \in Keys : v[j] = IF Has(o, j) THEN {o.entries[j].value} ELSE {}
  BY <1>3, <1>4, <1>6, <1>7, <1>8 DEF Has
<1> QED BY <1>3, <1>5, <1>9, MapKeepsIs DEF m, v, o

LEMMA MapIsUpdated ==
  ASSUME type = "map", NEW p \in KeptAs(type), Keeps(p, Now, said), UpdateMap
  PROVE  \E o, v : UpdatedTo(o, v) /\ Keeps(p, o, v)
<1>1. /\ Now \in MapType /\ MapFits(Now) /\ MapRel(Now, p) /\ said \in SaidOf("map")
      /\ \A k \in Keys : said[k] = IF Has(Now, k) THEN {Now.entries[k].value} ELSE {}
  BY MapKeepsIs
<1>2. said \in [Keys -> SUBSET Int]
  BY <1>1 DEF SaidOf
<1>3. CASE \E k \in Keys : UpdatedTo(Add(Now, k), [said EXCEPT ![k] = {Sum(@, 0)}])
  BY <1>3, MapGetIsUpdated DEF Add, MapGet
<1>4. CASE \E k \in Keys, n \in Changes :
             UpdatedTo(MapIncrement(MapGet(Now, k), k, n), [said EXCEPT ![k] = {Sum(@, n)}])
  BY <1>4, ChangesAreInts, MapIncrementIsUpdated
<1>5. CASE UpdatedTo(Now, said)
  BY <1>5
<1>6. CASE \E k \in Keys : UpdatedTo(MapDelete(Now, k), [said EXCEPT ![k] = {}])
  <2>1. PICK k \in Keys : UpdatedTo(MapDelete(Now, k), [said EXCEPT ![k] = {}])
    BY <1>6
  <2> DEFINE o == MapDelete(Now, k)
             v == [said EXCEPT ![k] = {}]
  <2>2. o \in MapType /\ MapFits(o) /\ MapRel(o, p)
    BY <1>1, MapDeleteKeeps
  <2>3. \A j \in Keys : o.entries[j] = IF j = k THEN Absent ELSE Now.entries[j]
    BY <1>1 DEF MapDelete, MapType, Has
  <2>4. v \in SaidOf("map") /\ \A j \in Keys : v[j] = IF j = k THEN {} ELSE said[j]
    BY <1>1, <1>2, SumOf, 0 \in Int
  <2> HIDE DEF o, v
  <2>5. \A j \in Keys : v[j] = IF Has(o, j) THEN {o.entries[j].value} ELSE {}
    BY <1>1, <2>3, <2>4 DEF Has
  <2>6. Keeps(p, o, v)
    BY <2>2, <2>4, <2>5, MapKeepsIs
  <2> QED BY <2>1, <2>6 DEF o, v
<1>7. CASE UpdatedTo(MapClear(Now), Unsaid)
  <2> DEFINE o == MapClear(Now)
  <2>1. o \in MapType /\ MapFits(o) /\ MapRel(o, p)
    BY <1>1, MapClearKeeps
  <2>2. \A k \in Keys : ~ Has(o, k)
    BY DEF MapClear, Has, NewMap
  <2>3. Unsaid \in SaidOf("map") /\ \A k \in Keys : Unsaid[k] = {}
    BY DEF Unsaid, SaidOf
  <2> HIDE DEF o
  <2>4. Keeps(p, o, Unsaid)
    BY <2>1, <2>2, <2>3, MapKeepsIs
  <2> QED BY <1>7, <2>4 DEF o
<1> QED BY <1>3, <1>4, <1>5, <1>6, <1>7 DEF UpdateMap


LEMMA KeyedEntries ==
  ASSUME NEW S, NEW m \in KeyedType(S)
  PROVE  /\ \A k, j \in Keys : KeyedDelete(m, k).entries[j] = IF j = k THEN Absent ELSE m.entries[j]
         /\ \A j \in Keys : KeyedClear(m).entries[j] = Absent
<1>1. ASSUME NEW k \in Keys, NEW j \in Keys
      PROVE  KeyedDelete(m, k).entries[j] = IF j = k THEN Absent ELSE m.entries[j]
  BY DEF KeyedDelete, KeyedType, Has
<1>2. \A j \in Keys : KeyedClear(m).entries[j] = Absent
  BY DEF KeyedClear, NewKeyed, Has
<1> QED BY <1>1, <1>2

(* The removal of a key, or of all, in each of the three maps. *)
LEMMA KeyedIsRemoved ==
  ASSUME type \in {"counterMap", "registerMap", "multiMap"}, NEW p \in KeptAs(type),
         Keeps(p, Now, said), Remove
  PROVE  \E o, v : UpdatedTo(o, v) /\ Keeps(p, o, v)
<1> DEFINE E == IF type = "counterMap" THEN CounterType
                ELSE IF type = "registerMap" THEN RegisterType ELSE SetType
<1>1. /\ ObjectOf(type) = KeyedType(E) /\ Now \in KeyedType(E)
      /\ type = "multiMap" => Full(Now)
      /\ Related(type, Now, p) /\ said \in SaidOf(type) /\ Shows(type, turn, Now, said)
  BY KindIs DEF Keeps, KeptAs, Leads
<1> HIDE DEF E
<1>2. \A k \in Keys : [said EXCEPT ![k] = {}] \in SaidOf(type)
                      /\ \A j \in Keys : [said EXCEPT ![k] = {}][j] = IF j = k THEN {} ELSE said[j]
  BY <1>1 DEF SaidOf
<1>3. Unsaid \in SaidOf(type) /\ \A j \in Keys : Unsaid[j] = {}
  BY DEF SaidOf, Unsaid
<1>4. ASSUME NEW o \in KeyedType(E), NEW v \in SaidOf(type),
             \A j \in Keys : Untouched(Now, o, p, j) \/ Gone(o, p, j),
             \A j \in Keys : \/ o.entries[j] = Absent /\ v[j] = {}
                             \/ o.entries[j] = Now.entries[j] /\ v[j] = said[j]
      PROVE  Keeps(p, o, v)
  <2>1. Related(type, o, p)
    BY <1>1, <1>4, CounterMapDeletes, RegisterMapDeletes, MultiMapDeletes DEF Related
  <2>2. type = "multiMap" => Full(o)
    BY <1>1, <1>4 DEF Full, Has
  <2>3. Shows(type, turn, o, v)
    <3>1. CASE type = "counterMap"
      <4>1. Sum({}, 0) = 0 /\ OrNew(Absent, NewCounter).value = 0
        BY SumIs DEF OrNew, NewCounter
      <4> QED BY <1>1, <1>4, <3>1, <4>1 DEF Shows
    <3>2. CASE type = "registerMap"
      BY <1>1, <1>4, <3>2 DEF Shows, Has
    <3>3. CASE type = "multiMap"
      <4>1. OrNew(Absent, NewSet).value = {}
        BY DEF OrNew, NewSet
      <4> QED BY <1>1, <1>4, <3>3, <4>1 DEF Shows
    <3> QED BY <3>1, <3>2, <3>3
  <2> QED BY <1>1, <2>1, <2>2, <2>3 DEF Keeps, KeptAs, Leads
<1>5. ASSUME NEW k \in Keys PROVE Keeps(p, KeyedDelete(Now, k), [said EXCEPT ![k] = {}])
  <2> DEFINE o == KeyedDelete(Now, k)
             v == [said EXCEPT ![k] = {}]
  <2>1. /\ v \in SaidOf(type) /\ o \in KeyedType(E)
        /\ \A j \in Keys : v[j] = IF j = k THEN {} ELSE said[j]
    BY <1>1, <1>2, KeyedDeleteIs
  <2>2. \A j \in Keys : Untouched(Now, o, p, j) \/ Gone(o, p, j)
    BY <1>1, KeyedDeleteIs
  <2>3. \A j \in Keys : o.entries[j] = IF j = k THEN Absent ELSE Now.entries[j]
    BY <1>1, KeyedEntries
  <2> HIDE DEF o, v
  <2> QED BY <1>4, <2>1, <2>2, <2>3 DEF o, v
<1>6. Keeps(p, KeyedClear(Now), Unsaid)
  BY <1>1, <1>3, <1>4, KeyedClearIs, KeyedEntries
<1> QED BY <1>5, <1>6 DEF Remove

LEMMA CounterMapIsUpdated ==
  ASSUME type = "counterMap", NEW p \in KeptAs(type), Keeps(p, Now, said), UpdateCounterMap
  PROVE  \E o, v : UpdatedTo(o, v) /\ Keeps(p, o, v)
<1>1. CASE Remove
  BY <1>1, KeyedIsRemoved
<1>2. CASE ~ Remove
  <2>1. PICK k \in Keys, n \in Changes :
          UpdatedTo(CounterMapIncrement(Now, k, n), [said EXCEPT ![k] = {Sum(@, n)}])
    BY <1>2 DEF UpdateCounterMap
  <2> DEFINE o == CounterMapIncrement(Now, k, n)
             v == [said EXCEPT ![k] = {Sum(@, n)}]
  <2>2. /\ Now \in KeyedType(CounterType) /\ p \in KeyedType(CounterType) /\ n \in Int
        /\ CounterMapRel(Now, p) /\ said \in SaidOf("counterMap")
        /\ \A j \in Keys : OrNew(Now.entries[j], NewCounter).value = Sum(said[j], 0)
    BY ChangesAreInts, KindIs DEF Keeps, KeptAs, Leads, Related, Shows
  <2>3. o \in KeyedType(CounterType) /\ CounterMapRel(o, p)
    BY <2>2, CounterMapIncrementKeeps
  <2>4. v \in SaidOf("counterMap") /\ Sum({Sum(said[k], n)}, 0) = Sum(said[k], 0) + n
    BY <2>2, SumOf
  <2>5. said \in [Keys -> SUBSET Int]
    BY <2>2 DEF SaidOf
  <2>6. v[k] = {Sum(said[k], n)} /\ \A j \in Keys : j # k => v[j] = said[j]
    BY <2>5
  <2>7. /\ o.entries[k] = CounterIncrement(OrNew(Now.entries[k], NewCounter), n)
        /\ \A j \in Keys : j # k => o.entries[j] = Now.entries[j]
    BY <2>2 DEF CounterMapIncrement, KeyedType, Entry, Has, OrNew
  <2> HIDE DEF o, v
  <2>8. o.entries[k].value = OrNew(Now.entries[k], NewCounter).value + n /\ o.entries[k] # Absent
    BY <2>7 DEF CounterIncrement, Absent
  <2>9. OrNew(o.entries[k], NewCounter).value = Sum(v[k], 0)
    <3>1. OrNew(o.entries[k], NewCounter) = o.entries[k]
      BY <2>8 DEF OrNew
    <3> QED BY <2>2, <2>4, <2>6, <2>8, <3>1
  <2>10. \A j \in Keys : OrNew(o.entries[j], NewCounter).value = Sum(v[j], 0)
    BY <2>2, <2>6, <2>7, <2>9
  <2>11. Keeps(p, o, v)
    BY <2>3, <2>4, <2>10, KindIs DEF Keeps, KeptAs, Leads, Related, Shows
  <2> QED BY <2>1, <2>11 DEF o, v
<1> QED BY <1>1, <1>2

LEMMA RegisterMapIsUpdated ==
  ASSUME type = "registerMap", NEW p \in KeptAs(type), Keeps(p, Now, said), UpdateRegisterMap
  PROVE  \E o, v : UpdatedTo(o, v) /\ Keeps(p, o, v)
<1>1. CASE Remove
  BY <1>1, KeyedIsRemoved
<1>2. CASE ~ Remove
  <2>1. PICK k \in Keys, x \in Values : UpdatedTo(RegisterMapSet(Now, k, x), [said EXCEPT ![k] = {x}])
    BY <1>2 DEF UpdateRegisterMap
  <2> DEFINE o == RegisterMapSet(Now, k, x)
             v == [said EXCEPT ![k] = {x}]
  <2>2. /\ Now \in KeyedType(RegisterType) /\ RegisterMapRel(Now, p)
        /\ said \in [Keys -> SUBSET Values]
        /\ \A j \in Keys : said[j] = IF Has(Now, j) THEN {Now.entries[j].value} ELSE {}
    BY KindIs DEF Keeps, KeptAs, Leads, Related, Shows, SaidOf
  <2>3. o \in KeyedType(RegisterType) /\ RegisterMapRel(o, p)
    BY <2>2, RegisterMapSetKeeps
  <2>4. /\ o.entries[k] = NewRegister(x)
        /\ \A j \in Keys : j # k => o.entries[j] = Now.entries[j]
    BY <2>2 DEF RegisterMapSet, KeyedType
  <2>5. NewRegister(x).value = x /\ NewRegister(x) # Absent
    BY DEF NewRegister, Absent
  <2>6. v \in [Keys -> SUBSET Values] /\ v[k] = {x} /\ \A j \in Keys : j # k => v[j] = said[j]
    BY <2>2
  <2> HIDE DEF o, v
  <2>7. \A j \in Keys : v[j] = IF Has(o, j) THEN {o.entries[j].value} ELSE {}
    <3>1. v[k] = {o.entries[k].value} /\ Has(o, k)
      BY <2>4, <2>5, <2>6 DEF Has
    <3>2. ASSUME NEW j \in Keys, j # k PROVE v[j] = IF Has(o, j) THEN {o.entries[j].value} ELSE {}
      BY <2>2, <2>4, <2>6, <3>2 DEF Has
    <3> QED BY <3>1, <3>2
  <2>8. Keeps(p, o, v)
    BY <2>3, <2>6, <2>7, KindIs DEF Keeps, KeptAs, Leads, Related, Shows, SaidOf
  <2> QED BY <2>1, <2>8 DEF o, v
<1> QED BY <1>1, <1>2

LEMMA MultiMapKeepsIs ==
  ASSUME type = "multiMap", NEW p, NEW o, NEW v
  PROVE  Keeps(p, o, v) <=>
           /\ o \in KeyedType(SetType) /\ Full(o) /\ MultiMapRel(o, p) /\ v \in [Keys -> SUBSET Elements]
           /\ \A k \in Keys : OrNew(o.entries[k], NewSet).value = v[k]
BY KindIs DEF Keeps, KeptAs, Leads, Related, Shows, SaidOf

LEMMA MultiMapIsUpdated ==
  ASSUME type = "multiMap", NEW p \in KeptAs(type), Keeps(p, Now, said), UpdateMultiMap
  PROVE  \E o, v : UpdatedTo(o, v) /\ Keeps(p, o, v)
<1>1. /\ Now \in KeyedType(SetType) /\ Full(Now) /\ MultiMapRel(Now, p) /\ said \in [Keys -> SUBSET Elements]
      /\ \A k \in Keys : OrNew(Now.entries[k], NewSet).value = said[k]
  BY MultiMapKeepsIs
<1>2. p \in KeyedType(SetType)
  BY KindIs DEF KeptAs
<1>3. CASE Remove
  BY <1>3, KeyedIsRemoved
<1>4. ASSUME NEW k \in Keys, NEW e \in Elements
      PROVE  Keeps(p, MultiMapPutAll(Now, k, {e}), [said EXCEPT ![k] = @ \cup {e}])
  <2> DEFINE s == OrNew(Now.entries[k], NewSet)
             o == MultiMapPutAll(Now, k, {e})
             v == [said EXCEPT ![k] = @ \cup {e}]
  <2>1. s \in SetType /\ s.value = said[k]
    BY <1>1, SetEntry DEF KeyedType
  <2>2. o \in KeyedType(SetType) /\ MultiMapRel(o, p)
    BY <1>1, <1>2, MultiMapPutAllKeeps
  <2>3. o.entries[k] = SetAdd(s, e) /\ \A j \in Keys : j # k => o.entries[j] = Now.entries[j]
    BY <1>1 DEF MultiMapPutAll, KeyedType, Entry, Has, OrNew, SetAdd
  <2>4. v \in [Keys -> SUBSET Elements] /\ v[k] = said[k] \cup {e} /\ \A j \in Keys : j # k => v[j] = said[j]
    BY <1>1
  <2> HIDE DEF o, v, s
  <2>5. o.entries[k].value = v[k] /\ v[k] # {}
    BY <2>1, <2>3, <2>4, SetValues
  <2>6. OrNew(o.entries[k], NewSet).value = v[k]
    <3>1. o.entries[k] \in SetType
      <4>1. OrNew(Kept(p, Now)[k], NewSet).value \in SUBSET Elements
        BY <1>2, KeptIs, SetEntry
      <4>2. SetRel(s, OrNew(Kept(p, Now)[k], NewSet).value)
        BY <1>1 DEF MultiMapRel, SetEntryRel, s
      <4> QED BY <2>1, <2>3, <4>1, <4>2, SetAddAllKeeps DEF SetAdd
    <3> QED BY <2>5, <3>1, AbsentIsNoObject DEF OrNew
  <2>7. \A j \in Keys : OrNew(o.entries[j], NewSet).value = v[j]
    BY <1>1, <2>3, <2>4, <2>6
  <2>8. Full(o)
    BY <1>1, <2>3, <2>5 DEF Full, Has
  <2> QED BY <2>2, <2>4, <2>7, <2>8, MultiMapKeepsIs DEF o, v
<1>5. ASSUME NEW k \in Keys, NEW e \in Elements
      PROVE  Keeps(p, MultiMapDelete(Now, k, e), [said EXCEPT ![k] = @ \ {e}])
  <2> DEFINE o == MultiMapDelete(Now, k, e)
             v == [said EXCEPT ![k] = @ \ {e}]
             left == SetDelete(Now.entries[k], e)
  <2>1. o \in KeyedType(SetType) /\ MultiMapRel(o, p)
    BY <1>1, <1>2, MultiMapDeleteKeeps
  <2>2. v \in [Keys -> SUBSET Elements] /\ v[k] = said[k] \ {e} /\ \A j \in Keys : j # k => v[j] = said[j]
    BY <1>1
  <2>3. Has(Now, k) => Now.entries[k] \in SetType /\ Now.entries[k].value = said[k]
    BY <1>1 DEF KeyedType, OrAbsent, Has, OrNew
  <2>4. ~ Has(Now, k) => said[k] = {}
    BY <1>1 DEF Has, OrNew, NewSet
  <2>5. Has(Now, k) => left.value = v[k]
    BY <2>2, <2>3, SetValues
  <2>6. CASE ~ Has(Now, k)
    <3>1. o = Now
      BY <2>6 DEF MultiMapDelete
    <3>2. \A j \in Keys : v[j] = said[j]
      BY <2>2, <2>4, <2>6
    <3> HIDE DEF o, v, left
    <3> QED BY <1>1, <2>2, <3>1, <3>2, MultiMapKeepsIs DEF o, v
  <2>7. CASE Has(Now, k) /\ left.value = {}
    <3>1. o = KeyedDelete(Now, k)
      BY <2>7 DEF MultiMapDelete
    <3>2. \A j \in Keys : o.entries[j] = IF j = k THEN Absent ELSE Now.entries[j]
      BY <1>1, <3>1, KeyedEntries
    <3>3. v[k] = {}
      BY <2>5, <2>7
    <3> HIDE DEF o, v, left
    <3>4. \A j \in Keys : OrNew(o.entries[j], NewSet).value = v[j]
      BY <1>1, <2>2, <3>2, <3>3 DEF OrNew, NewSet
    <3>5. Full(o)
      BY <1>1, <3>2 DEF Full, Has
    <3> QED BY <2>1, <2>2, <3>4, <3>5, MultiMapKeepsIs DEF o, v
  <2>8. CASE Has(Now, k) /\ left.value # {}
    <3>1. o.entries[k] = left /\ \A j \in Keys : j # k => o.entries[j] = Now.entries[j]
      BY <1>1, <2>8 DEF MultiMapDelete, KeyedType
    <3>2. left.value = v[k] /\ v[k] # {}
      BY <2>5, <2>8
    <3>3. left # Absent
      BY <2>3, <2>8, AbsentIsNoObject DEF SetDelete, SetClear, SetType, NewSet, Absent
    <3> HIDE DEF o, v, left
    <3>4. \A j \in Keys : OrNew(o.entries[j], NewSet).value = v[j]
      BY <1>1, <2>2, <3>1, <3>2, <3>3 DEF OrNew
    <3>5. Full(o)
      BY <1>1, <3>1, <3>2 DEF Full, Has
    <3> QED BY <2>1, <2>2, <3>4, <3>5, MultiMapKeepsIs DEF o, v
  <2> QED BY <2>6, <2>7, <2>8
<1> QED BY <1>3, <1>4, <1>5 DEF UpdateMultiMap

LEMMA VoteIsUpdated ==
  ASSUME type = "vote", turn \in Nodes, NEW p \in KeptAs(type), Keeps(p, Now, said), UpdateVote
  PROVE  \E o, v : UpdatedTo(o, v) /\ Keeps(p, o, v)
<1>1. PICK vote \in BOOLEAN : UpdatedTo(VoteSet(Now, vote), [said EXCEPT ![turn] = vote])
  BY DEF UpdateVote
<1> DEFINE o == VoteSet(Now, vote)
           v == [said EXCEPT ![turn] = vote]
<1>2. /\ Now \in VoteType /\ p \in VoteType /\ VoteRel(Now, p) /\ said \in [Nodes -> BOOLEAN]
      /\ Now.self = said[turn] /\ Now.votesFor = Num(said[1]) + Num(said[2])
  BY KindIs DEF Keeps, KeptAs, Leads, Related, Shows, SaidOf
<1>3. o \in VoteType /\ VoteRel(o, p)
  BY <1>2, VoteSetKeeps
<1>4. o.self = vote
  BY <1>2 DEF VoteSet, VoteType
<1>5. v \in [Nodes -> BOOLEAN] /\ v[turn] = vote /\ v[3 - turn] = said[3 - turn]
  <2>1. 3 - turn \in Nodes /\ 3 - turn # turn
    BY DEF Nodes
  <2> QED BY <1>2, <2>1
<1>6. o.votesFor = Num(v[1]) + Num(v[2])
  <2>1. /\ Num(v[1]) + Num(v[2]) = Num(v[turn]) + Num(v[3 - turn])
        /\ Num(said[1]) + Num(said[2]) = Num(said[turn]) + Num(said[3 - turn])
    <3>1. CASE turn = 1
      BY <3>1 DEF Num
    <3>2. CASE turn = 2
      BY <3>2 DEF Num
    <3> QED BY <3>1, <3>2 DEF Nodes
  <2>2. said[3 - turn] \in BOOLEAN /\ said[turn] \in BOOLEAN
    BY <1>2 DEF Nodes
  <2>3. p.self = said[3 - turn]
    <3>1. Now.self \in BOOLEAN /\ p.self \in BOOLEAN
      BY <1>2 DEF VoteType
    <3>2. Num(said[1]) + Num(said[2]) = Num(Now.self) + Num(p.self)
      BY <1>2 DEF VoteRel
    <3> QED BY <1>2, <3>1, <3>2, VotesOfOther
  <2>4. o.votesFor = Num(o.self) + Num(p.self)
    BY <1>3 DEF VoteRel
  <2> QED BY <1>4, <1>5, <2>1, <2>3, <2>4
<1> HIDE DEF o, v
<1>7. Keeps(p, o, v)
  BY <1>3, <1>4, <1>5, <1>6, KindIs DEF Keeps, KeptAs, Leads, Related, Shows, SaidOf
<1> QED BY <1>1, <1>7 DEF o, v

LEMMA IsUpdated ==
  ASSUME type \in Kinds, turn \in Nodes, NEW p \in KeptAs(type), Keeps(p, Now, said), Update
  PROVE  \E o, v : UpdatedTo(o, v) /\ Keeps(p, o, v)
BY CounterIsUpdated, SetIsUpdated, RegisterIsUpdated, MapIsUpdated, CounterMapIsUpdated,
   RegisterMapIsUpdated, MultiMapIsUpdated, VoteIsUpdated DEF Update

----------------------------------------------------------------------------
(* The invariant. *)

(* What node r has, or would make. *)
Held(r) == IF objects[r] = Null THEN CreateReplicatedData ELSE objects[r]
AllShow == \A r \in Nodes : Shows(type, r, Held(r), said)

(* What the other node has of what the one in its turn publishes. *)
Told == IF objects[Peer] = Null THEN CreateForDelta ELSE objects[Peer]

InTurn ==
  /\ Now = Null => said = Unsaid /\ noState
  /\ Now # Null => Shows(type, turn, Now, said) /\ Leads(type, Now, Told)
  /\ noState => /\ Shows(type, Peer, Held(Peer), Unsaid)
                /\ type = "register" /\ objects[Peer] # Null => objects[Peer].delta # Absent
  /\ steps = 0 => Now # Null /\ Settled(type, Now) /\ AllShow

(* A register that one node has and the other has not was never told of. *)
OneRegister ==
  \A r \in Nodes : objects[r] # Null /\ objects[3 - r] = Null => objects[r].delta # Absent

RequestsInv ==
  /\ type \in Kinds /\ turn \in Nodes \cup {0} /\ steps \in Nat
  /\ said \in SaidOf(type)
  /\ objects \in [Nodes -> KeptAs(type) \cup {Null}]
  /\ \A r \in Nodes : objects[r] # Null /\ turn # r => Settled(type, objects[r])
  /\ IF turn = 0 THEN AllShow ELSE InTurn
  /\ type = "register" => OneRegister

LEMMA PeersAre ==
  ASSUME turn \in Nodes
  PROVE  /\ Peer \in Nodes /\ Peer # turn /\ 3 - Peer = turn /\ turn # 0
         /\ \A r \in Nodes : r = turn \/ r = Peer
BY DEF Nodes, Peer

LEMMA NodesAre == \A r \in Nodes : r # 0 /\ 3 - r \in Nodes /\ 3 - r # r /\ 3 - (3 - r) = r
                                   /\ \A s \in Nodes : s = r \/ s = 3 - r
BY DEF Nodes

LEMMA KeptIsNotNull == ASSUME NEW t \in Kinds PROVE Null \notin KeptAs(t)
BY NullIsNoObject DEF KeptAs

(* Nothing is said, and nobody has anything. *)
Nothing ==
  /\ type \in Kinds /\ steps \in Nat /\ turn = 0
  /\ objects = [r \in Nodes |-> Null] /\ said = Unsaid

LEMMA NothingKeeps == Nothing => RequestsInv
<1> SUFFICES ASSUME Nothing PROVE RequestsInv
  OBVIOUS
<1>1. \A r \in Nodes : objects[r] = Null /\ Held(r) = CreateReplicatedData
  BY DEF Held, Nothing
<1>2. AllShow
  BY <1>1, NewIs DEF AllShow, Nothing
<1>3. said \in SaidOf(type) /\ objects \in [Nodes -> KeptAs(type) \cup {Null}]
  BY NewIs DEF Nothing
<1> QED BY <1>1, <1>2, <1>3 DEF RequestsInv, OneRegister, Nothing

LEMMA RequestsBegin ==
  ASSUME RequestsInv, NEW r \in Nodes, Begin(r)
  PROVE  RequestsInv'
<1>0. PICK s, o, base : s = 3 - r /\ o = Held(r)
                        /\ base = IF objects[s] = Null THEN CreateForDelta ELSE objects[s]
  OBVIOUS
<1>1. s \in Nodes /\ s # r /\ 3 - s = r /\ r # 0 /\ \A x \in Nodes : x = r \/ x = s
  BY <1>0, NodesAre
<1>2. /\ type' = type /\ said' = said /\ turn' = r /\ steps' = 0 /\ turn = 0
      /\ noState' = (objects[r] = Null)
  BY DEF Begin
<1>3. /\ type \in Kinds /\ said \in SaidOf(type) /\ objects \in [Nodes -> KeptAs(type) \cup {Null}]
      /\ AllShow
      /\ type = "register" => OneRegister
  BY <1>2 DEF RequestsInv
<1>4. \A x \in Nodes : objects[x] # Null => objects[x] \in KeptAs(type) /\ Settled(type, objects[x])
  <2> SUFFICES ASSUME NEW x \in Nodes, objects[x] # Null
               PROVE  objects[x] \in KeptAs(type) /\ Settled(type, objects[x])
    OBVIOUS
  <2>1. turn # x
    BY <1>2, NodesAre
  <2> QED BY <1>3, <2>1 DEF RequestsInv
<1>5. o \in KeptAs(type) /\ Settled(type, o) /\ o # Null
  <2>1. CASE objects[r] = Null
    BY <1>0, <1>3, <2>1, NewIs, KeptIsNotNull DEF Held
  <2>2. CASE objects[r] # Null
    BY <1>0, <1>4, <2>2 DEF Held
  <2> QED BY <2>1, <2>2
<1>6. objects' = [objects EXCEPT ![r] = o]
  <2>1. CASE objects[r] = Null
    BY <1>0, <2>1 DEF Begin, Held
  <2>2. CASE objects[r] # Null
    BY <1>0, <1>3, <2>2 DEF Begin, Held
  <2> QED BY <2>1, <2>2
<1>7. objects'[r] = o /\ objects'[s] = objects[s] /\ Peer' = s /\ Now' = o
  BY <1>0, <1>1, <1>2, <1>3, <1>6 DEF Peer, Now
<1>8. Unsaid' = Unsaid /\ CreateReplicatedData' = CreateReplicatedData /\ CreateForDelta' = CreateForDelta
  BY <1>2 DEF Unsaid, CreateReplicatedData, CreateForDelta, New
<1>9. Held(r)' = o /\ Held(s)' = Held(s) /\ Told' = base
  BY <1>0, <1>5, <1>7, <1>8 DEF Held, Told
<1>10. Shows(type, r, o, said) /\ Shows(type, s, Held(s), said)
  BY <1>0, <1>1, <1>3 DEF AllShow
<1>11. AllShow'
  <2> SUFFICES ASSUME NEW x \in Nodes PROVE Shows(type', x, Held(x)', said')
    BY DEF AllShow
  <2> QED BY <1>1, <1>2, <1>9, <1>10
<1>12. base \in KeptAs(type) /\ Settled(type, base)
  BY <1>0, <1>1, <1>3, <1>4, NewIs
<1>13. type = "register" /\ objects[s] = Null => o.delta # Absent
  <2> SUFFICES ASSUME type = "register", objects[s] = Null PROVE o.delta # Absent
    OBVIOUS
  <2>1. CASE objects[r] = Null
    BY <1>0, <1>3, <2>1, NewIs DEF Held
  <2>2. CASE objects[r] # Null
    BY <1>0, <1>3, <2>2 DEF Held, OneRegister
  <2> QED BY <2>1, <2>2
<1>14. Leads(type, o, base)
  <2>1. CASE objects[s] = Null /\ type = "register"
    BY <1>5, <1>13, <2>1 DEF Leads, Related, RegisterRel, Settled
  <2>2. CASE objects[s] # Null \/ type # "register"
    <3>1. base = Held(s)
      BY <1>0, <1>3, <2>2, NewIs DEF Held
    <3> QED BY <1>0, <1>3, <1>5, <1>10, <1>12, <3>1, ShowsLead
  <2> QED BY <2>1, <2>2
<1>15. noState' => /\ Shows(type, s, Held(s), Unsaid)
                   /\ type = "register" /\ objects[s] # Null => objects[s].delta # Absent
  <2> SUFFICES ASSUME objects[r] = Null
               PROVE  /\ Shows(type, s, Held(s), Unsaid)
                      /\ type = "register" /\ objects[s] # Null => objects[s].delta # Absent
    BY <1>2
  <2>1. Shows(type, r, CreateReplicatedData, said)
    BY <1>0, <1>10 DEF Held
  <2>2. Shows(type, s, Held(s), Unsaid)
    BY <1>3, <1>10, <2>1, NewShowsUnsaid
  <2>3. type = "register" /\ objects[s] # Null => objects[s].delta # Absent
    BY <1>1, <1>3 DEF OneRegister
  <2> QED BY <2>2, <2>3
<1>16. type' = "register" => OneRegister'
  <2> SUFFICES ASSUME type = "register", NEW x \in Nodes, objects'[x] # Null, objects'[3 - x] = Null
               PROVE  objects'[x].delta # Absent
    BY <1>2 DEF OneRegister
  <2>1. x = r
    BY <1>1, <1>5, <1>7
  <2> QED BY <1>0, <1>7, <1>13, <2>1
<1>17. objects' \in [Nodes -> KeptAs(type') \cup {Null}]
  BY <1>2, <1>3, <1>5, <1>6
<1>18. \A x \in Nodes : objects'[x] # Null /\ turn' # x => Settled(type', objects'[x])
  BY <1>1, <1>2, <1>4, <1>7
<1>19. InTurn'
  <2>1. (Now = Null => said = Unsaid /\ noState)'
    BY <1>5, <1>7
  <2>2. (Now # Null => Shows(type, turn, Now, said) /\ Leads(type, Now, Told))'
    BY <1>2, <1>7, <1>9, <1>10, <1>14
  <2>3. (noState => /\ Shows(type, Peer, Held(Peer), Unsaid)
                    /\ type = "register" /\ objects[Peer] # Null => objects[Peer].delta # Absent)'
    BY <1>2, <1>7, <1>8, <1>9, <1>15
  <2>4. (steps = 0 => Now # Null /\ Settled(type, Now) /\ AllShow)'
    BY <1>2, <1>5, <1>7, <1>11
  <2> QED BY <2>1, <2>2, <2>3, <2>4 DEF InTurn
<1> QED BY <1>1, <1>2, <1>3, <1>16, <1>17, <1>18, <1>19 DEF RequestsInv

(* What a step of a request leaves alone. *)
LEMMA RequestsStep ==
  ASSUME RequestsInv, InRequest, NEW o \in KeptAs(type) \cup {Null},
         objects' = [objects EXCEPT ![turn] = o], said' \in SaidOf(type),
         o = Null => said' = Unsaid /\ noState,
         o # Null => Shows(type, turn, o, said') /\ Leads(type, o, Told),
         type = "register" /\ o # Null /\ objects[Peer] = Null => o.delta # Absent,
         o = Null => noState
  PROVE  RequestsInv'
<1>1. /\ type' = type /\ turn' = turn /\ noState' = noState /\ turn # 0 /\ turn \in Nodes
      /\ steps' \in Nat /\ steps' # 0
  BY DEF InRequest, RequestsInv
<1>2. /\ Peer \in Nodes /\ Peer # turn /\ 3 - Peer = turn /\ 3 - turn = Peer
      /\ \A r \in Nodes : r = turn \/ r = Peer
  BY <1>1, PeersAre DEF Peer
<1>3. /\ type \in Kinds /\ objects \in [Nodes -> KeptAs(type) \cup {Null}]
      /\ InTurn
      /\ type = "register" => OneRegister
  BY <1>1 DEF RequestsInv
<1>4. Peer' = Peer /\ objects'[turn] = o /\ objects'[Peer] = objects[Peer] /\ Now' = o
  BY <1>1, <1>2, <1>3 DEF Peer, Now
<1>5. Unsaid' = Unsaid /\ CreateReplicatedData' = CreateReplicatedData /\ CreateForDelta' = CreateForDelta
  BY <1>1 DEF Unsaid, CreateReplicatedData, CreateForDelta, New
<1>6. Told' = Told
  BY <1>4, <1>5 DEF Told
<1>7. Held(Peer)' = Held(Peer)
  BY <1>4, <1>5 DEF Held
<1>8. noState' => /\ Shows(type, Peer, Held(Peer)', Unsaid')
                  /\ type = "register" /\ objects'[Peer] # Null => objects'[Peer].delta # Absent
  BY <1>1, <1>3, <1>4, <1>5, <1>7 DEF InTurn
<1>9. InTurn'
  <2>1. (Now = Null => said = Unsaid /\ noState)'
    BY <1>1, <1>4, <1>5
  <2>2. (Now # Null => Shows(type, turn, Now, said) /\ Leads(type, Now, Told))'
    BY <1>1, <1>4, <1>6
  <2>3. (noState => /\ Shows(type, Peer, Held(Peer), Unsaid)
                    /\ type = "register" /\ objects[Peer] # Null => objects[Peer].delta # Absent)'
    BY <1>1, <1>4, <1>8
  <2> QED BY <1>1, <2>1, <2>2, <2>3 DEF InTurn
<1>10. type = "register" => OneRegister'
  <2> SUFFICES ASSUME type = "register" PROVE OneRegister'
    OBVIOUS
  <2>1. objects'[turn] # Null /\ objects'[Peer] = Null => objects'[turn].delta # Absent
    BY <1>4
  <2>2. objects'[Peer] # Null /\ objects'[turn] = Null => objects'[Peer].delta # Absent
    BY <1>3, <1>4 DEF InTurn
  <2> QED BY <1>2, <2>1, <2>2 DEF OneRegister
<1>11. objects' \in [Nodes -> KeptAs(type) \cup {Null}]
  BY <1>1, <1>3
<1>12. \A r \in Nodes : objects'[r] # Null /\ turn' # r => Settled(type, objects'[r])
  BY <1>1, <1>2, <1>4 DEF RequestsInv
<1> QED BY <1>1, <1>3, <1>9, <1>10, <1>11, <1>12 DEF RequestsInv

LEMMA ToldIs ==
  ASSUME RequestsInv, turn # 0
  PROVE  /\ turn \in Nodes /\ Peer \in Nodes /\ type \in Kinds
         /\ Told \in KeptAs(type) /\ Settled(type, Told)
<1>1. turn \in Nodes /\ type \in Kinds
  BY DEF RequestsInv
<1> QED BY <1>1, PeersAre, NewIs DEF RequestsInv, Told

LEMMA RequestsUpdate ==
  ASSUME RequestsInv, Update
  PROVE  RequestsInv'
<1>1. turn # 0 /\ Now # Null
  BY DEF Update
<1>2. turn \in Nodes /\ Peer \in Nodes /\ type \in Kinds /\ Told \in KeptAs(type)
  BY <1>1, ToldIs
<1>3. /\ Now \in KeptAs(type) /\ said \in SaidOf(type)
      /\ Shows(type, turn, Now, said) /\ Leads(type, Now, Told)
  BY <1>1, <1>2 DEF RequestsInv, InTurn, Now
<1>4. PICK o, v : UpdatedTo(o, v) /\ Keeps(Told, o, v)
  <2>1. CASE type = "register"
    <3>1. UpdateRegister
      BY <1>1, <2>1 DEF Update
    <3>2. PICK v \in Values : UpdatedTo(RegisterSet(Now, v), v)
      BY <3>1 DEF UpdateRegister
    <3>3. /\ RegisterSet(Now, v) \in RegisterType /\ RegisterSet(Now, v).value = v
          /\ RegisterSet(Now, v).delta = v /\ v # Absent
      BY RegisterIs DEF RegisterSet
    <3>4. Keeps(Told, RegisterSet(Now, v), v)
      BY <2>1, <3>3, KindIs DEF Keeps, KeptAs, SaidOf, Leads, Related, RegisterRel, Shows
    <3> QED BY <3>2, <3>4
  <2>2. CASE type # "register"
    <3>1. Keeps(Told, Now, said)
      BY <1>3, <2>2 DEF Keeps
    <3> QED BY <1>2, <3>1, IsUpdated
  <2> QED BY <2>1, <2>2
<1>5. InRequest /\ objects' = [objects EXCEPT ![turn] = o] /\ said' = v
  BY <1>4 DEF UpdatedTo
<1>6. /\ o \in KeptAs(type) /\ v \in SaidOf(type) /\ o # Null
      /\ Leads(type, o, Told) /\ Shows(type, turn, o, v)
      /\ type = "register" => o.delta # Absent
  BY <1>2, <1>4, KeptIsNotNull DEF Keeps
<1>7. /\ o \in KeptAs(type) \cup {Null} /\ said' \in SaidOf(type)
      /\ o # Null => Shows(type, turn, o, said') /\ Leads(type, o, Told)
      /\ type = "register" /\ o # Null /\ objects[Peer] = Null => o.delta # Absent
  BY <1>5, <1>6
<1> QED BY <1>5, <1>6, <1>7, RequestsStep

LEMMA RequestsUpdateMissing ==
  ASSUME RequestsInv, UpdateMissing
  PROVE  RequestsInv'
<1>1. turn # 0 /\ Now = Null /\ InRequest /\ objects' = [objects EXCEPT ![turn] = Null] /\ said' = said
  BY DEF UpdateMissing, UpdatedTo
<1>2. said \in SaidOf(type) /\ said = Unsaid /\ noState
  BY <1>1 DEF RequestsInv, InTurn
<1> QED BY <1>1, <1>2, RequestsStep

LEMMA RequestsDelete ==
  ASSUME RequestsInv, Delete
  PROVE  RequestsInv'
<1>0. PICK now : now = Now
  OBVIOUS
<1>1. turn # 0 /\ InRequest /\ now = Now /\ Now # Null /\ type \in Kinds /\ turn \in Nodes
  BY <1>0 DEF Delete, InRequest, RequestsInv
<1>2. CASE noState
  <2>1. objects' = [objects EXCEPT ![turn] = Null] /\ said' = Unsaid
    BY <1>2 DEF Delete
  <2> QED BY <1>1, <1>2, <2>1, NewIs, RequestsStep
<1>3. CASE ~ noState
  <2>1. objects' = [objects EXCEPT ![turn] = now] /\ said' = said
    BY <1>0, <1>3 DEF Delete, Now, RequestsInv
  <2>2. /\ now \in KeptAs(type) \cup {Null} /\ now # Null /\ said' \in SaidOf(type)
        /\ Shows(type, turn, now, said') /\ Leads(type, now, Told)
    BY <1>0, <1>1, <2>1 DEF RequestsInv, InTurn, Now
  <2>3. type = "register" => OneRegister
    BY DEF RequestsInv
  <2>4. type = "register" /\ now # Null /\ objects[Peer] = Null => now.delta # Absent
    BY <1>1, <2>3 DEF OneRegister, Now, Peer
  <2> QED BY <1>1, <2>1, <2>2, <2>4, RequestsStep
<1> QED BY <1>2, <1>3

LEMMA RequestsFail ==
  ASSUME RequestsInv, Fail
  PROVE  RequestsInv'
<1>1. /\ turn # 0 /\ steps = 0 /\ turn' = 0
      /\ UNCHANGED <<type, objects, made, steps, noState, deleted, said>>
  BY DEF Fail
<1>2. InTurn /\ AllShow /\ Settled(type, Now)
  BY <1>1 DEF RequestsInv, InTurn
<1>3. \A r \in Nodes : objects[r] # Null => Settled(type, objects[r])
  BY <1>2 DEF RequestsInv, Now
<1>4. AllShow'
  BY <1>1, <1>2 DEF AllShow, Held, CreateReplicatedData, New
<1>5. type = "register" => OneRegister'
  BY <1>1 DEF RequestsInv, OneRegister
<1> QED BY <1>1, <1>3, <1>4, <1>5 DEF RequestsInv

LEMMA RequestsEndDeleted == RequestsInv /\ EndDeleted => RequestsInv'
<1>1. RequestsInv /\ EndDeleted => Nothing'
  <2>1. type' = type => Unsaid' = Unsaid
    BY DEF Unsaid
  <2> QED BY <2>1 DEF RequestsInv, EndDeleted, EndRequest, Nothing
<1> QED BY <1>1, NothingKeeps, PTL

(* Both nodes have been told: each shows what was said. *)
LEMMA RequestsTold ==
  ASSUME RequestsInv, turn # 0, Now # Null, Changed(Now), EndKept
  PROVE  RequestsInv'
<1>1. PICK now, told : now = Now /\ told = Told
  OBVIOUS
<1>2. /\ turn \in Nodes /\ Peer \in Nodes /\ Peer # turn /\ 3 - turn = Peer
      /\ \A r \in Nodes : r = turn \/ r = Peer
  BY ToldIs, PeersAre DEF Peer
<1>3. /\ type \in Kinds /\ told \in KeptAs(type) /\ Settled(type, told)
      /\ now \in KeptAs(type) /\ said \in SaidOf(type) /\ objects \in [Nodes -> KeptAs(type) \cup {Null}]
      /\ Shows(type, turn, now, said) /\ Leads(type, now, told) /\ ChangedAs(type, now)
  BY <1>1, ToldIs, ChangedIs DEF RequestsInv, InTurn, Now
<1>4. PICK o, p : o = Published(now) /\ p = Received(told, now)
  OBVIOUS
<1>5. /\ o \in KeptAs(type) /\ p \in KeptAs(type) /\ Settled(type, o) /\ Settled(type, p)
      /\ Shows(type, turn, o, said) /\ Shows(type, Peer, p, said)
  BY <1>2, <1>3, <1>4, ToldShows
<1>6. o # Null /\ p # Null
  BY <1>3, <1>5, KeptIsNotNull
<1>7. turn' = 0 /\ type' = type /\ steps' = steps /\ said' = said
  BY DEF EndKept, EndRequest
<1>8. objects' = [objects EXCEPT ![turn] = o, ![Peer] = p]
  BY <1>1, <1>2, <1>3, <1>4 DEF EndKept, Now, Told
<1>9. objects' \in [Nodes -> KeptAs(type')] /\ objects'[turn] = o /\ objects'[Peer] = p
  BY <1>2, <1>3, <1>5, <1>7, <1>8
<1>10. \A r \in Nodes : /\ objects'[r] # Null /\ Held(r)' = objects'[r]
                        /\ Settled(type', objects'[r]) /\ Shows(type', r, objects'[r], said')
  <2> SUFFICES ASSUME NEW r \in Nodes
               PROVE  /\ objects'[r] # Null /\ Held(r)' = objects'[r]
                      /\ Settled(type', objects'[r]) /\ Shows(type', r, objects'[r], said')
    OBVIOUS
  <2>1. CASE r = turn
    BY <1>5, <1>6, <1>7, <1>9, <2>1 DEF Held
  <2>2. CASE r = Peer
    BY <1>5, <1>6, <1>7, <1>9, <2>2 DEF Held
  <2> QED BY <1>2, <2>1, <2>2
<1>11. AllShow'
  BY <1>10 DEF AllShow
<1>12. OneRegister'
  BY <1>10, NodesAre DEF OneRegister
<1> QED BY <1>3, <1>7, <1>9, <1>10, <1>11, <1>12 DEF RequestsInv

(* There was nothing to tell: both nodes show it already. *)
LEMMA RequestsNotTold ==
  ASSUME RequestsInv, turn # 0, Now = Null \/ ~ Changed(Now), EndKept
  PROVE  RequestsInv'
<1>1. PICK now, told : now = Now /\ told = Told
  OBVIOUS
<1>2. /\ turn \in Nodes /\ Peer \in Nodes /\ Peer # turn /\ 3 - turn = Peer
      /\ \A r \in Nodes : r = turn \/ r = Peer
  BY ToldIs, PeersAre DEF Peer
<1>3. /\ type \in Kinds /\ told \in KeptAs(type)
      /\ said \in SaidOf(type) /\ objects \in [Nodes -> KeptAs(type) \cup {Null}]
      /\ now = Null => said = Unsaid /\ noState
      /\ noState => Shows(type, Peer, Held(Peer), Unsaid)
      /\ now # Null => Shows(type, turn, now, said) /\ Leads(type, now, told)
  BY <1>1, ToldIs DEF RequestsInv, InTurn
<1>4. turn' = 0 /\ type' = type /\ steps' = steps /\ said' = said /\ objects' = objects
  BY DEF EndKept, EndRequest
<1>5. now # Null => ~ ChangedAs(type, now) /\ now \in KeptAs(type)
  BY <1>1, <1>2, <1>3, ChangedIs DEF Now
<1>6. now # Null => Settled(type, now)
  BY <1>5 DEF Settled, ChangedAs, RegisterChanged
<1>7. Shows(type, turn, Held(turn), said)
  BY <1>1, <1>2, <1>3, NewIs DEF Held, Now
<1>8. Shows(type, Peer, Held(Peer), said)
  <2>1. CASE now = Null
    BY <1>3, <2>1
  <2>2. CASE now # Null
    <3>1. Shows(type, Peer, told, said)
      BY <1>2, <1>3, <1>5, <2>2, LeadsShows
    <3>2. told = Held(Peer)
      <4>1. CASE objects[Peer] # Null
        BY <1>1, <4>1 DEF Told, Held
      <4>2. CASE type # "register"
        BY <1>1, <1>3, <4>2, NewIs DEF Told, Held
      <4>3. ASSUME objects[Peer] = Null, type = "register" PROVE FALSE
        <5>1. OneRegister
          BY <4>3 DEF RequestsInv
        <5>2. now.delta # Absent
          BY <1>1, <1>2, <2>2, <4>3, <5>1 DEF OneRegister, Now
        <5> QED BY <1>5, <2>2, <4>3, <5>2 DEF ChangedAs, RegisterChanged
      <4> QED BY <4>1, <4>2, <4>3
    <3> QED BY <3>1, <3>2
  <2> QED BY <2>1, <2>2
<1>9. \A r \in Nodes : Held(r)' = Held(r)
  BY <1>4 DEF Held, CreateReplicatedData, New
<1>10. AllShow'
  <2> SUFFICES ASSUME NEW r \in Nodes PROVE Shows(type', r, Held(r)', said')
    BY DEF AllShow
  <2> QED BY <1>2, <1>4, <1>7, <1>8, <1>9
<1>11. \A r \in Nodes : objects[r] # Null => Settled(type, objects[r])
  BY <1>1, <1>2, <1>6 DEF RequestsInv, Now
<1>12. type' = "register" => OneRegister'
  BY <1>4 DEF RequestsInv, OneRegister
<1> QED BY <1>3, <1>4, <1>10, <1>11, <1>12 DEF RequestsInv

LEMMA RequestsStutter == RequestsInv /\ UNCHANGED dataVars => RequestsInv'
<1> SUFFICES ASSUME RequestsInv, UNCHANGED dataVars PROVE RequestsInv'
  OBVIOUS
<1>1. /\ type' = type /\ objects' = objects /\ made' = made /\ turn' = turn /\ steps' = steps
      /\ noState' = noState /\ said' = said
  BY DEF dataVars
<1>2. Now' = Now /\ Peer' = Peer /\ \A r : Held(r)' = Held(r)
  BY <1>1 DEF Now, Peer, Held, CreateReplicatedData, New
<1>3. Told' = Told /\ Unsaid' = Unsaid /\ (OneRegister' <=> OneRegister)
  BY <1>1, <1>2 DEF Told, Unsaid, CreateForDelta, New, OneRegister
<1>4. AllShow' <=> AllShow
  BY <1>1, <1>2 DEF AllShow
<1>5. InTurn' <=> InTurn
  BY <1>1, <1>2, <1>3, <1>4 DEF InTurn
<1> QED BY <1>1, <1>3, <1>4, <1>5 DEF RequestsInv

LEMMA RequestsAreInvariant == ExercisesSpec => []RequestsInv
<1>1. ExercisesInit => RequestsInv
  <2>1. ExercisesInit => Nothing
    BY TypesAreKinds DEF ExercisesInit, TckDataInit, Nothing
  <2> QED BY <2>1, NothingKeeps
<1>2. RequestsInv /\ [ExercisesNext]_<<exercise, vars, dataVars>> => RequestsInv'
  <2> SUFFICES ASSUME RequestsInv, TckDataNext PROVE RequestsInv'
    BY RequestsStutter DEF ExercisesNext
  <2>1. CASE EndKept
    <3>1. turn # 0
      BY <2>1 DEF EndKept, EndRequest
    <3> QED BY <2>1, <3>1, RequestsTold, RequestsNotTold
  <2> QED BY <2>1, RequestsBegin, RequestsUpdate, RequestsUpdateMissing, RequestsDelete, RequestsFail,
             RequestsEndDeleted DEF TckDataNext
<1> QED BY <1>1, <1>2, PTL DEF ExercisesSpec

----------------------------------------------------------------------------
(* What a response shows. *)

LEMMA UnlessIs == \A b, v : Unless(b, v) = {v} \ {b}
BY DEF Unless

(* A said counter is none or one. *)
LEMMA SaidCounter ==
  ASSUME NEW t \in {"map", "counterMap"}, NEW v \in SaidOf(t), NEW k \in Keys
  PROVE  \/ v[k] = {} /\ Sum(v[k], 0) = 0
         \/ \E n \in Int : v[k] = {n} /\ Sum(v[k], 0) = n
<1>1. v[k] \in SUBSET Int /\ \A m, n \in v[k] : m = n
  BY DEF SaidOf
<1>2. CASE v[k] = {}
  BY <1>2, SumIs
<1>3. CASE v[k] # {}
  <2>1. PICK n \in Int : v[k] = {n}
    BY <1>1, <1>3
  <2> QED BY <2>1, SumIs
<1> QED BY <1>2, <1>3

LEMMA MapResponds ==
  ASSUME NEW o, NEW blank,
         \A k \in Keys : said[k] = IF Has(o, k) THEN {o.entries[k].value} ELSE {}
  PROVE  Entries(o, blank) = SaidEntries({blank})
<1>1. {k \in Keys : Has(o, k)} = {k \in Keys : said[k] # {}}
  OBVIOUS
<1>2. \A k \in {k \in Keys : Has(o, k)} :
        [key |-> k, value |-> Unless(blank, o.entries[k].value)] = [key |-> k, value |-> said[k] \ {blank}]
  BY UnlessIs
<1> QED BY <1>1, <1>2 DEF Entries, SaidEntries

LEMMA MultiMapResponds ==
  ASSUME NEW o \in KeptAs("multiMap"), \A k \in Keys : OrNew(o.entries[k], NewSet).value = said[k]
  PROVE  {[key |-> k, value |-> o.entries[k].value] : k \in {k \in Keys : Has(o, k)}} = SaidEntries({})
<1>1. Full(o)
  BY DEF KeptAs
<1>2. \A k \in Keys : /\ Has(o, k) <=> said[k] # {}
                      /\ Has(o, k) => o.entries[k].value = said[k] \ {}
  BY <1>1 DEF Full, Has, OrNew, NewSet
<1> QED BY <1>2 DEF SaidEntries

LEMMA CounterMapResponds ==
  ASSUME NEW o, said \in SaidOf("counterMap"),
         \A k \in Keys : OrNew(o.entries[k], NewCounter).value = Sum(said[k], 0)
  PROVE  {e \in Entries(o, 0) : e.value # {}} = {e \in SaidEntries({0}) : e.value # {}}
<1>1. ASSUME NEW k \in Keys
      PROVE  /\ said[k] \ {0} = Unless(0, Sum(said[k], 0))
             /\ Has(o, k) => o.entries[k].value = Sum(said[k], 0)
             /\ ~ Has(o, k) => said[k] \ {0} = {}
             /\ said[k] = {} => said[k] \ {0} = {}
  <2>1. said[k] \ {0} = Unless(0, Sum(said[k], 0))
    BY SaidCounter, UnlessIs
  <2>2. Has(o, k) => o.entries[k].value = Sum(said[k], 0)
    BY DEF Has, OrNew
  <2>3. ~ Has(o, k) => Sum(said[k], 0) = 0
    BY DEF Has, OrNew, NewCounter
  <2>4. Unless(0, 0) = {}
    BY UnlessIs
  <2> QED BY <2>1, <2>2, <2>3, <2>4
<1>2. ASSUME NEW e
      PROVE  e \in Entries(o, 0) /\ e.value # {}
               <=> \E k \in Keys : e = [key |-> k, value |-> said[k] \ {0}] /\ said[k] \ {0} # {}
  BY <1>1 DEF Entries
<1>3. ASSUME NEW e
      PROVE  e \in SaidEntries({0}) /\ e.value # {}
               <=> \E k \in Keys : e = [key |-> k, value |-> said[k] \ {0}] /\ said[k] \ {0} # {}
  BY <1>1 DEF SaidEntries
<1> QED BY <1>2, <1>3

LEMMA VotesCounted ==
  ASSUME NEW v \in [Nodes -> BOOLEAN]
  PROVE  Cardinality({s \in Nodes : v[s]}) = Num(v[1]) + Num(v[2])
<1>1. Cardinality({}) = 0 /\ Cardinality({1}) = 1 /\ Cardinality({2}) = 1 /\ Cardinality({1, 2}) = 2
  <2>1. Cardinality({}) = 0
    BY FS_EmptySet
  <2>2. Cardinality({1}) = 1 /\ Cardinality({2}) = 1 /\ IsFiniteSet({1})
    BY FS_Singleton
  <2>3. Cardinality({1} \cup {2}) = Cardinality({1}) + 1
    BY <2>2, FS_AddElement
  <2>4. {1} \cup {2} = {1, 2}
    OBVIOUS
  <2> QED BY <2>1, <2>2, <2>3, <2>4
<1>2. CASE v[1] /\ v[2]
  <2>1. {s \in Nodes : v[s]} = {1, 2}
    BY <1>2 DEF Nodes
  <2> QED BY <1>1, <1>2, <2>1 DEF Num
<1>3. CASE v[1] /\ ~ v[2]
  <2>1. {s \in Nodes : v[s]} = {1}
    BY <1>3 DEF Nodes
  <2> QED BY <1>1, <1>3, <2>1 DEF Num
<1>4. CASE ~ v[1] /\ v[2]
  <2>1. {s \in Nodes : v[s]} = {2}
    BY <1>4 DEF Nodes
  <2> QED BY <1>1, <1>4, <2>1 DEF Num
<1>5. CASE ~ v[1] /\ ~ v[2]
  <2>1. {s \in Nodes : v[s]} = {}
    BY <1>5 DEF Nodes
  <2> QED BY <1>1, <1>5, <2>1 DEF Num
<1> QED BY <1>2, <1>3, <1>4, <1>5 DEF Nodes

LEMMA ResponseIs ==
  ASSUME type \in Kinds, NEW r \in Nodes, NEW o \in KeptAs(type), said \in SaidOf(type),
         Shows(type, r, o, said)
  PROVE  Comparable(ReplicatedDataState(o)) = Comparable(Expected(r))
<1>1. CASE type \in {"counter", "set", "register"}
  BY <1>1 DEF Shows, ReplicatedDataState, Expected, Comparable
<1>2. CASE type = "map"
  <2>1. Entries(o, 0) = SaidEntries({0})
    BY <1>2, MapResponds DEF Shows
  <2> QED BY <1>2, <2>1 DEF ReplicatedDataState, Expected, Comparable
<1>3. CASE type = "registerMap"
  <2>1. Entries(o, Blank) = SaidEntries({Blank})
    BY <1>3, MapResponds DEF Shows
  <2> QED BY <1>3, <2>1 DEF ReplicatedDataState, Expected, Comparable
<1>4. CASE type = "multiMap"
  <2>1. {[key |-> k, value |-> o.entries[k].value] : k \in {k \in Keys : Has(o, k)}} = SaidEntries({})
    BY <1>4, MultiMapResponds DEF Shows
  <2> QED BY <1>4, <2>1 DEF ReplicatedDataState, Expected, Comparable
<1>5. CASE type = "counterMap"
  <2>1. {e \in Entries(o, 0) : e.value # {}} = {e \in SaidEntries({0}) : e.value # {}}
    BY <1>5, CounterMapResponds DEF Shows
  <2> QED BY <1>5, <2>1 DEF ReplicatedDataState, Expected, Comparable
<1>6. CASE type = "vote"
  <2>1. said \in [Nodes -> BOOLEAN]
    BY <1>6 DEF SaidOf
  <2>2. o.self = said[r] /\ o.votesFor = Cardinality({s \in Nodes : said[s]})
    BY <1>6, <2>1, VotesCounted DEF Shows
  <2> QED BY <1>6, <2>2 DEF ReplicatedDataState, Expected, Comparable
<1> QED BY <1>1, <1>2, <1>3, <1>4, <1>5, <1>6 DEF Kinds

(* The response to a request to the kit's entity (tck/replicated-entity.ts *)
(* process, applyUpdate, replicatedDataState) shows what the updates of    *)
(* all requests make of the data one after another since it was last       *)
(* deleted, whichever of the two nodes has handled them, for all eight     *)
(* types; a node without the data has missed nothing.                      *)
THEOREM ResponseTheorem == ExercisesSpec => []ResponseShowsUpdates
<1>1. ASSUME RequestsInv PROVE ShownIsSaid
  <2> SUFFICES ASSUME NEW r \in Nodes, turn \in {0, r}, objects[r] # Null
               PROVE  Comparable(ReplicatedDataState(objects[r])) = Comparable(Expected(r))
    BY DEF ShownIsSaid
  <2>1. objects[r] \in KeptAs(type) /\ type \in Kinds /\ said \in SaidOf(type)
    BY <1>1 DEF RequestsInv
  <2>2. Shows(type, r, objects[r], said)
    <3>1. CASE turn = 0
      BY <1>1, <3>1 DEF RequestsInv, AllShow, Held
    <3>2. CASE turn = r /\ r # 0
      BY <1>1, <3>2 DEF RequestsInv, InTurn, Now
    <3> QED BY <3>1, <3>2
  <2> QED BY <2>1, <2>2, ResponseIs
<1>2. ASSUME RequestsInv PROVE MissingIsUnsaid
  <2> SUFFICES ASSUME turn = 0, NEW r \in Nodes, objects[r] = Null
               PROVE  \/ said = Unsaid
                      \/ type = "counterMap" /\ Comparable(Expected(r)) = {}
    BY DEF MissingIsUnsaid
  <2>1. type \in Kinds /\ said \in SaidOf(type) /\ Shows(type, r, CreateReplicatedData, said)
    BY <1>2 DEF RequestsInv, AllShow, Held
  <2>2. CASE type # "counterMap"
    BY <2>1, <2>2, NewShowsUnsaid
  <2>3. CASE type = "counterMap"
    <3>1. \A k \in Keys : said[k] \ {0} = {}
      <4> SUFFICES ASSUME NEW k \in Keys PROVE said[k] \ {0} = {}
        OBVIOUS
      <4>1. Sum(said[k], 0) = 0
        BY <2>1, <2>3, NewShowsUnsaid
      <4> QED BY <2>1, <2>3, <4>1, SaidCounter
    <3>2. {e \in SaidEntries({0}) : e.value # {}} = {}
      BY <3>1 DEF SaidEntries
    <3> QED BY <2>3, <3>2 DEF Expected, Comparable
  <2> QED BY <2>2, <2>3
<1>3. RequestsInv => ResponseShowsUpdates
  BY <1>1, <1>2 DEF ResponseShowsUpdates
<1> QED BY <1>3, RequestsAreInvariant, PTL
=============================================================================
