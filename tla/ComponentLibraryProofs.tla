----------------------- MODULE ComponentLibraryProofs -----------------------
(***************************************************************************)
(* Theorems about ComponentLibrary: its registration and clients, its      *)
(* mocks, its views, its metadata, its values and the kit's Replies, for   *)
(* every number of services, components, clients, calls, subjects, events, *)
(* entries, keys, and steps of a request.                                  *)
(***************************************************************************)
EXTENDS ComponentLibrary, FiniteSetTheorems, SequenceTheorems, WellFoundedInduction, TLAPS

(* Whatever part is exercised, a step is one of each part or leaves it      *)
(* alone.                                                                  *)
LEMMA LibraryStep ==
  ASSUME [LibraryNext]_libraryVars
  PROVE  /\ [ServicesNext]_servicesVars /\ [MocksNext]_mocksVars /\ [MetadataNext]_metadataVars
         /\ [ValuesNext]_valuesVars /\ [ViewNext]_viewVars /\ [TckNext]_tckVars
BY DEF LibraryNext, libraryVars

----------------------------------------------------------------------------
(* Registration.                                                           *)

Handler(k, c) == [component |-> c, siblings |-> ServiceMap(k)]

(* The clients of a component are for whoever was told of it.              *)
ClientsFit(c, by) ==
  c.type # "Views" /\ (\A p \in by : Identity[p] # "broken") => clientsOf[c] = by

(* ToldIsServed, of one service. *)
Served(k) ==
  \A d \in told[k].components : \E c \in added[k] :
     Describe(c) = d /\ supports[<<c.type, c.name>>] = {Handler(k, c)} /\ ClientsFit(c, told[k].by)

(* Only one service is up, and it is its components that the supports have *)
(* got; a component handles what it was described as.                      *)
ServedInv ==
  /\ added \in [Hosts -> SUBSET Components]
  /\ serving \in [Hosts -> {"new", "up", "down"}]
  /\ told = [k \in Hosts |-> told[k]]
  /\ \A j, k \in Hosts : serving[j] = "up" /\ serving[k] = "up" => j = k
  /\ \A k \in Hosts : \A c, d \in added[k] : c.name = d.name => c = d
  /\ \A k \in Hosts : serving[k] = "new" => told[k].components = {}
  /\ \A k \in Hosts : serving[k] = "up" =>
        (\A c \in added[k] : supports[<<c.type, c.name>>] = {Handler(k, c)}) /\ Served(k)

(* What a service serves stays so while nothing it rests on changes.       *)
LEMMA ServedFrame ==
  ASSUME NEW k \in Hosts, UNCHANGED <<added[k], supports, told[k], clientsOf>>
  PROVE  /\ (\A c \in added[k] : supports[<<c.type, c.name>>] = {Handler(k, c)})
              => (\A c \in added[k] : supports[<<c.type, c.name>>] = {Handler(k, c)})'
         /\ Served(k) => Served(k)'
<1>1. \A c : Handler(k, c)' = Handler(k, c)
  BY DEF Handler, ServiceMap
<1> QED BY <1>1 DEF Served, ClientsFit

LEMMA StartServes ==
  ASSUME ServedInv, ~ Overlapping, NEW k \in Hosts, StartService(k)
  PROVE  ServedInv'
<1>1. /\ serving[k] = "new" /\ \A j \in Hosts : serving[j] # "up"
      /\ serving' = [serving EXCEPT ![k] = "up"] /\ supports' = Register(k)
      /\ UNCHANGED <<added, told, clientsOf>>
  BY DEF StartService
<1>2. serving' \in [Hosts -> {"new", "up", "down"}]
      /\ serving'[k] = "up" /\ \A j \in Hosts : j # k => serving'[j] = serving[j]
  BY <1>1 DEF ServedInv
<1>3. ASSUME NEW c \in added[k]
      PROVE  supports'[<<c.type, c.name>>] = {Handler(k, c)}
  <2>1. c \in Components /\ <<c.type, c.name>> \in Keys
    BY DEF ServedInv, Keys
  <2>2. {d \in added[k] : <<d.type, d.name>> = <<c.type, c.name>>} = {c}
    BY DEF ServedInv
  <2> QED BY <1>1, <2>1, <2>2 DEF Register, Handler
<1>4. ServiceMap(k)' = ServiceMap(k)
  BY <1>1 DEF ServiceMap
<1>5. \A j \in Hosts : serving'[j] = "up" => j = k
  BY <1>1, <1>2
<1>6. told[k].components = {}
  BY <1>1 DEF ServedInv
<1>7. Served(k)'
  BY <1>1, <1>6 DEF Served
<1>8. (\A c \in added[k] : supports[<<c.type, c.name>>] = {Handler(k, c)})'
  BY <1>1, <1>3, <1>4 DEF Handler
<1>9. \A j \in Hosts : serving'[j] = "new" => told'[j].components = {}
  BY <1>1, <1>2 DEF ServedInv
<1> QED BY <1>1, <1>2, <1>5, <1>7, <1>8, <1>9 DEF ServedInv

LEMMA DiscoverServes ==
  ASSUME ServedInv, NEW k \in Hosts, NEW p \in Proxies, DiscoverComponents(k, p)
  PROVE  ServedInv'
<1>1. /\ serving[k] = "up" /\ UNCHANGED <<added, serving, supports>>
      /\ told' = [told EXCEPT ![k] = [by |-> {p}, components |-> {Describe(c) : c \in added[k]}]]
      /\ clientsOf' = [c \in Components |-> IF c \in added[k] THEN PreStart(c, p) ELSE clientsOf[c]]
  BY DEF DiscoverComponents
<1>2. /\ told'[k] = [by |-> {p}, components |-> {Describe(c) : c \in added[k]}]
      /\ told' = [j \in Hosts |-> told'[j]]
      /\ \A j \in Hosts : j # k => told'[j] = told[j]
  BY <1>1 DEF ServedInv
<1>3. told'[k].components = {Describe(c) : c \in added[k]} /\ told'[k].by = {p}
  BY <1>2
<1>4. \A j \in Hosts : serving[j] = "up" => j = k
  BY <1>1 DEF ServedInv
<1>5. \A c \in added[k] : c \in Components
  BY DEF ServedInv
<1>6. ASSUME NEW c \in added[k], c.type # "Views", \A q \in told'[k].by : Identity[q] # "broken"
      PROVE  clientsOf'[c] = told'[k].by
  <2>1. Identity[p] # "broken"
    BY <1>3, <1>6
  <2> QED BY <1>1, <1>3, <1>5, <1>6, <2>1 DEF PreStart
<1>7. \A c \in added[k] : supports[<<c.type, c.name>>] = {Handler(k, c)} /\ Handler(k, c)' = Handler(k, c)
  BY <1>1 DEF ServedInv, Handler, ServiceMap
<1>8. Served(k)'
  BY <1>1, <1>3, <1>6, <1>7 DEF Served, ClientsFit
<1>9. (\A c \in added[k] : supports[<<c.type, c.name>>] = {Handler(k, c)})'
  BY <1>1, <1>7
<1>10. \A j \in Hosts : serving[j] = "new" => told'[j].components = {}
  BY <1>1, <1>2 DEF ServedInv
<1> QED BY <1>1, <1>2, <1>4, <1>8, <1>9, <1>10 DEF ServedInv

LEMMA ServedNext ==
  ASSUME ServedInv, ~ Overlapping, ~ LateComponents, [ServicesNext]_servicesVars
  PROVE  ServedInv'
<1>1. CASE UNCHANGED <<added, serving, supports, told, clientsOf>>
  BY <1>1, ServedFrame DEF ServedInv
<1>2. ASSUME NEW k \in Hosts, NEW c \in Components, AddComponent(k, c)
      PROVE  ServedInv'
  <2>1. /\ serving[k] = "new" /\ \A d \in added[k] : d.name # c.name
        /\ added' = [added EXCEPT ![k] = @ \cup {c}]
        /\ UNCHANGED <<serving, supports, told, clientsOf>>
    BY <1>2 DEF AddComponent
  <2>2. /\ added' \in [Hosts -> SUBSET Components] /\ added'[k] = added[k] \cup {c}
        /\ \A j \in Hosts : j # k => added'[j] = added[j]
    BY <2>1 DEF ServedInv
  <2>3. \A j \in Hosts : serving[j] = "up" => UNCHANGED <<added[j], supports, told[j], clientsOf>>
    BY <2>1, <2>2
  <2>4. \A j \in Hosts : \A d, e \in added'[j] : d.name = e.name => d = e
    BY <2>1, <2>2 DEF ServedInv
  <2> QED BY <2>1, <2>2, <2>3, <2>4, ServedFrame DEF ServedInv
<1>3. ASSUME NEW k \in Hosts, StopService(k)
      PROVE  ServedInv'
  <2>1. serving' = [serving EXCEPT ![k] = "down"] /\ UNCHANGED <<added, supports, told, clientsOf>>
    BY <1>3 DEF StopService
  <2>2. /\ serving' \in [Hosts -> {"new", "up", "down"}]
        /\ \A j \in Hosts : serving'[j] # "down" => serving[j] = serving'[j]
    BY <2>1 DEF ServedInv
  <2> QED BY <2>1, <2>2, ServedFrame DEF ServedInv
<1> QED
  BY <1>1, <1>2, <1>3, StartServes, DiscoverServes DEF ServicesNext, CreateClient, CallWithout,
     CallWith, exceptCalls, servicesVars

(* ToldIsServed, when the services of a process run one after the other    *)
(* and get their components before they start.                             *)
THEOREM ServedTheorem ==
  ASSUME ~ Overlapping, ~ LateComponents PROVE LibrarySpec => []ToldIsServed
<1>1. LibraryInit => ServedInv
  <2> SUFFICES ASSUME ServicesInit PROVE ServedInv
    BY DEF LibraryInit
  <2>1. /\ added \in [Hosts -> SUBSET Components] /\ \A k \in Hosts : added[k] = {}
        /\ serving \in [Hosts -> {"new", "up", "down"}] /\ \A k \in Hosts : serving[k] = "new"
    BY DEF ServicesInit
  <2>2. told = [k \in Hosts |-> told[k]] /\ \A k \in Hosts : told[k].components = {}
    BY DEF ServicesInit
  <2> QED BY <2>1, <2>2 DEF ServedInv
<1>2. ServedInv /\ [LibraryNext]_libraryVars => ServedInv'
  BY LibraryStep, ServedNext
<1>3. ServedInv => ToldIsServed
  <2> SUFFICES ASSUME ServedInv, NEW k \in Hosts, serving[k] = "up", NEW d \in told[k].components
               PROVE  \E c \in added[k] :
                         /\ Describe(c) = d
                         /\ supports[<<c.type, c.name>>] = {[component |-> c, siblings |-> ServiceMap(k)]}
                         /\ c.type # "Views" /\ (\A p \in told[k].by : Identity[p] # "broken")
                                => clientsOf[c] = told[k].by
    BY DEF ToldIsServed
  <2>1. PICK c \in added[k] : /\ Describe(c) = d /\ supports[<<c.type, c.name>>] = {Handler(k, c)}
                              /\ ClientsFit(c, told[k].by)
    BY DEF ServedInv, Served
  <2> QED BY <2>1 DEF Handler, ClientsFit
<1> QED BY <1>1, <1>2, <1>3, PTL DEF LibrarySpec

----------------------------------------------------------------------------
(* Mocks.                                                                  *)

MockEvents == [value : MockValues, applicable : {TRUE}]
MockStates == Seq(MockValues)

Asks == [action : {"none", "update", "delete"}, update : MockStates, mutated : MockStates,
         events : Seq(MockEvents), fails : BOOLEAN]
Recorded == [updatedState : MockStates, delete : BOOLEAN, events : Seq(MockEvents),
             error : {"none", "ctx.fail"}]

MockTypes ==
  /\ mocked \in {"value", "eventsourced"}
  /\ state \in MockStates /\ events \in MockStates /\ stored \in MockStates
  /\ calls \in [MockCalls -> [pc : {"new", "running", "settled"}, ctx : MockCalls,
                              saw : MockStates, asked : Asks]]
  /\ contexts \in [MockCalls -> Recorded]

(* The mock's context has recorded what the handler asked for.             *)
Follows(ctx, asked) ==
  /\ ctx.updatedState = asked.update /\ ctx.events = asked.events
  /\ ctx.error = "ctx.fail" <=> asked.fails
  /\ ctx.delete <=> asked.action = "delete"
  /\ asked.action = "none" => asked.update = <<>>
  /\ asked.action = "update" => asked.update # <<>>
  /\ mocked = "value" => asked.events = <<>>
  /\ mocked = "eventsourced" => asked.action = "none" /\ asked.mutated = <<>>

(* The state while a call runs: what it changed in place.                  *)
Mutated(asked) == IF asked.mutated = <<>> THEN stored ELSE asked.mutated

(* Only one call runs, with a context of its own and the stored state, and *)
(* the mock differs from the entity in what that call changed in place.    *)
MockInv ==
  /\ MockTypes
  /\ \A c, d \in Running : c = d
  /\ \A c \in MockCalls : calls[c].pc = "new" => contexts[c] = FreshContext /\ Asked(c) = NothingAsked
  /\ \A c \in Running : /\ calls[c].ctx = c /\ calls[c].saw = stored
                        /\ Follows(contexts[c], Asked(c)) /\ state = Mutated(Asked(c))
  /\ mocked = "eventsourced" => events = stored
  /\ Running = {} => state = stored
  /\ (lastCall.mock = "answered") = (lastCall.real = "replied")

LEMMA RunningIs ==
  ASSUME NEW c \in MockCalls
  PROVE  c \in Running <=> calls[c].pc = "running"
BY DEF Running

LEMMA MockInvInit == MocksInit => MockInv
<1> SUFFICES ASSUME MocksInit PROVE MockInv
  OBVIOUS
<1>1. NothingAsked \in Asks /\ FreshContext \in Recorded
  BY DEF NothingAsked, Asks, FreshContext, Recorded, MockStates
<1>2. MockTypes
  BY <1>1 DEF MocksInit, MockTypes, NewCall, MockStates
<1>3. \A c \in MockCalls : calls[c].pc = "new" /\ Asked(c) = NothingAsked /\ contexts[c] = FreshContext
  BY DEF MocksInit, NewCall, Asked
<1>4. Running = {}
  BY <1>3 DEF Running
<1>5. lastCall.mock = "none" /\ lastCall.real = "none"
  BY DEF MocksInit, Untold
<1> QED BY <1>2, <1>3, <1>4, <1>5 DEF MocksInit, MockInv

(* A handler that does something leaves the invariant if its context       *)
(* follows it.                                                             *)
LEMMA RecordKeeps ==
  ASSUME MockInv, NEW c \in MockCalls, NEW ctx \in Recorded, NEW asked \in Asks,
         Record(c, ctx, asked), Follows(ctx, asked), state' \in MockStates,
         state' = Mutated(asked)
  PROVE  MockInv'
<1>1. /\ calls[c].pc = "running" /\ calls' = [calls EXCEPT ![c].asked = asked]
      /\ contexts' = [contexts EXCEPT ![calls[c].ctx] = ctx]
      /\ UNCHANGED <<mocked, events, error, stored, lastCall>>
  BY DEF Record
<1>2. c \in Running /\ calls[c].ctx = c
  BY <1>1, RunningIs DEF MockInv
<1>3. MockTypes'
  BY <1>1, <1>2 DEF MockInv, MockTypes
<1>4. /\ contexts'[c] = ctx /\ calls'[c].asked = asked
      /\ \A d \in MockCalls : /\ d # c => contexts'[d] = contexts[d] /\ calls'[d] = calls[d]
                              /\ calls'[d].pc = calls[d].pc /\ calls'[d].ctx = calls[d].ctx
                              /\ calls'[d].saw = calls[d].saw
  BY <1>1, <1>2 DEF MockInv, MockTypes
<1>5. Running' = Running
  BY <1>4 DEF Running
<1>6. \A d \in Running : d = c
  BY <1>2 DEF MockInv
<1>7. \A d \in MockCalls : calls'[d].pc = "new" => contexts'[d] = FreshContext /\ Asked(d)' = NothingAsked
  BY <1>1, <1>4 DEF MockInv, Asked
<1>8. Follows(ctx, asked)' /\ Mutated(asked)' = Mutated(asked)
  BY <1>1 DEF Follows, Mutated
<1>9. calls'[c].ctx = c /\ calls'[c].saw = stored'
  BY <1>1, <1>2, <1>4 DEF MockInv
<1> QED BY <1>1, <1>2, <1>3, <1>4, <1>5, <1>6, <1>7, <1>8, <1>9 DEF MockInv, Asked

(* What a running call has to show. *)
LEMMA RunningCall ==
  ASSUME MockInv, NEW c \in MockCalls, calls[c].pc = "running"
  PROVE  /\ calls[c].ctx = c /\ Context(c) = contexts[c] /\ contexts[c] \in Recorded
         /\ Asked(c) \in Asks /\ Follows(contexts[c], Asked(c)) /\ state = Mutated(Asked(c))
<1>1. c \in Running
  BY RunningIs
<1> QED BY <1>1 DEF MockInv, MockTypes, Context, Asked

(* What is done to a context and to what is asked keeps their types.       *)
LEMMA RecordedTypes ==
  ASSUME NEW r \in Recorded, NEW x \in MockStates, NEW es \in Seq(MockEvents)
  PROVE  /\ [r EXCEPT !.updatedState = x] \in Recorded
         /\ [r EXCEPT !.delete = TRUE] \in Recorded
         /\ [r EXCEPT !.events = es] \in Recorded
         /\ [r EXCEPT !.error = "ctx.fail"] \in Recorded
<1>1. [r EXCEPT !.updatedState = x] \in Recorded
  BY DEF Recorded
<1>2. [r EXCEPT !.delete = TRUE] \in Recorded
  BY DEF Recorded
<1>3. [r EXCEPT !.events = es] \in Recorded
  BY DEF Recorded
<1>4. [r EXCEPT !.error = "ctx.fail"] \in Recorded
  BY DEF Recorded
<1> QED BY <1>1, <1>2, <1>3, <1>4

LEMMA AsksTypes ==
  ASSUME NEW a \in Asks, NEW x \in MockStates, NEW es \in Seq(MockEvents)
  PROVE  /\ [a EXCEPT !.action = "update", !.update = x] \in Asks
         /\ [a EXCEPT !.action = "delete"] \in Asks
         /\ [a EXCEPT !.mutated = x] \in Asks
         /\ [a EXCEPT !.events = es] \in Asks
         /\ [a EXCEPT !.fails = TRUE] \in Asks
<1>1. [a EXCEPT !.action = "update", !.update = x] \in Asks
  BY DEF Asks
<1>2. [a EXCEPT !.action = "delete"] \in Asks
  BY DEF Asks
<1>3. [a EXCEPT !.mutated = x] \in Asks
  BY DEF Asks
<1>4. [a EXCEPT !.events = es] \in Asks
  BY DEF Asks
<1>5. [a EXCEPT !.fails = TRUE] \in Asks
  BY DEF Asks
<1> QED BY <1>1, <1>2, <1>3, <1>4, <1>5

LEMMA UpdateKeeps ==
  ASSUME MockInv, Habits = {}, NEW c \in MockCalls, NEW v \in MockValues, MockUpdateState(c, v)
  PROVE  MockInv'
<1> DEFINE ctx == [Context(c) EXCEPT !.updatedState = <<v>>]
           asked == [Asked(c) EXCEPT !.action = "update", !.update = <<v>>]
<1>1. mocked = "value" /\ ~ Context(c).delete /\ Record(c, ctx, asked) /\ state' = state
  BY DEF MockUpdateState
<1>2. calls[c].pc = "running"
  BY <1>1 DEF Record
<1>0. <<>> \in Seq(MockEvents)
  OBVIOUS
<1>3. <<v>> \in MockStates /\ <<v>> # <<>>
  BY DEF MockStates
<1>4. ctx \in Recorded /\ asked \in Asks
  BY <1>0, <1>2, <1>3, RunningCall, RecordedTypes, AsksTypes
<1>5. /\ ctx.updatedState = <<v>> /\ ctx.events = Context(c).events /\ ctx.error = Context(c).error
      /\ ctx.delete = Context(c).delete /\ asked.update = <<v>> /\ asked.events = Asked(c).events
      /\ asked.action = "update" /\ asked.fails = Asked(c).fails /\ asked.mutated = Asked(c).mutated
  BY <1>2, RunningCall DEF Recorded, Asks
<1>6. Follows(ctx, asked)
  BY <1>1, <1>2, <1>3, <1>5, RunningCall DEF Follows
<1>7. state' \in MockStates /\ state' = Mutated(asked)
  BY <1>1, <1>2, <1>5, RunningCall DEF Mutated, MockInv, MockTypes
<1> HIDE DEF ctx, asked
<1> QED BY <1>1, <1>4, <1>6, <1>7, RecordKeeps

LEMMA DeleteKeeps ==
  ASSUME MockInv, NEW c \in MockCalls, MockDeleteState(c)
  PROVE  MockInv'
<1> DEFINE ctx == [Context(c) EXCEPT !.delete = TRUE]
           asked == [Asked(c) EXCEPT !.action = "delete"]
<1>1. mocked = "value" /\ Record(c, ctx, asked) /\ state' = state
  BY DEF MockDeleteState
<1>2. calls[c].pc = "running"
  BY <1>1 DEF Record
<1>0. <<>> \in MockStates /\ <<>> \in Seq(MockEvents)
  BY DEF MockStates
<1>3. ctx \in Recorded /\ asked \in Asks
  BY <1>2, <1>0, RunningCall, RecordedTypes, AsksTypes
<1>4. /\ ctx.updatedState = Context(c).updatedState /\ ctx.events = Context(c).events
      /\ ctx.error = Context(c).error /\ ctx.delete = TRUE /\ asked.update = Asked(c).update
      /\ asked.events = Asked(c).events /\ asked.action = "delete" /\ asked.fails = Asked(c).fails
      /\ asked.mutated = Asked(c).mutated
  BY <1>2, RunningCall DEF Recorded, Asks
<1>5. Follows(ctx, asked)
  BY <1>1, <1>2, <1>4, RunningCall DEF Follows
<1>6. state' \in MockStates /\ state' = Mutated(asked)
  BY <1>1, <1>2, <1>4, RunningCall DEF Mutated, MockInv, MockTypes
<1> HIDE DEF ctx, asked
<1> QED BY <1>1, <1>3, <1>5, <1>6, RecordKeeps

LEMMA MutateKeeps ==
  ASSUME MockInv, NEW c \in MockCalls, NEW v \in MockValues, MutateState(c, v)
  PROVE  MockInv'
<1> DEFINE asked == [Asked(c) EXCEPT !.mutated = <<v>>]
<1>1. mocked = "value" /\ Record(c, Context(c), asked) /\ state' = <<v>>
  BY DEF MutateState
<1>2. calls[c].pc = "running"
  BY <1>1 DEF Record
<1>3. <<v>> \in MockStates /\ <<v>> # <<>>
  BY DEF MockStates
<1>4. Context(c) \in Recorded /\ asked \in Asks
  BY <1>2, <1>3, RunningCall DEF Asks
<1>5. /\ asked.update = Asked(c).update /\ asked.events = Asked(c).events
      /\ asked.action = Asked(c).action /\ asked.fails = Asked(c).fails /\ asked.mutated = <<v>>
  BY <1>2, RunningCall DEF Asks
<1>6. Follows(Context(c), asked)
  BY <1>1, <1>2, <1>5, RunningCall DEF Follows
<1>7. state' \in MockStates /\ state' = Mutated(asked)
  BY <1>1, <1>3, <1>5 DEF Mutated
<1> HIDE DEF asked
<1> QED BY <1>1, <1>4, <1>6, <1>7, RecordKeeps

LEMMA EmitKeeps ==
  ASSUME MockInv, Habits = {}, NEW c \in MockCalls, NEW v \in MockValues,
         NEW applicable \in BOOLEAN, MockEmit(c, v, applicable)
  PROVE  MockInv'
<1> DEFINE event == [value |-> v, applicable |-> applicable]
           ctx == [Context(c) EXCEPT !.events = Append(@, event)]
           asked == [Asked(c) EXCEPT !.events = Append(@, event)]
<1>1. mocked = "eventsourced" /\ applicable /\ Record(c, ctx, asked) /\ state' = state
  BY DEF MockEmit
<1>2. calls[c].pc = "running"
  BY <1>1 DEF Record
<1>3. event \in MockEvents
  BY <1>1 DEF MockEvents
<1>4. PICK e \in MockEvents : e = event
  BY <1>3
<1>5. Context(c).events \in Seq(MockEvents) /\ Asked(c).events \in Seq(MockEvents)
  BY <1>2, RunningCall DEF Recorded, Asks
<1>6. Append(Context(c).events, e) \in Seq(MockEvents) /\ Append(Asked(c).events, e) \in Seq(MockEvents)
  BY <1>5
<1>7. ctx \in Recorded /\ asked \in Asks
  <2>1. ctx = [Context(c) EXCEPT !.events = Append(Context(c).events, e)]
    BY <1>4
  <2>2. asked = [Asked(c) EXCEPT !.events = Append(Asked(c).events, e)]
    BY <1>4
  <2>3. <<>> \in MockStates
    BY DEF MockStates
  <2>4. Context(c) \in Recorded /\ Asked(c) \in Asks
    BY <1>2, RunningCall
  <2> HIDE DEF ctx, asked
  <2>5. ctx \in Recorded
    BY <1>6, <2>1, <2>3, <2>4, RecordedTypes
  <2>6. asked \in Asks
    BY <1>6, <2>2, <2>3, <2>4, AsksTypes
  <2> QED BY <2>5, <2>6
<1>8. /\ ctx.updatedState = Context(c).updatedState /\ ctx.events = Append(Context(c).events, e)
      /\ ctx.error = Context(c).error /\ ctx.delete = Context(c).delete
      /\ asked.update = Asked(c).update /\ asked.events = Append(Asked(c).events, e)
      /\ asked.action = Asked(c).action /\ asked.fails = Asked(c).fails
      /\ asked.mutated = Asked(c).mutated
  BY <1>2, <1>4, RunningCall DEF Recorded, Asks
<1>9. Follows(ctx, asked)
  BY <1>1, <1>2, <1>8, RunningCall DEF Follows
<1>10. state' \in MockStates /\ state' = Mutated(asked)
  BY <1>1, <1>2, <1>8, RunningCall DEF Mutated, MockInv, MockTypes
<1> HIDE DEF ctx, asked, event
<1> QED BY <1>1, <1>7, <1>9, <1>10, RecordKeeps

LEMMA FailKeeps ==
  ASSUME MockInv, NEW c \in MockCalls, MockFail(c)
  PROVE  MockInv'
<1> DEFINE ctx == [Context(c) EXCEPT !.error = "ctx.fail"]
           asked == [Asked(c) EXCEPT !.fails = TRUE]
<1>1. Record(c, ctx, asked) /\ state' = state
  BY DEF MockFail
<1>2. calls[c].pc = "running"
  BY <1>1 DEF Record
<1>0. <<>> \in MockStates /\ <<>> \in Seq(MockEvents)
  BY DEF MockStates
<1>3. ctx \in Recorded /\ asked \in Asks
  BY <1>2, <1>0, RunningCall, RecordedTypes, AsksTypes
<1>4. /\ ctx.updatedState = Context(c).updatedState /\ ctx.events = Context(c).events
      /\ ctx.error = "ctx.fail" /\ ctx.delete = Context(c).delete
      /\ asked.update = Asked(c).update /\ asked.events = Asked(c).events
      /\ asked.action = Asked(c).action /\ asked.fails = TRUE /\ asked.mutated = Asked(c).mutated
  BY <1>2, RunningCall DEF Recorded, Asks
<1>5. Follows(ctx, asked)
  BY <1>1, <1>2, <1>4, RunningCall DEF Follows
<1>6. state' \in MockStates /\ state' = Mutated(asked)
  BY <1>1, <1>2, <1>4, RunningCall DEF Mutated, MockInv, MockTypes
<1> HIDE DEF ctx, asked
<1> QED BY <1>1, <1>3, <1>5, <1>6, RecordKeeps

(* A call that settles leaves the invariant if the mock has what is stored *)
(* then.                                                                   *)
LEMMA SettleKeeps ==
  ASSUME MockInv, NEW c \in MockCalls, calls[c].pc \in {"new", "running"},
         calls' = [calls EXCEPT ![c].pc = "settled"], UNCHANGED <<mocked, contexts>>,
         \A d \in Running : d = c, state' = stored',
         stored' \in MockStates, events' \in MockStates,
         mocked = "eventsourced" => events' = stored',
         (lastCall'.mock = "answered") = (lastCall'.real = "replied")
  PROVE  MockInv'
<1>1. MockTypes'
  BY DEF MockInv, MockTypes
<1>2. calls'[c].pc = "settled" /\ \A d \in MockCalls : d # c => calls'[d] = calls[d]
  BY DEF MockInv, MockTypes
<1>3. Running' = {}
  BY <1>2 DEF Running
<1>4. \A d \in MockCalls : calls'[d].pc = "new" => contexts'[d] = FreshContext /\ Asked(d)' = NothingAsked
  BY <1>2 DEF MockInv, Asked
<1> QED BY <1>1, <1>3, <1>4 DEF MockInv

(* With every event applicable, all are applied, and payloads are values.  *)
LEMMA AllApplied ==
  ASSUME NEW es \in Seq(MockEvents)
  PROVE  /\ Applicable(es) /\ AppliedEvents(es) = es /\ Payloads(es) \in MockStates
         /\ es = <<>> => Payloads(es) = <<>>
<1>0. \A i \in DOMAIN es : es[i] \in MockEvents
  OBVIOUS
<1>1. \A i \in DOMAIN es : es[i].applicable = TRUE /\ es[i].value \in MockValues
  BY <1>0 DEF MockEvents
<1>2. {i \in DOMAIN es : ~ es[i].applicable} = {}
  BY <1>1
<1>3. Payloads(es) \in MockStates
  BY <1>1 DEF Payloads, MockStates
<1> QED BY <1>1, <1>2, <1>3 DEF Applicable, AppliedEvents, Payloads

(* What settling a call takes from it: nothing was asked of a failing      *)
(* handler, and its state is the one it was given.                         *)
LEMMA Discipline ==
  ASSUME MockInv, Habits = {}, NEW c \in MockCalls, calls[c].pc = "running",
         NEW outcome, Disciplined(Asked(c), outcome)
  PROVE  /\ Applicable(Asked(c).events)
         /\ ~ RealSucceeds(Asked(c), outcome) /\ outcome # "throws"
               => Asked(c).action = "none" /\ Asked(c).events = <<>> /\ Asked(c).mutated = <<>>
         /\ Asked(c).mutated # <<>> => outcome # "throws" /\ Asked(c).update = Asked(c).mutated
         /\ \A d \in Running : d = c
<1>1. Asked(c).events \in Seq(MockEvents)
  BY RunningCall DEF Asks
<1>2. Applicable(Asked(c).events)
  BY <1>1, AllApplied
<1>3. \A d \in Running : d = c
  BY RunningIs DEF MockInv
<1> QED BY <1>2, <1>3 DEF Disciplined

LEMMA ThrowKeeps ==
  ASSUME MockInv, Habits = {}, NEW c \in MockCalls, HandlerThrows(c)
  PROVE  MockInv'
<1>1. /\ calls[c].pc = "running" /\ Disciplined(Asked(c), "throws")
      /\ calls' = [calls EXCEPT ![c].pc = "settled"]
      /\ lastCall' = Told(c, "throws", TRUE)
      /\ stored' = IF RealSucceeds(Asked(c), "throws") THEN RealStored(Asked(c)) ELSE stored
      /\ UNCHANGED <<mocked, contexts, state, events>>
  BY DEF HandlerThrows, Settled
<1>2. ~ RealSucceeds(Asked(c), "throws")
  BY DEF RealSucceeds
<1>3. lastCall'.mock = "rejected" /\ lastCall'.real = "failed"
  BY <1>1, <1>2 DEF Told
<1>4. Asked(c).mutated = <<>> /\ \A d \in Running : d = c
  BY <1>1, Discipline
<1>5. stored' = stored /\ state' = stored
  BY <1>1, <1>2, <1>4, RunningCall DEF Mutated
<1>6. stored' \in MockStates /\ events' \in MockStates /\ (mocked = "eventsourced" => events' = stored')
  BY <1>1, <1>5 DEF MockInv, MockTypes
<1> QED BY <1>1, <1>3, <1>4, <1>5, <1>6, SettleKeeps

LEMMA RefuseKeeps ==
  ASSUME MockInv, Habits = {}, NEW c \in MockCalls, RefuseCall(c)
  PROVE  MockInv'
<1>1. /\ calls[c].pc = "new" /\ Running = {}
      /\ calls' = [calls EXCEPT ![c].pc = "settled"]
      /\ lastCall' = [mock |-> "rejected", real |-> "failed"]
      /\ UNCHANGED <<mocked, contexts, state, events, stored>>
  BY DEF RefuseCall
<1>2. /\ state' = stored' /\ stored' \in MockStates /\ events' \in MockStates
      /\ (mocked = "eventsourced" => events' = stored')
  BY <1>1 DEF MockInv, MockTypes
<1>3. lastCall'.mock = "rejected" /\ lastCall'.real = "failed"
  BY <1>1
<1> QED BY <1>1, <1>2, <1>3, SettleKeeps

(* The test is told of a failure exactly when the client is, of a call     *)
(* whose context follows what was asked.                                   *)
LEMMA ToldRight ==
  ASSUME MockInv, Habits = {}, NEW c \in MockCalls, calls[c].pc = "running",
         NEW outcome \in {"message", "failure", "unserializable"}, Disciplined(Asked(c), outcome),
         lastCall' = Told(c, outcome, outcome = "unserializable")
  PROVE  (lastCall'.mock = "answered") = (lastCall'.real = "replied")
<1>1. Follows(contexts[c], Asked(c)) /\ Context(c) = contexts[c] /\ Applicable(Asked(c).events)
      /\ contexts[c].error \in {"none", "ctx.fail"}
  BY RunningCall, Discipline DEF Recorded
<1>2. RealSucceeds(Asked(c), outcome) <=> contexts[c].error = "none" /\ outcome = "message"
  BY <1>1 DEF Follows, RealSucceeds
<1>3. ErrorAfter(Context(c), outcome) = "none" <=> contexts[c].error = "none" /\ outcome # "failure"
  BY <1>1 DEF ErrorAfter
<1>4. /\ lastCall'.mock = (IF outcome = "unserializable" THEN "rejected"
                           ELSE IF ErrorAfter(Context(c), outcome) # "none" THEN "error" ELSE "answered")
      /\ lastCall'.real = (IF RealSucceeds(Asked(c), outcome) THEN "replied" ELSE "failed")
  BY DEF Told
<1>5. lastCall'.mock = "answered" <=> lastCall'.real = "replied"
  BY <1>2, <1>3, <1>4
<1> QED BY <1>5

LEMMA SettleValueKeeps ==
  ASSUME MockInv, Habits = {}, NEW c \in MockCalls,
         NEW outcome \in {"message", "failure", "unserializable"}, SettleValue(c, outcome)
  PROVE  MockInv'
<1>1. /\ mocked = "value" /\ calls[c].pc = "running" /\ Disciplined(Asked(c), outcome)
      /\ calls' = [calls EXCEPT ![c].pc = "settled"]
      /\ lastCall' = Told(c, outcome, outcome = "unserializable")
      /\ stored' = (IF RealSucceeds(Asked(c), outcome) THEN RealStored(Asked(c)) ELSE stored)
      /\ state' = StateAfter(Context(c)) /\ UNCHANGED <<mocked, contexts, events>>
  BY DEF SettleValue, Settled
<1>2. /\ Context(c) = contexts[c] /\ Asked(c) \in Asks /\ Follows(contexts[c], Asked(c))
      /\ state = Mutated(Asked(c))
  BY <1>1, RunningCall
<1>3. stored \in MockStates /\ events \in MockStates
  BY DEF MockInv, MockTypes
<1>4. state' = stored' /\ stored' \in MockStates
  <2>1. CASE RealSucceeds(Asked(c), outcome) /\ Asked(c).action = "update"
    <3>1. stored' = Asked(c).update
      BY <1>1, <2>1 DEF RealStored
    <3>2. state' = Asked(c).update
      BY <1>1, <1>2, <2>1 DEF StateAfter, Follows
    <3> QED BY <1>2, <3>1, <3>2 DEF Asks
  <2>2. CASE RealSucceeds(Asked(c), outcome) /\ Asked(c).action = "delete"
    <3>1. stored' = <<>>
      BY <1>1, <2>2 DEF RealStored
    <3>2. state' = <<>>
      BY <1>1, <1>2, <2>2 DEF StateAfter, Follows
    <3> QED BY <3>1, <3>2 DEF MockStates
  <2>3. CASE RealSucceeds(Asked(c), outcome) /\ Asked(c).action = "none"
    <3>1. Asked(c).events = <<>> /\ Asked(c).update = <<>>
      BY <1>1, <1>2, <2>3 DEF Follows
    <3>2. Asked(c).mutated = <<>>
      BY <1>1, <3>1, Discipline
    <3>3. Payloads(Asked(c).events) = <<>>
      BY <3>1, <1>2, AllApplied DEF Asks
    <3>4. stored' = stored
      BY <1>1, <1>3, <2>3, <3>3 DEF RealStored, MockStates
    <3>5. state' = stored
      BY <1>1, <1>2, <2>3, <3>1, <3>2 DEF StateAfter, Follows, Mutated
    <3> QED BY <1>3, <3>4, <3>5
  <2>4. CASE ~ RealSucceeds(Asked(c), outcome)
    <3>1. Asked(c).action = "none" /\ Asked(c).mutated = <<>>
      BY <1>1, <2>4, Discipline
    <3>2. state' = stored
      BY <1>1, <1>2, <3>1 DEF StateAfter, Follows, Mutated
    <3> QED BY <1>1, <1>3, <2>4, <3>2
  <2> QED BY <1>2, <2>1, <2>2, <2>3, <2>4 DEF Asks
<1>5. (lastCall'.mock = "answered") = (lastCall'.real = "replied")
  BY <1>1, ToldRight
<1>6. \A d \in Running : d = c
  BY <1>1, Discipline
<1>7. mocked # "eventsourced"
  BY <1>1
<1> QED BY <1>1, <1>3, <1>4, <1>5, <1>6, <1>7, SettleKeeps

LEMMA SettleEventSourcedKeeps ==
  ASSUME MockInv, Habits = {}, NEW c \in MockCalls,
         NEW outcome \in {"message", "failure", "unserializable"}, SettleEventSourced(c, outcome)
  PROVE  MockInv'
<1>1. calls[c].pc = "running"
  BY DEF SettleEventSourced, Settled
<1>2. /\ Context(c) = contexts[c] /\ Asked(c) \in Asks /\ Follows(contexts[c], Asked(c))
      /\ state = Mutated(Asked(c))
  BY <1>1, RunningCall
<1> DEFINE es == Context(c).events
<1>3. es = Asked(c).events /\ es \in Seq(MockEvents)
  BY <1>2 DEF Follows, Asks
<1>4. Applicable(es) /\ AppliedEvents(es) = es /\ Payloads(es) \in MockStates
      /\ (es = <<>> => Payloads(es) = <<>>)
  BY <1>3, AllApplied
<1>5. /\ mocked = "eventsourced" /\ Disciplined(Asked(c), outcome)
      /\ calls' = [calls EXCEPT ![c].pc = "settled"]
      /\ lastCall' = Told(c, outcome, outcome = "unserializable" \/ ~ Applicable(es))
      /\ stored' = (IF RealSucceeds(Asked(c), outcome) THEN RealStored(Asked(c)) ELSE stored)
      /\ state' = state \o Payloads(AppliedEvents(es)) /\ events' = events \o Payloads(AppliedEvents(es))
      /\ UNCHANGED <<mocked, contexts>>
  BY DEF SettleEventSourced, Settled
<1> HIDE DEF es
<1>6. state = stored /\ events = stored /\ stored \in MockStates /\ Asked(c).action = "none"
  BY <1>1, <1>2, <1>5 DEF Follows, Mutated, MockInv, MockTypes
<1>7. state' = stored \o Payloads(es) /\ events' = stored \o Payloads(es)
      /\ stored \o Payloads(es) \in MockStates
  BY <1>4, <1>5, <1>6 DEF MockStates
<1>8. stored' = stored \o Payloads(es)
  <2>1. CASE RealSucceeds(Asked(c), outcome)
    BY <1>3, <1>5, <1>6, <2>1 DEF RealStored
  <2>2. CASE ~ RealSucceeds(Asked(c), outcome)
    <3>1. Payloads(es) = <<>>
      BY <1>1, <1>3, <1>4, <1>5, <2>2, Discipline
    <3>2. stored \o <<>> = stored
      BY <1>6 DEF MockStates
    <3> QED BY <1>5, <2>2, <3>1, <3>2
  <2> QED BY <2>1, <2>2
<1>9. lastCall' = Told(c, outcome, outcome = "unserializable")
  <2>1. (outcome = "unserializable" \/ ~ Applicable(es)) <=> outcome = "unserializable"
    BY <1>4
  <2> QED BY <1>5, <2>1 DEF Told
<1>10. (lastCall'.mock = "answered") = (lastCall'.real = "replied")
  BY <1>1, <1>5, <1>9, ToldRight
<1>11. \A d \in Running : d = c
  BY <1>1, <1>5, Discipline
<1> QED BY <1>1, <1>5, <1>7, <1>8, <1>10, <1>11, SettleKeeps

LEMMA StartKeeps ==
  ASSUME MockInv, Habits = {}, NEW c \in MockCalls, NEW x \in MockCalls, HandleCommand(c, x)
  PROVE  MockInv'
<1>1. /\ calls[c].pc = "new" /\ Running = {} /\ x = c
      /\ calls' = [calls EXCEPT ![c] = [@ EXCEPT !.pc = "running", !.ctx = x, !.saw = state]]
      /\ UNCHANGED <<mocked, state, events, error, contexts, stored, lastCall>>
  BY DEF HandleCommand
<1>2. state = stored /\ state \in MockStates
  BY <1>1 DEF MockInv, MockTypes
<1>3. MockTypes'
  <2> DEFINE Calls == [pc : {"new", "running", "settled"}, ctx : MockCalls, saw : MockStates, asked : Asks]
  <2>1. calls[c] \in Calls
    BY DEF MockInv, MockTypes
  <2>2. [calls[c] EXCEPT !.pc = "running", !.ctx = c, !.saw = state] \in Calls
    BY <1>2, <2>1
  <2>3. calls \in [MockCalls -> Calls]
    BY DEF MockInv, MockTypes
  <2>4. calls' \in [MockCalls -> Calls]
    <3> HIDE DEF Calls
    <3> QED BY <1>1, <2>2, <2>3
  <2> QED BY <1>1, <2>4 DEF MockInv, MockTypes
<1>4. /\ calls'[c].pc = "running" /\ calls'[c].ctx = c /\ calls'[c].saw = stored
      /\ calls'[c].asked = calls[c].asked /\ \A d \in MockCalls : d # c => calls'[d] = calls[d]
  BY <1>1, <1>2 DEF MockInv, MockTypes
<1>5. Running' = {c}
  BY <1>1, <1>4 DEF Running
<1>6. contexts'[c] = FreshContext /\ Asked(c)' = NothingAsked
  BY <1>1, <1>4 DEF MockInv, Asked
<1>7. Follows(FreshContext, NothingAsked)' /\ Mutated(NothingAsked)' = stored'
  BY DEF Follows, Mutated, FreshContext, NothingAsked
<1>8. \A d \in MockCalls : calls'[d].pc = "new" => contexts'[d] = FreshContext /\ Asked(d)' = NothingAsked
  BY <1>1, <1>4 DEF MockInv, Asked
<1>9. calls'[c].saw = stored' /\ state' = stored'
  BY <1>1, <1>2, <1>4
<1> QED BY <1>1, <1>3, <1>4, <1>5, <1>6, <1>7, <1>8, <1>9 DEF MockInv

LEMMA MockNext == MockInv /\ Habits = {} /\ [MocksNext]_mocksVars => MockInv'
<1> SUFFICES ASSUME MockInv, Habits = {}, [MocksNext]_mocksVars PROVE MockInv'
  OBVIOUS
<1>1. CASE UNCHANGED mocksVars
  BY <1>1 DEF mocksVars, MockInv, MockTypes, Running, Asked, Follows, Mutated
<1> QED
  BY <1>1, StartKeeps, RefuseKeeps, UpdateKeeps, MutateKeeps, EmitKeeps, DeleteKeeps, FailKeeps,
     ThrowKeeps, SettleValueKeeps, SettleEventSourcedKeeps DEF MocksNext

(* MockIsEntity, for a test that awaits each call and gives it a context   *)
(* of its own, of handlers that ask for nothing when they fail.            *)
THEOREM MockTheorem == ASSUME Habits = {} PROVE LibrarySpec => []MockIsEntity
<1>1. LibraryInit => MockInv
  BY MockInvInit DEF LibraryInit
<1>2. MockInv /\ [LibraryNext]_libraryVars => MockInv'
  BY LibraryStep, MockNext
<1>3. MockInv => MockIsEntity
  BY DEF MockInv, MockIsEntity
<1> QED BY <1>1, <1>2, <1>3, PTL DEF LibrarySpec

----------------------------------------------------------------------------
(* Views.                                                                  *)

(* RowIsFold, of one subject: its row, its offset and what was decided.    *)
Folds(row, n, ds) ==
  /\ Len(ds) = n
  /\ \A i \in 1 .. n : ds[i] \in {"row", "undefined"}
  /\ \A i, j \in DOMAIN row : i < j => row[i] < row[j]
  /\ {row[i] : i \in DOMAIN row} = {i \in 1 .. n : ds[i] = "row"}

FoldOf(s) == Folds(rows[s], offsets[s], decisions[s])

(* A call is of the next event, over the row as it is, and is answered     *)
(* with an upsert only when its handler made one.                          *)
CallFits(s, call) ==
  /\ call = [event |-> offsets[s] + 1, existing |-> rows[s], result |-> call.result, written |-> call.written]
  /\ \/ call.written = <<>>
     \/ call.written = <<End>>
     \/ call.result = "row" /\ call.written = <<Upsert({Append(rows[s], offsets[s] + 1)}), End>>
     \/ call.result = "undefined" /\ call.written = <<Upsert({}), End>>

ViewInv ==
  /\ rows \in [Subjects -> Seq(Nat)]
  /\ offsets \in [Subjects -> Nat]
  /\ decisions \in [Subjects -> Seq({"row", "undefined"})]
  /\ viewCalls = [s \in Subjects |-> viewCalls[s]]
  /\ \A s \in Subjects : FoldOf(s)
  /\ \A s \in Subjects : \A call \in viewCalls[s] : CallFits(s, call)

(* A subject whose part of the state stays as it is.                       *)
LEMMA SubjectStays ==
  ASSUME NEW s, UNCHANGED <<rows[s], offsets[s], decisions[s]>>
  PROVE  /\ FoldOf(s)' <=> FoldOf(s)
         /\ \A call : CallFits(s, call)' <=> CallFits(s, call)
<1>1. FoldOf(s)' <=> FoldOf(s)
  BY DEF FoldOf
<1>2. \A call : CallFits(s, call)' <=> CallFits(s, call)
  BY DEF CallFits
<1> QED BY <1>1, <1>2

(* A step that changes the call of one subject only, to one that fits.     *)
LEMMA CallChanges ==
  ASSUME ViewInv, NEW s \in Subjects, UNCHANGED <<rows, offsets, decisions>>,
         NEW new, viewCalls' = [viewCalls EXCEPT ![s] = new],
         \A call \in new : CallFits(s, call)
  PROVE  ViewInv'
<1>1. \A t : (FoldOf(t)' <=> FoldOf(t)) /\ \A call : CallFits(t, call)' <=> CallFits(t, call)
  BY SubjectStays
<1>2. \A t \in Subjects : viewCalls'[t] = IF t = s THEN new ELSE viewCalls[t]
  BY DEF ViewInv
<1>3. viewCalls' = [t \in Subjects |-> viewCalls'[t]]
  BY DEF ViewInv
<1>4. \A t \in Subjects : \A call \in viewCalls'[t] : CallFits(t, call)'
  BY <1>1, <1>2 DEF ViewInv
<1> QED BY <1>1, <1>3, <1>4 DEF ViewInv

(* A call and what was written to it.                                      *)
AnsweredWith(call, result, lines) == [call EXCEPT !.result = result, !.written = lines]

LEMMA AnsweredCall ==
  ASSUME NEW call, NEW e, NEW x, NEW r, NEW w, NEW result, NEW lines,
         call = [event |-> e, existing |-> x, result |-> r, written |-> w]
  PROVE  AnsweredWith(call, result, lines)
            = [event |-> e, existing |-> x, result |-> result, written |-> lines]
<1>1. call \in [event : {e}, existing : {x}, result : {r}, written : {w}]
  OBVIOUS
<1> DEFINE answered == [call EXCEPT !.result = result, !.written = lines]
<1>2. answered \in [event : {e}, existing : {x}, result : {result}, written : {lines}]
  BY ONLY <1>1
<1> HIDE DEF answered
<1>3. answered = [event |-> e, existing |-> x, result |-> result, written |-> lines]
  BY <1>2
<1> QED BY <1>3 DEF answered, AnsweredWith

LEMMA AnswerFits ==
  ASSUME ViewInv, "promise" \notin HandlerResults, NEW s \in Subjects,
         NEW result \in HandlerResults \cup {"refused"}, Answered(s, result)
  PROVE  ViewInv'
<1>1. PICK call \in viewCalls[s] :
        /\ viewCalls' = [viewCalls EXCEPT ![s] =
              {[call EXCEPT !.result = result,
                            !.written = IF Fails(result) THEN FailAndEnd(call, result) ELSE Upserts(call, result)]}]
        /\ UNCHANGED <<rows, offsets, decisions>>
  BY DEF Answered
<1> DEFINE lines == IF Fails(result) THEN FailAndEnd(call, result) ELSE Upserts(call, result)
           answered == [call EXCEPT !.result = result, !.written = lines]
<1>2. call = [event |-> offsets[s] + 1, existing |-> rows[s], result |-> call.result, written |-> call.written]
  <2>1. CallFits(s, call)
    BY DEF ViewInv
  <2> QED BY <2>1 DEF CallFits
<1>3. call.event = offsets[s] + 1 /\ call.existing = rows[s]
  BY <1>2
<1>4. \/ lines = <<End>>
      \/ result = "row" /\ lines = <<Upsert({Append(rows[s], offsets[s] + 1)}), End>>
      \/ result = "undefined" /\ lines = <<Upsert({}), End>>
  <2>1. CASE Fails(result)
    BY <2>1 DEF FailAndEnd
  <2>2. CASE ~ Fails(result)
    <3>1. result = "row" \/ result = "undefined"
      BY <2>2, ViewUpdateAssumption DEF Fails
    <3>2. lines = Upserts(call, result)
      BY <2>2
    <3> HIDE DEF lines
    <3>3. CASE result = "row"
      BY <1>3, <3>2, <3>3 DEF Upserts
    <3>4. CASE result = "undefined"
      BY <3>2, <3>4 DEF Upserts
    <3> QED BY <3>1, <3>3, <3>4
  <2> QED BY <2>1, <2>2
<1>5. CallFits(s, answered)
  <2> HIDE DEF lines
  <2>1. answered = [event |-> offsets[s] + 1, existing |-> rows[s], result |-> result, written |-> lines]
    <3>1. AnsweredWith(call, result, lines)
             = [event |-> offsets[s] + 1, existing |-> rows[s], result |-> result, written |-> lines]
      BY <1>2, AnsweredCall
    <3> QED BY <3>1 DEF AnsweredWith
  <2>2. answered.result = result /\ answered.written = lines
    BY <2>1
  <2> HIDE DEF answered
  <2> QED BY <1>4, <2>1, <2>2 DEF CallFits
<1>6. \A new \in {answered} : CallFits(s, new)
  BY <1>5
<1>7. viewCalls' = [viewCalls EXCEPT ![s] = {answered}] /\ UNCHANGED <<rows, offsets, decisions>>
  BY <1>1
<1> HIDE DEF answered
<1> QED BY <1>6, <1>7, CallChanges

(* The next event is taken into the row, or is left out of it.             *)
LEMMA FoldGrows ==
  ASSUME NEW row \in Seq(Nat), NEW n \in Nat, NEW ds \in Seq({"row", "undefined"}), Folds(row, n, ds),
         NEW decision \in {"row", "undefined"}, NEW new,
         new = (IF decision = "row" THEN Append(row, n + 1) ELSE row)
  PROVE  new \in Seq(Nat) /\ Folds(new, n + 1, Append(ds, decision))
<1> DEFINE more == Append(ds, decision)
<1>0. /\ Len(ds) = n
      /\ \A i, j \in DOMAIN row : i < j => row[i] < row[j]
      /\ {row[i] : i \in DOMAIN row} = {i \in 1 .. n : ds[i] = "row"}
  BY DEF Folds
<1>1. /\ more \in Seq({"row", "undefined"}) /\ Len(more) = n + 1
      /\ more[n + 1] = decision /\ \A i \in 1 .. n : more[i] = ds[i]
      /\ \A i \in 1 .. n + 1 : more[i] \in {"row", "undefined"}
  BY <1>0
<1>2. \A i \in DOMAIN row : row[i] \in 1 .. n
  BY <1>0
<1> HIDE DEF more
<1>3. CASE decision = "row"
  <2>1. /\ new \in Seq(Nat) /\ DOMAIN new = 1 .. Len(row) + 1 /\ DOMAIN row = 1 .. Len(row)
        /\ new[Len(row) + 1] = n + 1 /\ \A i \in DOMAIN row : new[i] = row[i]
    BY <1>3
  <2>2. \A i, j \in DOMAIN new : i < j => new[i] < new[j]
    BY <1>0, <1>2, <2>1
  <2>3. {new[i] : i \in DOMAIN new} = {row[i] : i \in DOMAIN row} \cup {n + 1}
    <3>1. DOMAIN new = DOMAIN row \cup {Len(row) + 1}
      BY <2>1
    <3> QED BY <2>1, <3>1
  <2>4. {i \in 1 .. n + 1 : more[i] = "row"} = {i \in 1 .. n : ds[i] = "row"} \cup {n + 1}
    BY <1>1, <1>3
  <2> QED BY <1>0, <1>1, <2>1, <2>2, <2>3, <2>4 DEF Folds, more
<1>4. CASE decision = "undefined"
  <2>1. new = row
    BY <1>4
  <2>2. {i \in 1 .. n + 1 : more[i] = "row"} = {i \in 1 .. n : ds[i] = "row"}
    BY <1>1, <1>4
  <2> QED BY <1>0, <1>1, <2>1, <2>2 DEF Folds, more
<1> QED BY <1>3, <1>4

LEMMA UpsertFolds ==
  ASSUME ViewInv, NEW s \in Subjects, ReadUpsert(s)
  PROVE  ViewInv'
<1>1. PICK call \in viewCalls[s] :
        /\ call.written # <<>> /\ Head(call.written).kind = "upsert"
        /\ \A row \in Head(call.written).row : rows' = [rows EXCEPT ![s] = row]
        /\ Head(call.written).row = {} => UNCHANGED rows
        /\ offsets' = [offsets EXCEPT ![s] = call.event]
        /\ decisions' = [decisions EXCEPT ![s] = Append(@, call.result)]
        /\ viewCalls' = [viewCalls EXCEPT ![s] = {}]
  BY DEF ReadUpsert
<1>2. CallFits(s, call) /\ FoldOf(s)
  BY DEF ViewInv
<1>3. /\ rows[s] \in Seq(Nat) /\ offsets[s] \in Nat /\ decisions[s] \in Seq({"row", "undefined"})
      /\ rows = [t \in Subjects |-> rows[t]]
  BY DEF ViewInv
<1> DEFINE new == IF call.result = "row" THEN Append(rows[s], offsets[s] + 1) ELSE rows[s]
<1>4. call.event = offsets[s] + 1 /\ call.result \in {"row", "undefined"} /\ rows' = [rows EXCEPT ![s] = new]
  <2>1. call.event = offsets[s] + 1
    BY <1>2 DEF CallFits
  <2>2. call.written # <<End>>
    BY <1>1 DEF End
  <2>3. CASE call.result = "row" /\ call.written = <<Upsert({Append(rows[s], offsets[s] + 1)}), End>>
    <3>1. Head(call.written).row = {Append(rows[s], offsets[s] + 1)}
      BY <2>3 DEF Upsert
    <3> QED BY <1>1, <2>1, <2>3, <3>1
  <2>4. CASE call.result = "undefined" /\ call.written = <<Upsert({}), End>>
    <3>1. Head(call.written).row = {}
      BY <2>4 DEF Upsert
    <3>2. rows' = [rows EXCEPT ![s] = rows[s]]
      BY <1>1, <1>3, <3>1
    <3> QED BY <2>1, <2>4, <3>2
  <2> QED BY <1>1, <1>2, <2>2, <2>3, <2>4 DEF CallFits
<1>5. /\ rows'[s] = new /\ offsets'[s] = offsets[s] + 1 /\ decisions'[s] = Append(decisions[s], call.result)
      /\ viewCalls'[s] = {}
  BY <1>1, <1>4 DEF ViewInv
<1>6. \A t \in Subjects : t # s =>
        rows'[t] = rows[t] /\ offsets'[t] = offsets[t] /\ decisions'[t] = decisions[t] /\ viewCalls'[t] = viewCalls[t]
  BY <1>1, <1>4 DEF ViewInv
<1>7. rows'[s] \in Seq(Nat) /\ decisions'[s] \in Seq({"row", "undefined"}) /\ FoldOf(s)'
  <2>1. Folds(rows[s], offsets[s], decisions[s])
    BY <1>2 DEF FoldOf
  <2>2. new = (IF call.result = "row" THEN Append(rows[s], offsets[s] + 1) ELSE rows[s])
    OBVIOUS
  <2> HIDE DEF new
  <2>3. new \in Seq(Nat) /\ Folds(new, offsets[s] + 1, Append(decisions[s], call.result))
    BY <1>3, <1>4, <2>1, <2>2, FoldGrows
  <2>4. Append(decisions[s], call.result) \in Seq({"row", "undefined"})
    BY <1>3, <1>4
  <2>5. FoldOf(s)' <=> Folds(rows'[s], offsets'[s], decisions'[s])
    BY DEF FoldOf
  <2> QED BY <1>5, <2>3, <2>4, <2>5
<1>8. \A t \in Subjects : FoldOf(t)'
  <2> SUFFICES ASSUME NEW t \in Subjects, t # s PROVE FoldOf(t)'
    BY <1>7
  <2> QED BY <1>6, SubjectStays DEF ViewInv
<1>9. \A t \in Subjects : \A c \in viewCalls'[t] : CallFits(t, c)'
  <2> SUFFICES ASSUME NEW t \in Subjects, t # s, NEW c \in viewCalls[t] PROVE CallFits(t, c)'
    BY <1>5, <1>6
  <2>1. CallFits(t, c)
    BY DEF ViewInv
  <2> QED BY <1>6, <2>1, SubjectStays
<1>10. /\ rows' \in [Subjects -> Seq(Nat)] /\ offsets' \in [Subjects -> Nat]
       /\ decisions' \in [Subjects -> Seq({"row", "undefined"})]
       /\ viewCalls' = [t \in Subjects |-> viewCalls'[t]]
  <2> HIDE DEF new
  <2>1. new \in Seq(Nat) /\ Append(decisions[s], call.result) \in Seq({"row", "undefined"})
    BY <1>5, <1>7
  <2>2. rows' \in [Subjects -> Seq(Nat)]
    BY <1>4, <2>1 DEF ViewInv
  <2>3. offsets' \in [Subjects -> Nat]
    BY <1>1, <1>3, <1>4 DEF ViewInv
  <2>4. decisions' \in [Subjects -> Seq({"row", "undefined"})]
    BY <1>1, <2>1 DEF ViewInv
  <2>5. viewCalls' = [t \in Subjects |-> viewCalls'[t]]
    BY <1>1 DEF ViewInv
  <2> QED BY <2>2, <2>3, <2>4, <2>5
<1> QED BY <1>8, <1>9, <1>10 DEF ViewInv

LEMMA ViewInvNext ==
  ASSUME ViewInv, "promise" \notin HandlerResults, [ViewNext]_viewVars
  PROVE  ViewInv'
<1>1. CASE UNCHANGED viewVars
  <2>1. UNCHANGED <<rows, offsets, decisions, viewCalls>>
    BY <1>1 DEF viewVars
  <2>2. \A s : (FoldOf(s)' <=> FoldOf(s)) /\ \A call : CallFits(s, call)' <=> CallFits(s, call)
    BY <2>1, SubjectStays
  <2> QED BY <2>1, <2>2 DEF ViewInv
<1>2. ASSUME NEW s \in Subjects, ReceiveEvent(s)
      PROVE  ViewInv'
  <2> DEFINE new == {[event |-> offsets[s] + 1, existing |-> rows[s], result |-> "none", written |-> <<>>]}
  <2>1. viewCalls' = [viewCalls EXCEPT ![s] = new] /\ UNCHANGED <<rows, offsets, decisions>>
    BY <1>2 DEF ReceiveEvent
  <2>2. \A call \in new : CallFits(s, call)
    BY DEF CallFits
  <2> HIDE DEF new
  <2> QED BY <2>1, <2>2, CallChanges
<1>3. ASSUME NEW s \in Subjects, RefuseEvent(s)
      PROVE  ViewInv'
  BY <1>3, AnswerFits DEF RefuseEvent
<1>4. ASSUME NEW s \in Subjects, NEW result \in HandlerResults, Handle(s, result)
      PROVE  ViewInv'
  BY <1>4, AnswerFits DEF Handle
<1>5. ASSUME NEW s \in Subjects, Retries(s)
      PROVE  ViewInv'
  <2>1. viewCalls' = [viewCalls EXCEPT ![s] = {}] /\ UNCHANGED <<rows, offsets, decisions>>
    BY <1>5 DEF Retries
  <2> DEFINE none == {}
  <2>2. viewCalls' = [viewCalls EXCEPT ![s] = none] /\ \A call \in none : CallFits(s, call)
    BY <2>1
  <2> HIDE DEF none
  <2> QED BY <2>1, <2>2, CallChanges
<1> QED
  BY <1>1, <1>2, <1>3, <1>4, <1>5, UpsertFolds DEF ViewNext, ReadEnd, LoseCall

(* RowIsFold, for handlers that do not return a promise, which would be    *)
(* taken for the row (view-support.ts:113).                                *)
THEOREM ViewTheorem == ASSUME "promise" \notin HandlerResults PROVE LibrarySpec => []RowIsFold
<1>1. LibraryInit => ViewInv
  BY DEF LibraryInit, ViewInit, ViewInv, FoldOf, Folds
<1>2. ViewInv /\ [LibraryNext]_libraryVars => ViewInv'
  BY LibraryStep, ViewInvNext
<1>3. ViewInv => RowIsFold
  BY DEF ViewInv, RowIsFold, FoldOf, Folds
<1> QED BY <1>1, <1>2, <1>3, PTL DEF LibrarySpec

----------------------------------------------------------------------------
(* Induction, over the numbers and over sequences.                         *)

Before == OpToRel(<, Nat)

LEMMA Induction ==
  ASSUME NEW S, 0 \in S, \A n \in Nat : n \in S => n + 1 \in S
  PROVE  Nat \subseteq S
<1> SUFFICES ASSUME Nat \ S # {} PROVE FALSE
  OBVIOUS
<1>1. IsWellFoundedOn(Before, Nat)
  BY NatLessThanWellFounded DEF Before
<1>2. PICK n \in Nat \ S : \A m \in Nat \ S : ~ (<<m, n>> \in Before)
  <2>1. Nat \ S \subseteq Nat
    OBVIOUS
  <2> QED BY <1>1, <2>1, WFMin
<1>3. \A m \in Nat \ S : ~ (m < n)
  BY <1>2 DEF Before, OpToRel
<1>4. n # 0 /\ n - 1 \in Nat
  OBVIOUS
<1>5. n - 1 \in S
  BY <1>3, <1>4
<1> QED BY <1>4, <1>5

LEMMA LastOff ==
  ASSUME NEW T, NEW s \in Seq(T), NEW n \in Nat, Len(s) = n + 1
  PROVE  \E t \in Seq(T), e \in T : s = Append(t, e) /\ Len(t) = n
<1>1. SubSeq(s, 1, n) \in Seq(T) /\ Len(SubSeq(s, 1, n)) = n /\ s[n + 1] \in T
  OBVIOUS
<1>2. s = Append(SubSeq(s, 1, n), s[n + 1])
  OBVIOUS
<1> QED BY <1>1, <1>2

LEMMA SeqInduction ==
  ASSUME NEW T, NEW P, <<>> \in P, \A s \in Seq(T), e \in T : s \in P => Append(s, e) \in P
  PROVE  Seq(T) \subseteq P
<1> DEFINE S == {n \in Nat : \A s \in Seq(T) : Len(s) = n => s \in P}
<1>1. 0 \in S
  <2>1. \A s \in Seq(T) : Len(s) = 0 => s = <<>>
    OBVIOUS
  <2> QED BY <2>1
<1>2. ASSUME NEW n \in Nat, n \in S PROVE n + 1 \in S
  <2> SUFFICES ASSUME NEW s \in Seq(T), Len(s) = n + 1 PROVE s \in P
    OBVIOUS
  <2>1. PICK t \in Seq(T), e \in T : s = Append(t, e) /\ Len(t) = n
    BY LastOff
  <2> QED BY <1>2, <2>1
<1>3. Nat \subseteq S
  <2> HIDE DEF S
  <2> QED BY <1>1, <1>2, Induction
<1>4. \A s \in Seq(T) : Len(s) \in Nat
  OBVIOUS
<1> QED BY <1>3, <1>4

----------------------------------------------------------------------------
(* Flattening a sequence of sequences, one after another.                   *)

FlattenFcn(ss, n, g) ==
  g = [i \in 1 .. n |-> IF i = 1 THEN ss[i] ELSE g[i - 1] \o ss[i]]

LEMMA FlattenExists ==
  ASSUME NEW ss, NEW k \in Nat
  PROVE  \E g : FlattenFcn(ss, k, g)
<1> DEFINE S == {n \in Nat : \E g : FlattenFcn(ss, n, g)}
<1>1. 0 \in S
  <2>1. FlattenFcn(ss, 0, [i \in 1 .. 0 |-> <<>>])
    BY DEF FlattenFcn
  <2> QED BY <2>1
<1>2. ASSUME NEW n \in Nat, n \in S PROVE n + 1 \in S
  <2>1. PICK g : FlattenFcn(ss, n, g)
    BY <1>2
  <2> DEFINE h == [i \in 1 .. n + 1 |-> IF i = 1 THEN ss[i] ELSE g[i - 1] \o ss[i]]
  <2>2. ASSUME NEW i \in 1 .. n PROVE h[i] = g[i]
    <3>1. g[i] = IF i = 1 THEN ss[i] ELSE g[i - 1] \o ss[i]
      BY <2>1 DEF FlattenFcn
    <3>2. i \in 1 .. n + 1
      OBVIOUS
    <3> QED BY <3>1, <3>2
  <2>3. ASSUME NEW i \in 1 .. n + 1, i # 1 PROVE h[i] = h[i - 1] \o ss[i]
    <3>1. i - 1 \in 1 .. n
      BY <2>3
    <3> QED BY <2>2, <2>3, <3>1
  <2>4. h[1] = ss[1] /\ h = [i \in 1 .. n + 1 |-> h[i]]
    OBVIOUS
  <2>5. FlattenFcn(ss, n + 1, h)
    <3> HIDE DEF h
    <3> QED BY <2>3, <2>4 DEF FlattenFcn
  <2> QED BY <2>5
<1>3. Nat \subseteq S
  <2> HIDE DEF S
  <2> QED BY <1>1, <1>2, Induction
<1> QED BY <1>3

LEMMA FlattenIs ==
  ASSUME NEW ss, Len(ss) \in Nat \ {0}
  PROVE  \E g : FlattenFcn(ss, Len(ss), g) /\ FlattenSeq(ss) = g[Len(ss)]
<1> DEFINE g == CHOOSE f : FlattenFcn(ss, Len(ss), f)
<1>1. FlattenFcn(ss, Len(ss), g)
  BY FlattenExists
<1>2. FlattenSeq(ss) = g[Len(ss)]
  BY DEF FlattenSeq, FlattenFcn
<1> QED BY <1>1, <1>2

LEMMA FlattenNone == FlattenSeq(<<>>) = <<>>
BY DEF FlattenSeq

(* What was flattened is followed by what is appended. *)
LEMMA FlattenAppend ==
  ASSUME NEW W, NEW ss \in Seq(Seq(W)), NEW v \in Seq(W)
  PROVE  FlattenSeq(Append(ss, v)) = FlattenSeq(ss) \o v
<1> DEFINE tt == Append(ss, v)
           n == Len(ss)
<1>1. n \in Nat /\ Len(tt) = n + 1 /\ tt[n + 1] = v /\ \A i \in 1 .. n : tt[i] = ss[i]
  OBVIOUS
<1>2. PICK h : FlattenFcn(tt, n + 1, h) /\ FlattenSeq(tt) = h[n + 1]
  <2> HIDE DEF tt, n
  <2>1. Len(tt) \in Nat \ {0}
    BY <1>1
  <2> QED BY <1>1, <2>1, FlattenIs
<1>3. CASE n = 0
  <2>1. FlattenSeq(tt) = v
    BY <1>1, <1>2, <1>3 DEF FlattenFcn
  <2>2. ss = <<>> /\ <<>> \o v = v
    BY <1>3
  <2> QED BY <2>1, <2>2, FlattenNone
<1>4. CASE n # 0
  <2>1. PICK g : FlattenFcn(ss, n, g) /\ FlattenSeq(ss) = g[n]
    BY <1>1, <1>4, FlattenIs
  <2> HIDE DEF tt, n
  <2> DEFINE S == {i \in Nat : i + 1 <= n => h[i + 1] = g[i + 1]}
  <2>2. 0 \in S
    BY <1>1, <1>2, <2>1 DEF FlattenFcn
  <2>3. ASSUME NEW i \in Nat, i \in S PROVE i + 1 \in S
    <3> SUFFICES ASSUME i + 2 <= n PROVE h[i + 2] = g[i + 2]
      OBVIOUS
    <3>1. i + 2 \in 1 .. n /\ i + 2 \in 1 .. n + 1 /\ i + 2 # 1 /\ (i + 2) - 1 = i + 1
      BY <1>1
    <3>2. h[i + 2] = h[i + 1] \o tt[i + 2]
      BY <1>2, <3>1 DEF FlattenFcn
    <3>3. g[i + 2] = g[i + 1] \o ss[i + 2]
      BY <2>1, <3>1 DEF FlattenFcn
    <3>4. h[i + 1] = g[i + 1]
      BY <1>1, <2>3
    <3> QED BY <1>1, <3>1, <3>2, <3>3, <3>4
  <2>4. Nat \subseteq S
    <3> HIDE DEF S
    <3> QED BY <2>2, <2>3, Induction
  <2>5. n - 1 \in S
    <3>1. n - 1 \in Nat
      BY <1>1, <1>4
    <3> HIDE DEF S
    <3> QED BY <2>4, <3>1
  <2>6. h[n] = g[n]
    <3>1. (n - 1) + 1 = n /\ n <= n
      BY <1>1
    <3> QED BY <2>5, <3>1
  <2>7. h[n + 1] = h[n] \o v
    <3>1. n + 1 \in 1 .. n + 1 /\ n + 1 # 1 /\ (n + 1) - 1 = n
      BY <1>1, <1>4
    <3> QED BY <1>1, <1>2, <3>1 DEF FlattenFcn
  <2> QED BY <1>2, <2>1, <2>6, <2>7 DEF tt
<1> QED BY <1>3, <1>4

----------------------------------------------------------------------------
(* Selecting the entries of some names.                                      *)

(* What is written, and what an entry may have.                            *)
Given == MetadataValues \cup {Text("code")}
EntryValues == Given \cup {Unset}
Entries == [key : MetadataKeys, value : EntryValues]
Lists == Seq(Entries)

(* What the first n entries of a list select. *)
Selects(list, names, n, g) ==
  /\ g \in [0 .. n -> Lists]
  /\ g[0] = <<>>
  /\ \A i \in 1 .. n :
       g[i] = IF list[i].key.name \in names THEN Append(g[i - 1], list[i]) ELSE g[i - 1]

LEMMA SelectsExist ==
  ASSUME NEW list \in Lists, NEW names
  PROVE  \E g : Selects(list, names, Len(list), g)
<1> DEFINE S == {n \in Nat : n <= Len(list) => \E g : Selects(list, names, n, g)}
<1>0. Len(list) \in Nat /\ \A i \in 1 .. Len(list) : list[i] \in Entries
  BY DEF Lists
<1>1. 0 \in S
  <2>1. <<>> \in Lists
    BY DEF Lists
  <2>2. Selects(list, names, 0, [i \in 0 .. 0 |-> <<>>])
    BY <2>1 DEF Selects
  <2> QED BY <2>2
<1>2. ASSUME NEW n \in Nat, n \in S, n + 1 <= Len(list)
      PROVE  \E g : Selects(list, names, n + 1, g)
  <2>1. PICK g : Selects(list, names, n, g)
    BY <1>0, <1>2
  <2> DEFINE last == IF list[n + 1].key.name \in names THEN Append(g[n], list[n + 1]) ELSE g[n]
             h == [i \in 0 .. n + 1 |-> IF i <= n THEN g[i] ELSE last]
  <2>2. g[n] \in Lists /\ list[n + 1] \in Entries
    BY <1>0, <1>2, <2>1 DEF Selects
  <2>3. last \in Lists
    BY <2>2 DEF Lists
  <2>4. \A i \in 0 .. n : h[i] = g[i]
    OBVIOUS
  <2>5. h[n + 1] = last
    OBVIOUS
  <2>6. h \in [0 .. n + 1 -> Lists]
    <3>1. \A i \in 0 .. n + 1 : (IF i <= n THEN g[i] ELSE last) \in Lists
      BY <2>1, <2>3 DEF Selects
    <3> QED BY <3>1
  <2>7. h[0] = <<>>
    BY <2>1, <2>4 DEF Selects
  <2> HIDE DEF h
  <2>8. ASSUME NEW i \in 1 .. n + 1
        PROVE  h[i] = IF list[i].key.name \in names THEN Append(h[i - 1], list[i]) ELSE h[i - 1]
    <3>1. CASE i \in 1 .. n
      <4>1. i - 1 \in 0 .. n /\ i \in 0 .. n
        BY <3>1
      <4> QED BY <2>1, <2>4, <3>1, <4>1 DEF Selects
    <3>2. CASE i = n + 1
      <4>1. h[i - 1] = g[n]
        BY <2>4, <3>2
      <4> QED BY <2>5, <3>2, <4>1
    <3> QED BY <3>1, <3>2
  <2> QED BY <2>6, <2>7, <2>8 DEF Selects
<1>3. Nat \subseteq S
  <2>1. \A n \in Nat : n \in S => n + 1 \in S
    BY <1>2
  <2> HIDE DEF S
  <2> QED BY <1>1, <2>1, Induction
<1> QED BY <1>0, <1>3

(* Selected is the last of them. *)
LEMMA SelectedIs ==
  ASSUME NEW list \in Lists, NEW names, NEW g,
         Selects(list, names, Len(list), g)
  PROVE  Selected(list, names) = g[Len(list)]
<1> DEFINE Rec(f) ==
      f = [n \in 0 .. Len(list) |->
             IF n = 0 THEN <<>>
             ELSE IF list[n].key.name \in names THEN Append(f[n - 1], list[n])
             ELSE f[n - 1]]
<1>0. Len(list) \in Nat
  BY DEF Lists
<1>1. Rec(g)
  <2>1. g = [n \in 0 .. Len(list) |-> g[n]]
    BY DEF Selects
  <2>2. ASSUME NEW n \in 0 .. Len(list)
        PROVE  g[n] = IF n = 0 THEN <<>>
                      ELSE IF list[n].key.name \in names THEN Append(g[n - 1], list[n])
                      ELSE g[n - 1]
    <3>1. CASE n = 0
      BY <3>1 DEF Selects
    <3>2. CASE n # 0
      <4>1. n \in 1 .. Len(list)
        BY <1>0, <3>2
      <4> QED BY <3>2, <4>1 DEF Selects
    <3> QED BY <3>1, <3>2
  <2> QED BY <2>1, <2>2
<1>2. ASSUME NEW f, Rec(f) PROVE f = g
  <2> DEFINE S == {i \in Nat : i <= Len(list) => f[i] = g[i]}
  <2>1. 0 \in S
    BY <1>0, <1>2 DEF Selects
  <2>2. ASSUME NEW i \in Nat, i \in S PROVE i + 1 \in S
    <3> SUFFICES ASSUME i + 1 <= Len(list) PROVE f[i + 1] = g[i + 1]
      OBVIOUS
    <3>1. f[i] = g[i] /\ i + 1 \in 1 .. Len(list) /\ i + 1 \in 0 .. Len(list)
          /\ (i + 1) - 1 = i /\ i + 1 # 0
      BY <1>0, <2>2
    <3>2. f[i + 1] = IF list[i + 1].key.name \in names THEN Append(f[i], list[i + 1]) ELSE f[i]
      BY <1>2, <3>1
    <3>3. g[i + 1] = IF list[i + 1].key.name \in names THEN Append(g[i], list[i + 1]) ELSE g[i]
      BY <3>1 DEF Selects
    <3> QED BY <3>1, <3>2, <3>3
  <2>3. Nat \subseteq S
    <3> HIDE DEF S
    <3> QED BY <2>1, <2>2, Induction
  <2>4. \A i \in 0 .. Len(list) : f[i] = g[i]
    BY <1>0, <2>3
  <2>5. f = [i \in 0 .. Len(list) |-> f[i]]
    BY <1>2
  <2>6. g = [i \in 0 .. Len(list) |-> g[i]]
    BY DEF Selects
  <2> QED BY <2>4, <2>5, <2>6
<1>3. (CHOOSE f : Rec(f)) = g
  <2>1. \A f : Rec(f) => f = g
    BY <1>2
  <2> HIDE DEF Rec
  <2>2. Rec(CHOOSE f : Rec(f))
    BY <1>1
  <2> QED BY <2>1, <2>2
<1> QED BY <1>3 DEF Selected

LEMMA SelectedEmpty == ASSUME NEW names PROVE Selected(<<>>, names) = <<>>
<1>1. <<>> \in Lists /\ Len(<<>>) = 0
  BY DEF Lists
<1>2. Selects(<<>>, names, 0, [i \in 0 .. 0 |-> <<>>])
  BY <1>1 DEF Selects
<1> QED BY <1>1, <1>2, SelectedIs

LEMMA SelectedAppend ==
  ASSUME NEW list \in Lists, NEW e \in Entries, NEW names
  PROVE  /\ Selected(list, names) \in Lists
         /\ Selected(Append(list, e), names) =
              IF e.key.name \in names THEN Append(Selected(list, names), e)
              ELSE Selected(list, names)
<1> DEFINE n == Len(list)
           t == Append(list, e)
<1>1. n \in Nat /\ t \in Lists /\ Len(t) = n + 1 /\ t[n + 1] = e
      /\ \A i \in 1 .. n : t[i] = list[i]
  BY DEF Lists
<1>2. PICK h : Selects(t, names, n + 1, h)
  BY <1>1, SelectsExist
<1> DEFINE g == [i \in 0 .. n |-> h[i]]
<1> HIDE DEF n, t
<1>3. Selects(list, names, n, g)
  <2>1. g \in [0 .. n -> Lists] /\ g[0] = <<>>
    BY <1>1, <1>2 DEF Selects
  <2>2. ASSUME NEW i \in 1 .. n
        PROVE g[i] = IF list[i].key.name \in names THEN Append(g[i - 1], list[i]) ELSE g[i - 1]
    <3>1. i \in 1 .. n + 1 /\ i - 1 \in 0 .. n /\ i \in 0 .. n /\ t[i] = list[i]
      BY <1>1
    <3> QED BY <1>2, <3>1 DEF Selects
  <2> QED BY <2>1, <2>2 DEF Selects
<1>4. Selected(t, names) = h[n + 1] /\ Selected(list, names) = g[n]
  BY <1>1, <1>2, <1>3, SelectedIs DEF n
<1>5. g[n] = h[n] /\ h[n] \in Lists
      /\ h[n + 1] = IF e.key.name \in names THEN Append(h[n], e) ELSE h[n]
  <2>1. n + 1 \in 1 .. n + 1 /\ (n + 1) - 1 = n /\ n \in 0 .. n /\ n \in 0 .. n + 1
    BY <1>1
  <2> QED BY <1>1, <1>2, <2>1 DEF Selects
<1> QED BY <1>4, <1>5 DEF t

LEMMA SelectedType ==
  ASSUME NEW names
  PROVE  \A list \in Lists : /\ Selected(list, names) \in Lists
                             /\ Len(Selected(list, names)) <= Len(list)
<1> DEFINE P == {list \in Lists : /\ Selected(list, names) \in Lists
                                  /\ Len(Selected(list, names)) <= Len(list)}
<1>1. <<>> \in P
  <2>1. Len(<<>>) <= Len(<<>>) /\ <<>> \in Lists
    BY DEF Lists
  <2> QED BY <2>1, SelectedEmpty
<1>2. ASSUME NEW list \in Lists, NEW e \in Entries, list \in P PROVE Append(list, e) \in P
  <2> DEFINE s == Selected(list, names)
             t == Selected(Append(list, e), names)
  <2>1. s \in Lists /\ Len(s) <= Len(list)
    BY <1>2
  <2>2. t = s \/ t = Append(s, e)
    BY SelectedAppend
  <2> HIDE DEF s, t
  <2>3. t \in Lists /\ Len(t) <= Len(Append(list, e)) /\ Append(list, e) \in Lists
    BY <2>1, <2>2 DEF Lists
  <2> QED BY <2>3 DEF t
<1>3. Lists \subseteq P
  <2> HIDE DEF P
  <2> QED BY <1>1, <1>2, SeqInduction DEF Lists
<1> QED BY <1>3

(* Selecting from what was selected. *)
LEMMA SelectedTwice ==
  ASSUME NEW some, NEW names
  PROVE  \A list \in Lists :
           Selected(Selected(list, some), names) = Selected(list, some \cap names)
<1> DEFINE P == {list \in Lists :
                   Selected(Selected(list, some), names) = Selected(list, some \cap names)}
<1>1. <<>> \in P
  BY SelectedEmpty DEF Lists
<1>2. ASSUME NEW list \in Lists, NEW e \in Entries, list \in P PROVE Append(list, e) \in P
  <2> DEFINE rest == Selected(list, some)
             found == Selected(list, some \cap names)
             t == Append(list, e)
  <2>1. rest \in Lists /\ t \in Lists
    BY SelectedType DEF Lists
  <2>2. Selected(rest, names) = found
    BY <1>2
  <2>3. Selected(t, some) = IF e.key.name \in some THEN Append(rest, e) ELSE rest
    BY SelectedAppend
  <2>4. Selected(t, some \cap names) = IF e.key.name \in some \cap names THEN Append(found, e) ELSE found
    BY SelectedAppend
  <2> HIDE DEF rest, found, t
  <2>5. Selected(Append(rest, e), names) = IF e.key.name \in names THEN Append(found, e) ELSE found
    BY <2>1, <2>2, SelectedAppend
  <2>6. Selected(Selected(t, some), names) = Selected(t, some \cap names)
    BY <2>2, <2>3, <2>4, <2>5
  <2> QED BY <2>1, <2>6 DEF t
<1>3. Lists \subseteq P
  <2> HIDE DEF P
  <2> QED BY <1>1, <1>2, SeqInduction DEF Lists
<1> QED BY <1>3

LEMMA SelectedNone == \A list \in Lists : Selected(list, {}) = <<>>
<1> DEFINE P == {list \in Lists : Selected(list, {}) = <<>>}
<1>1. <<>> \in P
  BY SelectedEmpty DEF Lists
<1>2. ASSUME NEW list \in Lists, NEW e \in Entries, list \in P PROVE Append(list, e) \in P
  <2>1. Selected(Append(list, e), {}) = Selected(list, {})
    BY SelectedAppend
  <2> QED BY <1>2, <2>1 DEF Lists
<1>3. Lists \subseteq P
  <2> HIDE DEF P
  <2> QED BY <1>1, <1>2, SeqInduction DEF Lists
<1> QED BY <1>3

(* An entry is found exactly if there is one. *)
LEMMA SelectedFinds ==
  ASSUME NEW key
  PROVE  \A list \in Lists :
           (\E i \in DOMAIN list : Matches(key, list[i])) <=> Selected(list, {key.name}) # <<>>
<1> DEFINE P == {list \in Lists : (\E i \in DOMAIN list : Matches(key, list[i]))
                                    <=> Selected(list, {key.name}) # <<>>}
<1>1. <<>> \in P
  BY SelectedEmpty DEF Lists
<1>2. ASSUME NEW list \in Lists, NEW e \in Entries, list \in P PROVE Append(list, e) \in P
  <2> DEFINE found == Selected(list, {key.name})
             t == Append(list, e)
             n == Len(list)
  <2>1. found \in Lists /\ Selected(t, {key.name}) = IF Matches(key, e) THEN Append(found, e) ELSE found
    BY SelectedType, SelectedAppend DEF Matches
  <2>2. (\E i \in DOMAIN list : Matches(key, list[i])) <=> found # <<>>
    BY <1>2
  <2>3. n \in Nat /\ DOMAIN list = 1 .. n /\ DOMAIN t = 1 .. n + 1 /\ t[n + 1] = e
        /\ (\A i \in 1 .. n : t[i] = list[i]) /\ t \in Lists
    BY DEF Lists
  <2> HIDE DEF found, t, n
  <2>4. (\E i \in DOMAIN t : Matches(key, t[i]))
          <=> Matches(key, e) \/ \E i \in DOMAIN list : Matches(key, list[i])
    <3>1. \A i : i \in 1 .. n + 1 <=> i \in 1 .. n \/ i = n + 1
      BY <2>3
    <3> QED BY <2>3, <3>1
  <2>5. Append(found, e) # <<>>
    BY <2>1 DEF Lists
  <2>6. (\E i \in DOMAIN t : Matches(key, t[i])) <=> Selected(t, {key.name}) # <<>>
    BY <2>1, <2>2, <2>4, <2>5
  <2> QED BY <2>3, <2>6 DEF t
<1>3. Lists \subseteq P
  <2> HIDE DEF P
  <2> QED BY <1>1, <1>2, SeqInduction DEF Lists
<1> QED BY <1>3

----------------------------------------------------------------------------
(* The views on the metadata.                                              *)

ValuesOf(found) == [i \in DOMAIN found |-> found[i].value]

LEMMA ValuesInIs == ASSUME NEW list, NEW k PROVE ValuesIn(list, k) = ValuesOf(Selected(list, {k.name}))
BY DEF ValuesIn, ValuesOf

LEMMA ValuesOfAppend ==
  ASSUME NEW found \in Lists, NEW e \in Entries
  PROVE  ValuesOf(Append(found, e)) = Append(ValuesOf(found), e.value)
BY DEF ValuesOf, Lists

LEMMA ValuesOfEmpty == ValuesOf(<<>>) = <<>>
BY DEF ValuesOf

LEMMA WithIs ==
  ASSUME NEW key \in MetadataKeys, NEW v \in EntryValues
  PROVE  \E e \in Entries : e.key = key /\ e.value = v /\ \A list : With(list, key, v) = Append(list, e)
BY DEF With, Entries

LEMMA ValuesInWith ==
  ASSUME NEW list \in Lists, NEW key \in MetadataKeys, NEW v \in EntryValues
  PROVE  /\ With(list, key, v) \in Lists /\ Len(With(list, key, v)) = Len(list) + 1
         /\ \A k : k.name = key.name => ValuesIn(With(list, key, v), k) = Append(ValuesIn(list, k), v)
         /\ \A k : k.name # key.name => ValuesIn(With(list, key, v), k) = ValuesIn(list, k)
<1>1. PICK e \in Entries : e.key = key /\ e.value = v /\ With(list, key, v) = Append(list, e)
  BY WithIs
<1>2. With(list, key, v) \in Lists /\ Len(With(list, key, v)) = Len(list) + 1
  BY <1>1 DEF Lists
<1>3. ASSUME NEW k
      PROVE  /\ k.name = key.name => ValuesIn(With(list, key, v), k) = Append(ValuesIn(list, k), v)
             /\ k.name # key.name => ValuesIn(With(list, key, v), k) = ValuesIn(list, k)
  <2> DEFINE found == Selected(list, {k.name})
  <2>1. found \in Lists
    BY SelectedType
  <2>2. Selected(Append(list, e), {k.name}) = IF key.name \in {k.name} THEN Append(found, e) ELSE found
    BY <1>1, SelectedAppend
  <2> HIDE DEF found
  <2>3. ValuesIn(list, k) = ValuesOf(found)
    BY ValuesInIs DEF found
  <2>4. ValuesIn(With(list, key, v), k) = ValuesOf(Selected(Append(list, e), {k.name}))
    BY <1>1, ValuesInIs
  <2>5. ValuesOf(Append(found, e)) = Append(ValuesOf(found), v)
    BY <1>1, <2>1, ValuesOfAppend
  <2> QED BY <2>2, <2>3, <2>4, <2>5
<1> QED BY <1>2, <1>3

LEMMA ValuesInWithout ==
  ASSUME NEW list \in Lists, NEW key \in MetadataKeys
  PROVE  /\ Without(list, key) \in Lists /\ Len(Without(list, key)) <= Len(list)
         /\ \A k \in MetadataKeys :
              /\ k.name = key.name => ValuesIn(Without(list, key), k) = <<>>
              /\ k.name # key.name => ValuesIn(Without(list, key), k) = ValuesIn(list, k)
<1>1. Without(list, key) \in Lists /\ Len(Without(list, key)) <= Len(list)
  BY SelectedType DEF Without
<1>2. ASSUME NEW k \in MetadataKeys
      PROVE  /\ k.name = key.name => ValuesIn(Without(list, key), k) = <<>>
             /\ k.name # key.name => ValuesIn(Without(list, key), k) = ValuesIn(list, k)
  <2> DEFINE rest == KeyNames \ {key.name}
  <2>1. rest \cap {k.name} = IF k.name = key.name THEN {} ELSE {k.name}
    BY DEF MetadataKeys
  <2> HIDE DEF rest
  <2>2. Selected(Without(list, key), {k.name}) = Selected(list, rest \cap {k.name})
    BY SelectedTwice DEF Without, rest
  <2>3. Selected(list, {}) = <<>>
    BY SelectedNone
  <2> QED BY <2>1, <2>2, <2>3, ValuesInIs, ValuesOfEmpty
<1> QED BY <1>1, <1>2

LEMMA ValuesInNone == ASSUME NEW k PROVE ValuesIn(<<>>, k) = <<>>
BY SelectedEmpty, ValuesInIs, ValuesOfEmpty

LEMMA OneValue ==
  ASSUME NEW v \in Given PROVE <<v>> \in Seq(Given) /\ Append(<<>>, v) = <<v>>
OBVIOUS

LEMMA HasKeyIs ==
  ASSUME entries \in Lists, NEW key
  PROVE  HasKey(key) <=> ValuesAt(key) # <<>>
<1> DEFINE found == Selected(entries, {key.name})
<1>1. HasKey(key) <=> found # <<>>
  BY SelectedFinds DEF HasKey
<1>2. found \in Lists
  BY SelectedType
<1> HIDE DEF found
<1>3. found # <<>> <=> ValuesOf(found) # <<>>
  BY <1>2 DEF Lists, ValuesOf
<1>4. ValuesAt(key) = ValuesOf(found)
  BY ValuesInIs DEF ValuesAt, found
<1> QED BY <1>1, <1>3, <1>4

(* Each key has the values that are given for its name. *)
Has(list, values) == \A k \in MetadataKeys : ValuesIn(list, k) = values[k.name]

(* What each key has in the list is what was written to it, by whichever   *)
(* view.                                                                   *)
MetadataInv ==
  /\ entries \in Lists /\ Len(entries) <= MaxEntries + 1
  /\ written \in [KeyNames -> Seq(Given)]
  /\ Has(entries, written)

LEMMA KeyHasName == ASSUME NEW key \in MetadataKeys PROVE key.name \in KeyNames
BY DEF MetadataKeys

LEMMA OneAt ==
  ASSUME NEW T, NEW S, NEW x \in T, NEW y \in T, NEW k
  PROVE  [n \in S |-> IF n = k THEN x ELSE y] \in [S -> T]
OBVIOUS

LEMMA GivenAreValues == Given \subseteq EntryValues
BY DEF EntryValues

LEMMA NoListsLong == Len(<<>>) = 0 /\ <<>> \in Lists /\ <<>> \in Seq(Given)
BY DEF Lists

LEMMA OneEntry ==
  ASSUME NEW key \in MetadataKeys, NEW v \in EntryValues, NEW r, r = With(<<>>, key, v)
  PROVE  /\ r \in Lists /\ Len(r) = 1 /\ r # <<>> /\ r[1].key.name = key.name /\ r[1].value = v
         /\ \A k : ValuesIn(r, k) = IF k.name = key.name THEN <<v>> ELSE <<>>
<1>1. <<>> \in Lists /\ Len(<<>>) = 0
  BY NoListsLong
<1>2. With(<<>>, key, v) \in Lists /\ Len(With(<<>>, key, v)) = Len(<<>>) + 1
  BY <1>1, ValuesInWith
<1>3. PICK e \in Entries : e.key = key /\ e.value = v /\ r = Append(<<>>, e)
  BY WithIs
<1>4. r # <<>> /\ r[1] = e
  BY <1>3
<1>5. ASSUME NEW k
      PROVE  ValuesIn(With(<<>>, key, v), k) = IF k.name = key.name THEN <<v>> ELSE <<>>
  <2>1. ValuesIn(<<>>, k) = <<>>
    BY ValuesInNone
  <2>2. Append(<<>>, v) = <<v>>
    BY OneValue
  <2>3. k.name = key.name => ValuesIn(With(<<>>, key, v), k) = Append(ValuesIn(<<>>, k), v)
    BY <1>1, ValuesInWith
  <2>4. k.name # key.name => ValuesIn(With(<<>>, key, v), k) = ValuesIn(<<>>, k)
    BY <1>1, ValuesInWith
  <2> QED BY <2>1, <2>2, <2>3, <2>4
<1> QED BY <1>1, <1>2, <1>3, <1>4, <1>5

LEMMA MetadataInvInit == ~ HasEmptyEntries /\ MetadataInit => MetadataInv
<1> SUFFICES ASSUME NEW received \in {<<>>} \cup {With(<<>>, key, v) : key \in MetadataKeys, v \in MetadataValues},
                    entries = FromProtocol(received),
                    written = [n \in KeyNames |->
                                 IF received # <<>> /\ received[1].key.name = n /\ received[1].value # Unset
                                 THEN <<received[1].value>> ELSE <<>>]
             PROVE  MetadataInv
  BY DEF MetadataInit
<1>0. entries = received /\ MaxEntries \in Nat
  BY MessageMetadataAssumption DEF FromProtocol
<1>1. CASE received = <<>>
  <2>1. Has(entries, written)
    BY <1>0, <1>1, ValuesInNone, KeyHasName DEF Has
  <2>2. written \in [KeyNames -> Seq(Given)]
    BY <1>1, NoListsLong
  <2> QED BY <1>0, <1>1, <2>1, <2>2, NoListsLong DEF MetadataInv
<1>2. ASSUME NEW key \in MetadataKeys, NEW v \in MetadataValues, received = With(<<>>, key, v)
      PROVE  MetadataInv
  <2>0. v \in Given /\ v \in EntryValues /\ v # Unset
    BY DEF Given, EntryValues, MetadataValues, Empties, Text, Buffer, Unset
  <2>1. entries \in Lists /\ Len(entries) = 1 /\ entries # <<>>
        /\ entries[1].key.name = key.name /\ entries[1].value = v
    BY <1>0, <1>2, <2>0, OneEntry
  <2>2. <<v>> \in Seq(Given) /\ <<>> \in Seq(Given) /\ Append(<<>>, v) = <<v>>
    BY <2>0, OneValue, NoListsLong
  <2>3. written = [n \in KeyNames |-> IF n = key.name THEN <<v>> ELSE <<>>]
    BY <1>0, <2>0, <2>1
  <2>4. written \in [KeyNames -> Seq(Given)]
    <3>1. <<v>> \in Seq(Given) /\ <<>> \in Seq(Given)
      BY <2>2
    <3>2. [n \in KeyNames |-> IF n = key.name THEN <<v>> ELSE <<>>] \in [KeyNames -> Seq(Given)]
      BY <3>1, OneAt
    <3> QED BY <2>3, <3>2
  <2>5. ASSUME NEW k \in MetadataKeys PROVE ValuesIn(entries, k) = written[k.name]
    <3>1. written[k.name] = IF k.name = key.name THEN <<v>> ELSE <<>>
      BY <2>3, KeyHasName
    <3>2. ValuesIn(With(<<>>, key, v), k) = IF k.name = key.name THEN <<v>> ELSE <<>>
      BY <2>0, <2>2, OneEntry
    <3> QED BY <1>0, <1>2, <3>1, <3>2
  <2>6. Has(entries, written)
    BY <2>5 DEF Has
  <2> QED BY <1>0, <2>1, <2>4, <2>6 DEF MetadataInv
<1> QED BY <1>1, <1>2

LEMMA HasWith ==
  ASSUME NEW list \in Lists, NEW f, Has(list, f), NEW key \in MetadataKeys, NEW v \in Given
  PROVE  \A k \in MetadataKeys :
           ValuesIn(With(list, key, v), k)
             = IF k.name = key.name THEN Append(f[key.name], v) ELSE f[k.name]
<1> SUFFICES ASSUME NEW k \in MetadataKeys
             PROVE  ValuesIn(With(list, key, v), k)
                      = IF k.name = key.name THEN Append(f[key.name], v) ELSE f[k.name]
  OBVIOUS
<1>1. ValuesIn(list, k) = f[k.name]
  BY DEF Has
<1>2. CASE k.name = key.name
  <2>1. ValuesIn(With(list, key, v), k) = Append(ValuesIn(list, k), v)
    BY <1>2, ValuesInWith, GivenAreValues
  <2> QED BY <1>1, <1>2, <2>1
<1>3. CASE k.name # key.name
  <2>1. ValuesIn(With(list, key, v), k) = ValuesIn(list, k)
    BY <1>3, ValuesInWith, GivenAreValues
  <2> QED BY <1>1, <1>3, <2>1
<1> QED BY <1>2, <1>3

LEMMA HasWithout ==
  ASSUME NEW list \in Lists, NEW f, Has(list, f), NEW key \in MetadataKeys
  PROVE  \A k \in MetadataKeys :
           ValuesIn(Without(list, key), k) = IF k.name = key.name THEN <<>> ELSE f[k.name]
BY ValuesInWithout DEF Has

(* The three ways in which the list and what was written change. *)
Put(f, key, values) == [f EXCEPT ![key.name] = values]

LEMMA WrittenAfter ==
  ASSUME MetadataInv, NEW key \in MetadataKeys, NEW values \in Seq(Given), NEW f,
         f = Put(written, key, values), NEW list,
         \A k \in MetadataKeys :
           ValuesIn(list, k) = IF k.name = key.name THEN values ELSE written[k.name]
  PROVE  f \in [KeyNames -> Seq(Given)] /\ Has(list, f)
<1>1. written \in [KeyNames -> Seq(Given)]
  BY DEF MetadataInv
<1>2. \A k \in MetadataKeys : f[k.name] = IF k.name = key.name THEN values ELSE written[k.name]
  BY <1>1, KeyHasName DEF Put
<1>3. f \in [KeyNames -> Seq(Given)]
  BY <1>1 DEF Put
<1> QED BY <1>2, <1>3 DEF Has

LEMMA SetEntryKeeps ==
  ASSUME MetadataInv, NEW key \in MetadataKeys, NEW v \in Given,
         Len(entries) < MaxEntries, entries' = With(entries, key, v), Adds(key, v)
  PROVE  MetadataInv'
<1> DEFINE values == Append(written[key.name], v)
<1>1. entries \in Lists /\ Len(entries) \in Nat /\ Has(entries, written)
  BY DEF MetadataInv, Lists
<1>2. values \in Seq(Given)
  <2>1. written[key.name] \in Seq(Given)
    BY KeyHasName DEF MetadataInv
  <2> QED BY <2>1
<1>3. written' = Put(written, key, values)
  BY DEF Adds, Put
<1>4. entries' \in Lists /\ Len(entries') = Len(entries) + 1
  BY <1>1, ValuesInWith, GivenAreValues
<1>5. \A k \in MetadataKeys :
        ValuesIn(entries', k) = IF k.name = key.name THEN values ELSE written[k.name]
  BY <1>1, HasWith
<1> HIDE DEF values
<1>6. written' \in [KeyNames -> Seq(Given)] /\ Has(entries', written')
  BY <1>2, <1>3, <1>5, WrittenAfter
<1>7. Len(entries') <= MaxEntries + 1
  BY <1>1, <1>4, MessageMetadataAssumption
<1> QED BY <1>4, <1>6, <1>7 DEF MetadataInv, Has

LEMMA DeleteEntriesKeeps ==
  ASSUME MetadataInv, NEW key \in MetadataKeys, DeleteEntries(key)
  PROVE  MetadataInv'
<1>1. entries' = Without(entries, key) /\ written' = Put(written, key, <<>>)
  BY DEF DeleteEntries, Replaces, Put
<1>2. entries \in Lists /\ Len(entries) \in Nat /\ Len(entries) <= MaxEntries + 1
      /\ Has(entries, written)
  BY DEF MetadataInv, Lists
<1>3. entries' \in Lists /\ Len(entries') <= Len(entries)
  BY <1>1, <1>2, ValuesInWithout
<1>4. \A k \in MetadataKeys :
        ValuesIn(entries', k) = IF k.name = key.name THEN <<>> ELSE written[k.name]
  BY <1>1, <1>2, HasWithout
<1>5. written' \in [KeyNames -> Seq(Given)] /\ Has(entries', written')
  BY <1>1, <1>4, NoListsLong, WrittenAfter
<1>6. Len(entries') \in Nat
  BY <1>3 DEF Lists
<1>7. Len(entries') <= MaxEntries + 1
  BY <1>2, <1>3, <1>6, MessageMetadataAssumption
<1> QED BY <1>3, <1>5, <1>7 DEF MetadataInv, Has

LEMMA MapAssignKeeps ==
  ASSUME MetadataInv, NEW key \in MetadataKeys, NEW v \in Given,
         Len(Without(entries, key)) < MaxEntries,
         entries' = MapSet(entries, key, v), Replaces(key, <<v>>)
  PROVE  MetadataInv'
<1> DEFINE rest == Without(entries, key)
<1>1. entries' = With(rest, key, v) /\ written' = Put(written, key, <<v>>)
  BY DEF MapSet, Replaces, Put
<1>2. entries \in Lists /\ Has(entries, written)
  BY DEF MetadataInv
<1>3. rest \in Lists /\ Len(rest) \in Nat /\ Len(rest) < MaxEntries
  <2>1. rest \in Lists
    BY <1>2, ValuesInWithout
  <2>2. Len(rest) \in Nat
    BY <2>1 DEF Lists
  <2> QED BY <2>1, <2>2
<1>4. \A k \in MetadataKeys :
        ValuesIn(rest, k) = IF k.name = key.name THEN <<>> ELSE written[k.name]
  BY <1>2, HasWithout
<1> HIDE DEF rest
<1>5. entries' \in Lists /\ Len(entries') = Len(rest) + 1
  BY <1>1, <1>3, ValuesInWith, GivenAreValues
<1>6. ASSUME NEW k \in MetadataKeys
      PROVE  ValuesIn(entries', k) = IF k.name = key.name THEN <<v>> ELSE written[k.name]
  <2>1. CASE k.name = key.name
    <3>1. ValuesIn(entries', k) = Append(ValuesIn(rest, k), v)
      BY <1>1, <1>3, <2>1, ValuesInWith, GivenAreValues
    <3>2. ValuesIn(rest, k) = <<>>
      BY <1>4, <2>1
    <3> QED BY <2>1, <3>1, <3>2, OneValue
  <2>2. CASE k.name # key.name
    <3>1. ValuesIn(entries', k) = ValuesIn(rest, k)
      BY <1>1, <1>3, <2>2, ValuesInWith, GivenAreValues
    <3> QED BY <1>4, <2>2, <3>1
  <2> QED BY <2>1, <2>2
<1>7. <<v>> \in Seq(Given)
  BY OneValue
<1>8. written' \in [KeyNames -> Seq(Given)] /\ Has(entries', written')
  BY <1>1, <1>6, <1>7, WrittenAfter
<1>9. Len(entries') <= MaxEntries + 1
  BY <1>3, <1>5, MessageMetadataAssumption
<1> QED BY <1>5, <1>8, <1>9 DEF MetadataInv, Has

LEMMA MetadataInvNext ==
  ~ SetsDataschema /\ MetadataInv /\ [MetadataNext]_metadataVars => MetadataInv'
<1> SUFFICES ASSUME ~ SetsDataschema, MetadataInv, [MetadataNext]_metadataVars PROVE MetadataInv'
  OBVIOUS
<1>0. /\ \A a \in DOMAIN Attributes : Attributes[a] \in MetadataKeys
      /\ HttpKey \in MetadataKeys
      /\ MetadataValues \subseteq Given /\ Text("code") \in Given
      /\ \A t \in TextValues : Text(t) \in Given
  BY MessageMetadataAssumption DEF Given, MetadataValues
<1>1. ASSUME NEW key \in MetadataKeys, NEW value \in Given, SetEntry(key, value)
      PROVE  MetadataInv'
  BY <1>1, SetEntryKeeps DEF SetEntry
<1>2. ASSUME NEW key \in MetadataKeys, NEW value \in MetadataValues, MapAssign(key, value)
      PROVE  MetadataInv'
  BY <1>0, <1>2, MapAssignKeeps DEF MapAssign
<1>3. ASSUME NEW key \in MetadataKeys, DeleteEntries(key) \/ MapDelete(key) \/ MapAssignThrows(key)
      PROVE  MetadataInv'
  BY <1>3, DeleteEntriesKeeps DEF MapDelete, MapAssignThrows
<1>4. ASSUME NEW code \in HttpCodes, SetHttpStatusCode(code) PROVE MetadataInv'
  BY <1>0, <1>1, <1>4 DEF SetHttpStatusCode
<1>5. ASSUME NEW a \in DOMAIN Attributes, UnsetAttribute(a) PROVE MetadataInv'
  BY <1>0, <1>5, DeleteEntriesKeeps DEF UnsetAttribute
<1>6. ASSUME NEW a \in DOMAIN Attributes, NEW t \in TextValues, SetAttribute(a, t) PROVE MetadataInv'
  <2>1. SetterKey(a) = Attributes[a]
    BY <1>6 DEF SetAttribute, SetterKey
  <2> QED BY <1>0, <1>6, <2>1, MapAssignKeeps DEF SetAttribute
<1>7. CASE ClearEntries
  <2>1. entries' = <<>> /\ written' = [n \in KeyNames |-> <<>>]
    BY <1>7 DEF ClearEntries
  <2>2. Has(entries, written)'
    BY <2>1, ValuesInNone, KeyHasName DEF Has
  <2> QED BY <2>1, <2>2, NoListsLong, MessageMetadataAssumption DEF MetadataInv
<1>8. CASE UNCHANGED metadataVars
  BY <1>8 DEF metadataVars, MetadataInv, Has
<1> QED BY <1>0, <1>1, <1>2, <1>3, <1>4, <1>5, <1>6, <1>7, <1>8 DEF MetadataNext

(***************************************************************************)
(* Reading what is all truthy.                                             *)
(***************************************************************************)
LEMMA GivenAreTruthy == ASSUME ~ HasEmptyEntries, NEW v \in Given PROVE Truthy(v) /\ Pushed(v) = <<v>>
<1>1. \A t \in TextValues \cup {"code"} : Text(t) # Text(Nothing) /\ Text(t) # Unset
  BY MessageMetadataAssumption DEF Text, Unset, Nothing
<1>2. \A b : Buffer(b) # Text(Nothing) /\ Buffer(b) # Unset
  BY DEF Buffer, Text, Unset
<1>3. Truthy(v)
  BY <1>1, <1>2 DEF Given, MetadataValues, Empties, Truthy
<1> QED BY <1>3 DEF Pushed

(* get pushes them all. *)
PushedAll(values) == FlattenSeq([i \in DOMAIN values |-> Pushed(values[i])])

LEMMA PushesAll ==
  ASSUME ~ HasEmptyEntries
  PROVE  \A values \in Seq(Given) : PushedAll(values) = values
<1> DEFINE P == {values \in Seq(Given) : PushedAll(values) = values}
<1>1. <<>> \in P
  <2>1. [i \in DOMAIN <<>> |-> Pushed(<<>>[i])] = <<>>
    OBVIOUS
  <2> QED BY <2>1, FlattenNone DEF PushedAll
<1>2. ASSUME NEW values \in Seq(Given), NEW v \in Given, values \in P PROVE Append(values, v) \in P
  <2> DEFINE ss == [i \in DOMAIN values |-> Pushed(values[i])]
             tt == [i \in DOMAIN Append(values, v) |-> Pushed(Append(values, v)[i])]
  <2>1. Pushed(v) = <<v>> /\ \A i \in DOMAIN values : Pushed(values[i]) = <<values[i]>>
    BY GivenAreTruthy
  <2>0. Len(values) \in Nat /\ DOMAIN values = 1 .. Len(values)
        /\ DOMAIN Append(values, v) = 1 .. Len(values) + 1 /\ Append(values, v)[Len(values) + 1] = v
        /\ \A i \in 1 .. Len(values) : values[i] \in Given /\ Append(values, v)[i] = values[i]
    OBVIOUS
  <2>2. ss \in Seq(Seq(Given))
    <3>1. ASSUME NEW i \in 1 .. Len(values) PROVE Pushed(values[i]) \in Seq(Given)
      <4>1. Pushed(values[i]) = <<values[i]>> /\ values[i] \in Given
        BY <2>0, <2>1
      <4> QED BY <4>1, OneValue
    <3> QED BY <2>0, <3>1
  <2>3. tt = Append(ss, <<v>>)
    <3>1. ss = [i \in 1 .. Len(values) |-> Pushed(values[i])] /\ Len(ss) = Len(values)
      BY <2>0
    <3>2. tt = [i \in 1 .. Len(values) + 1 |-> IF i = Len(values) + 1 THEN <<v>> ELSE ss[i]]
      <4>1. ASSUME NEW i \in 1 .. Len(values) + 1
            PROVE  Pushed(Append(values, v)[i]) = IF i = Len(values) + 1 THEN <<v>> ELSE ss[i]
        <5>1. CASE i = Len(values) + 1
          BY <2>0, <2>1, <5>1
        <5>2. CASE i # Len(values) + 1
          <6>1. i \in 1 .. Len(values)
            BY <2>0, <5>2
          <6> QED BY <2>0, <3>1, <5>2, <6>1
        <5> QED BY <5>1, <5>2
      <4> QED BY <2>0, <4>1
    <3> HIDE DEF ss, tt
    <3> QED BY <2>0, <2>2, <3>1, <3>2
  <2> HIDE DEF ss, tt
  <2>4. FlattenSeq(tt) = FlattenSeq(ss) \o <<v>>
    <3>1. <<v>> \in Seq(Given)
      BY OneValue
    <3>2. FlattenSeq(Append(ss, <<v>>)) = FlattenSeq(ss) \o <<v>>
      BY <2>2, <3>1, FlattenAppend
    <3> QED BY <2>3, <3>2
  <2>5. FlattenSeq(ss) = values
    BY <1>2 DEF PushedAll, ss
  <2>6. values \o <<v>> = Append(values, v) /\ Append(values, v) \in Seq(Given)
    OBVIOUS
  <2>7. PushedAll(Append(values, v)) = FlattenSeq(tt)
    BY DEF PushedAll, tt
  <2> QED BY <2>4, <2>5, <2>6, <2>7
<1>3. Seq(Given) \subseteq P
  <2> HIDE DEF P
  <2> QED BY <1>1, <1>2, SeqInduction
<1> QED BY <1>3

(* The map finds the first of them. *)
Found(list, key) == {i \in DOMAIN list : Matches(key, list[i]) /\ Truthy(list[i].value)}
Earliest(list, found) == {list[i].value : i \in {j \in found : \A other \in found : j <= other}}

LEMMA FindsFirst ==
  ASSUME ~ HasEmptyEntries, NEW key
  PROVE  \A list \in Lists : ValuesIn(list, key) \in Seq(Given) =>
           /\ Found(list, key) = {} <=> ValuesIn(list, key) = <<>>
           /\ Earliest(list, Found(list, key)) = First(ValuesIn(list, key))
<1> DEFINE P == {list \in Lists : ValuesIn(list, key) \in Seq(Given) =>
                   /\ Found(list, key) = {} <=> ValuesIn(list, key) = <<>>
                   /\ Earliest(list, Found(list, key)) = First(ValuesIn(list, key))}
<1>1. <<>> \in P
  <2>1. Found(<<>>, key) = {} /\ ValuesIn(<<>>, key) = <<>> /\ <<>> \in Lists
    BY ValuesInNone, NoListsLong DEF Found
  <2> QED BY <2>1 DEF Earliest, First
<1>2. ASSUME NEW list \in Lists, NEW e \in Entries, list \in P PROVE Append(list, e) \in P
  <2> DEFINE t == Append(list, e)
             n == Len(list)
             values == ValuesIn(list, key)
             found == Found(list, key)
  <2>1. n \in Nat /\ DOMAIN list = 1 .. n /\ DOMAIN t = 1 .. n + 1 /\ t[n + 1] = e
        /\ (\A i \in 1 .. n : t[i] = list[i]) /\ t \in Lists
    BY DEF Lists
  <2>2. ValuesIn(t, key) = IF Matches(key, e) THEN Append(values, e.value) ELSE values
    <3>1. Selected(t, {key.name}) = IF Matches(key, e) THEN Append(Selected(list, {key.name}), e)
                                    ELSE Selected(list, {key.name})
      BY SelectedAppend DEF Matches
    <3>2. Selected(list, {key.name}) \in Lists
      BY SelectedType
    <3> QED BY <3>1, <3>2, ValuesInIs, ValuesOfAppend
  <2>3. found \subseteq 1 .. n
    BY <2>1 DEF Found
  <2> SUFFICES ASSUME ValuesIn(t, key) \in Seq(Given)
               PROVE  /\ Found(t, key) = {} <=> ValuesIn(t, key) = <<>>
                      /\ Earliest(t, Found(t, key)) = First(ValuesIn(t, key))
    BY <2>1
  <2>4. values \in Seq(EntryValues)
    <3>1. Selected(list, {key.name}) \in Seq(Entries)
      BY SelectedType DEF Lists
    <3> DEFINE some == Selected(list, {key.name})
    <3>2. values = [i \in DOMAIN some |-> some[i].value]
      BY DEF ValuesIn
    <3> HIDE DEF some, values
    <3>0. some \in Seq(Entries)
      BY <3>1 DEF some
    <3>3. Len(some) \in Nat /\ DOMAIN some = 1 .. Len(some) /\ \A i \in 1 .. Len(some) : some[i] \in Entries
      BY <3>0
    <3>4. \A i \in 1 .. Len(some) : some[i].value \in EntryValues
      BY <3>3 DEF Entries
    <3> QED BY <3>2, <3>3, <3>4
  <2> HIDE DEF t, n, values, found
  <2>5. CASE Matches(key, e)
    <3>1. ValuesIn(t, key) = Append(values, e.value)
      BY <2>2, <2>5
    <3>2. values \in Seq(Given) /\ e.value \in Given
      <4>1. Len(values) \in Nat /\ Len(ValuesIn(t, key)) = Len(values) + 1
            /\ values = [i \in 1 .. Len(values) |-> values[i]]
        BY <2>4, <3>1
      <4>2. \A i \in 1 .. Len(values) : ValuesIn(t, key)[i] = values[i]
        BY <2>4, <3>1
      <4>3. ValuesIn(t, key)[Len(values) + 1] = e.value
        BY <2>4, <3>1
      <4>4. \A i \in 1 .. Len(values) + 1 : ValuesIn(t, key)[i] \in Given
        BY <4>1
      <4>5. \A i \in 1 .. Len(values) : values[i] \in Given
        BY <4>1, <4>2, <4>4
      <4> QED BY <4>1, <4>3, <4>4, <4>5
    <3>3. (found = {} <=> values = <<>>) /\ Earliest(list, found) = First(values)
      BY <1>2, <3>2 DEF values, found
    <3>4. Truthy(e.value)
      BY <3>2, GivenAreTruthy
    <3>5. Found(t, key) = found \cup {n + 1}
      BY <2>1, <2>5, <3>4 DEF Found, found
    <3>6. Append(values, e.value) # <<>>
      BY <3>2
    <3>7. CASE found = {}
      <4>1. values = <<>>
        BY <3>3, <3>7
      <4>2. First(Append(values, e.value)) = {e.value}
        BY <4>1 DEF First
      <4>3. Earliest(t, {n + 1}) = {e.value}
        BY <2>1 DEF Earliest
      <4>4. Found(t, key) = {n + 1}
        BY <3>5, <3>7
      <4> QED BY <3>1, <3>6, <4>2, <4>3, <4>4
    <3>8. CASE found # {}
      <4>1. values # <<>>
        BY <3>3, <3>8
      <4>2. First(Append(values, e.value)) = First(values)
        BY <3>2, <3>6, <4>1 DEF First
      <4>3. \A i \in found : i < n + 1 /\ i \in Nat /\ t[i] = list[i]
        BY <2>1, <2>3
      <4>4. {j \in found \cup {n + 1} : \A other \in found \cup {n + 1} : j <= other}
              = {j \in found : \A other \in found : j <= other}
        BY <2>1, <3>8, <4>3
      <4>5. Earliest(t, found \cup {n + 1}) = Earliest(list, found)
        BY <4>3, <4>4 DEF Earliest
      <4> QED BY <3>1, <3>3, <3>5, <3>6, <4>2, <4>5
    <3> QED BY <3>7, <3>8
  <2>6. CASE ~ Matches(key, e)
    <3>1. ValuesIn(t, key) = values
      BY <2>2, <2>6
    <3>2. Found(t, key) = found
      BY <2>1, <2>6 DEF Found, found
    <3>3. (found = {} <=> values = <<>>) /\ Earliest(list, found) = First(values)
      BY <1>2, <3>1 DEF values, found
    <3>4. Earliest(t, found) = Earliest(list, found)
      BY <2>1, <2>3 DEF Earliest
    <3> QED BY <3>1, <3>2, <3>3, <3>4
  <2> QED BY <2>5, <2>6
<1>3. Lists \subseteq P
  <2> HIDE DEF P
  <2> QED BY <1>1, <1>2, SeqInduction DEF Lists
<1> QED BY <1>3

LEMMA MetadataRead == ~ HasEmptyEntries /\ MetadataInv => WrittenIsRead
<1> SUFFICES ASSUME ~ HasEmptyEntries, MetadataInv PROVE WrittenIsRead
  OBVIOUS
<1>1. ASSUME NEW key \in MetadataKeys
      PROVE  /\ Get(key) = written[key.name]
             /\ HasKey(key) = (written[key.name] # <<>>)
             /\ MapGet(key) = First(written[key.name])
  <2>1. ValuesAt(key) = written[key.name] /\ written[key.name] \in Seq(Given) /\ entries \in Lists
    BY KeyHasName DEF MetadataInv, ValuesAt, Has
  <2>2. Get(key) = PushedAll(ValuesAt(key))
    BY DEF Get, PushedAll
  <2>3. HasKey(key) = (ValuesAt(key) # <<>>)
    BY <2>1, HasKeyIs DEF HasKey
  <2>4. MapGet(key) = Earliest(entries, Found(entries, key))
    BY DEF MapGet, Earliest, Found
  <2>5. MapGet(key) = First(ValuesAt(key))
    BY <2>1, <2>4, FindsFirst DEF ValuesAt
  <2> QED BY <2>1, <2>2, <2>3, <2>5, PushesAll
<1>2. ASSUME NEW a \in DOMAIN Attributes
      PROVE  GetString(Attributes[a]) = {v \in First(written[Attributes[a].name]) : v.form = "text"}
  <2>1. Attributes[a] \in MetadataKeys
    BY MessageMetadataAssumption
  <2> QED BY <1>1, <2>1 DEF GetString
<1>3. Get(SourceKey) = written[SourceKey.name]
  BY <1>1, MessageMetadataAssumption
<1>4. (Text("self") \in First(Get(SourceKey))) = ([is |-> "self", service |-> {}] \in Principals)
  <2> DEFINE three == {Text("internet"), Text("self"), Text("backoffice")}
             source == First(Get(SourceKey)) \cap three
  <2>1. \A v \in three : v.is = "self" <=> v = Text("self")
    BY DEF Text
  <2>2. [is |-> "self", service |-> {}] \in Principals <=> \E v \in source : v.is = "self"
    BY DEF Principals
  <2>3. (\E v \in source : v.is = "self") <=> Text("self") \in First(Get(SourceKey))
    BY <2>1
  <2> QED BY <2>2, <2>3
<1> QED BY <1>1, <1>2, <1>3, <1>4 DEF WrittenIsRead

(* WrittenIsRead, when no entry is empty and the cloud event's dataschema  *)
(* is not set: what any view wrote is what all of them read.               *)
THEOREM WrittenTheorem ==
  ASSUME ~ SetsDataschema, ~ HasEmptyEntries PROVE LibrarySpec => []WrittenIsRead
<1>1. LibraryInit => MetadataInv
  BY MetadataInvInit DEF LibraryInit
<1>2. MetadataInv /\ [LibraryNext]_libraryVars => MetadataInv'
  BY LibraryStep, MetadataInvNext
<1>3. MetadataInv => WrittenIsRead
  BY MetadataRead
<1> QED BY <1>1, <1>2, <1>3, PTL DEF LibrarySpec

----------------------------------------------------------------------------
(* Values that are compared and sent.                                      *)

LEMMA PrimitivesAre == Primitives = {"string", "number", "buffer", "boolean", "long"}
BY DEF Primitives, TypeName

LEMMA FieldsOfValue ==
  ASSUME NEW is, NEW type, NEW content
  PROVE  /\ Value(is, type, content).is = is
         /\ Value(is, type, content).type = type
         /\ Value(is, type, content).content = content
BY DEF Value

LEMMA ValueIs ==
  ASSUME NEW v \in AnyValuesSet
  PROVE  /\ v = Value(v.is, v.type, v.content)
         /\ v.is \in Primitives \cup {"message", "object"}
         /\ v.is \in Primitives => v.type = "none"
         /\ v.is = "object" => v.type \in ObjectTypes
         /\ v.content \in Contents
<1>1. ASSUME NEW p \in Primitives, NEW c \in Contents, v = Value(p, "none", c)
      PROVE  v.is = p /\ v.type = "none" /\ v.content = c /\ v = Value(v.is, v.type, v.content)
  BY <1>1, FieldsOfValue
<1>2. ASSUME NEW m, NEW t, NEW c \in Contents, v = Value(m, t, c)
      PROVE  v.is = m /\ v.type = t /\ v.content = c /\ v = Value(v.is, v.type, v.content)
  BY <1>2, FieldsOfValue
<1>3. \/ \E p \in Primitives : \E c \in Contents : v = Value(p, "none", c)
      \/ \E t, c : c \in Contents /\ v = Value("message", t, c)
      \/ \E t, c : t \in ObjectTypes /\ c \in Contents /\ v = Value("object", t, c)
  BY DEF AnyValuesSet
<1> QED BY <1>1, <1>2, <1>3, PrimitivesAre

(* Values of one comparable are one value. *)
LEMMA Comparables ==
  ASSUME NEW v \in AnyValuesSet, NEW w \in AnyValuesSet, ToComparable(v) = ToComparable(w),
         v.is = "message" /\ w.is = "message" => v.type = w.type
  PROVE  v = w
<1> DEFINE Sort(x) == CASE x.is = "message" -> "p" [] x.is = "object" -> "j" [] OTHER -> x.is
<1>1. ToComparable(v).prefix = Sort(v) /\ ToComparable(w).prefix = Sort(w)
  BY DEF ToComparable
<1>2. v.is = w.is
  BY <1>1, ValueIs, PrimitivesAre
<1>3. CASE v.is = "message"
  <2> DEFINE Of(x) == [i \in DOMAIN Encode(x) |-> Encode(x)[i].content]
  <2>1. Of(v) = Of(w)
    BY <1>2, <1>3 DEF ToComparable
  <2>2. ASSUME NEW x PROVE Of(x) = IF x.content = "zero" THEN <<>> ELSE <<x.content>>
    BY DEF Encode
  <2> HIDE DEF Of
  <2>3. v.content = w.content
    BY <2>1, <2>2
  <2> QED BY <1>2, <1>3, <2>3, ValueIs
<1>4. CASE v.is = "object"
  <2>1. JsonText(v) = JsonText(w)
    BY <1>2, <1>4 DEF ToComparable
  <2>2. <<v.type, v.content>> = <<w.type, w.content>>
    BY <1>2, <1>4, <2>1 DEF JsonText
  <2>3. v.type = w.type /\ v.content = w.content
    BY <2>2
  <2> QED BY <1>2, <2>3, ValueIs
<1>5. CASE v.is \in Primitives
  <2>1. <<v.content>> = <<w.content>>
    BY <1>2, <1>5, PrimitivesAre DEF ToComparable
  <2>2. v.type = w.type /\ v.content = w.content
    BY <1>2, <1>5, <2>1, ValueIs
  <2> QED BY <1>2, <2>2, ValueIs
<1> QED BY <1>3, <1>4, <1>5, ValueIs

LEMMA Concatenated ==
  ASSUME NEW S, NEW o \in S, NEW g \in S
  PROVE  <<o>> \o <<>> = <<o>> /\ <<o>> \o <<g>> = <<o, g>>
<1>1. <<o>> \in Seq(S) /\ <<g>> \in Seq(S) /\ <<>> \in Seq(S) /\ <<o, g>> \in Seq(S)
  OBVIOUS
<1>2. <<o>> \o <<>> = <<o>>
  BY <1>1
<1>3. <<o>> \o <<g>> = <<o, g>>
  <2>1. <<o>> \o <<g>> \in Seq(S) /\ Len(<<o>> \o <<g>>) = 2
    BY <1>1
  <2>2. (<<o>> \o <<g>>)[1] = o /\ (<<o>> \o <<g>>)[2] = g
    BY <1>1
  <2>3. Len(<<o, g>>) = 2 /\ <<o, g>>[1] = o /\ <<o, g>>[2] = g
    OBVIOUS
  <2> DEFINE s == <<o>> \o <<g>>
             t == <<o, g>>
  <2> HIDE DEF s, t
  <2>4. s \in Seq(S) /\ t \in Seq(S) /\ Len(s) = 2 /\ Len(t) = 2
    BY <1>1, <2>1, <2>3 DEF s, t
  <2>5. \A i \in 1 .. Len(s) : s[i] = t[i]
    <3>1. s[1] = t[1] /\ s[2] = t[2]
      BY <2>2, <2>3 DEF s, t
    <3> QED BY <2>4, <3>1
  <2>6. s = t
    BY <2>4, <2>5, SeqEqual
  <2> QED BY <2>6 DEF s, t
<1> QED BY <1>2, <1>3

(* What is read of the fields is the first content of number 1. *)
LEMMA ReadsFields ==
  ASSUME NEW extra \in {<<>>, <<OtherField>>}, NEW content
  PROVE  /\ DeserializePrimitive(extra \o <<>>) = "zero"
         /\ DeserializePrimitive(extra \o <<[number |-> 1, content |-> content]>>) = content
<1> DEFINE f == [number |-> 1, content |-> content]
<1>1. OtherField.number = 2 /\ f.number = 1 /\ f.content = content
  BY DEF OtherField
<1>2. PICK g, o : g = f /\ o = OtherField
  OBVIOUS
<1>5. PICK S : g \in S /\ o \in S
  <2>1. g \in {g, o} /\ o \in {g, o}
    OBVIOUS
  <2> QED BY <2>1
<1>3. CASE extra = <<>>
  <2>1. extra \o <<>> = <<>> /\ extra \o <<g>> = <<g>>
    BY <1>3
  <2>2. {i \in DOMAIN <<g>> : <<g>>[i].number = 1} = {1}
    BY <1>1, <1>2
  <2>3. DeserializePrimitive(<<g>>) = content
    BY <1>1, <1>2, <2>2 DEF DeserializePrimitive
  <2>4. DeserializePrimitive(<<>>) = "zero"
    BY DEF DeserializePrimitive
  <2> QED BY <1>2, <2>1, <2>3, <2>4
<1>4. CASE extra = <<OtherField>>
  <2>1. extra \o <<>> = <<o>> /\ extra \o <<g>> = <<o, g>>
    BY <1>2, <1>4, <1>5, Concatenated
  <2>2. {i \in DOMAIN <<o>> : <<o>>[i].number = 1} = {}
    BY <1>1, <1>2
  <2>3. {i \in DOMAIN <<o, g>> : <<o, g>>[i].number = 1} = {2}
    BY <1>1, <1>2
  <2>4. DeserializePrimitive(<<o, g>>) = content
    BY <1>1, <1>2, <2>3 DEF DeserializePrimitive
  <2>5. DeserializePrimitive(<<o>>) = "zero"
    BY <2>2 DEF DeserializePrimitive
  <2> QED BY <1>2, <2>1, <2>4, <2>5
<1> QED BY <1>3, <1>4

(* What a value comes back as, with or without a field more: as it was, or *)
(* as an object if it was written as one.                                  *)
AsObject(v) == Value("object", v.is, v.content)
Kept(v, opts) == v.is \in {"buffer", "long"} => opts.allowPrimitives

LEMMA ComesBack ==
  ASSUME NEW v \in AnyValuesSet, NEW opts, NEW any \in Serialize(v, opts),
         NEW extra \in {<<>>, <<OtherField>>}
  PROVE  Deserialize(WithFields(any, extra)) = IF Kept(v, opts) THEN v ELSE AsObject(v)
<1>1. CASE v.is \in Primitives /\ opts.allowPrimitives
  <2>1. any = [host |-> "type.kalix.io", type |-> TypeName[v.is],
               fields |-> SerializePrimitiveValue(v.content)]
    BY <1>1, PrimitivesAre DEF Serialize, SerializePrimitive
  <2>2. WithFields(any, extra) = [host |-> "type.kalix.io", type |-> TypeName[v.is],
                                  fields |-> extra \o SerializePrimitiveValue(v.content)]
    BY <2>1 DEF WithFields
  <2>3. PrimitiveOf(TypeName[v.is]) = v.is
    BY <1>1, PrimitivesAre DEF PrimitiveOf, TypeName
  <2>4. DeserializePrimitive(extra \o SerializePrimitiveValue(v.content)) = v.content
    BY ReadsFields DEF SerializePrimitiveValue
  <2>5. Deserialize(WithFields(any, extra)) = Value(v.is, "none", v.content)
    BY <2>2, <2>3, <2>4 DEF Deserialize
  <2>6. Kept(v, opts) /\ v = Value(v.is, v.type, v.content) /\ v.type = "none"
    BY <1>1, ValueIs DEF Kept
  <2> QED BY <2>5, <2>6
<1>2. CASE v.is = "message"
  <2>1. any = [host |-> "type.googleapis.com", type |-> v.type, fields |-> Encode(v)]
    BY <1>2, PrimitivesAre DEF Serialize, SerializeMessage, IsObject
  <2>2. WithFields(any, extra) = [host |-> "type.googleapis.com", type |-> v.type,
                                  fields |-> extra \o Encode(v)]
    BY <2>1 DEF WithFields
  <2>3. DeserializePrimitive(extra \o Encode(v)) = v.content
    BY ReadsFields DEF Encode
  <2>4. Deserialize(WithFields(any, extra)) = Value("message", v.type, v.content)
    BY <2>2, <2>3 DEF Deserialize
  <2>5. Kept(v, opts) /\ v = Value(v.is, v.type, v.content)
    BY <1>2, ValueIs DEF Kept
  <2> QED BY <1>2, <2>4, <2>5
<1>3. CASE ~ (v.is \in Primitives /\ opts.allowPrimitives) /\ v.is # "message"
  <2> DEFINE type == IF v.type = "none" THEN "object" ELSE v.type
             fields == <<[number |-> 1, content |-> JsonText(v)]>>
  <2>1. any = [host |-> "json.kalix.io", type |-> type, fields |-> fields] /\ IsObject(v)
    BY <1>3 DEF Serialize, SerializeJson
  <2> HIDE DEF type
  <2>2. WithFields(any, extra) = [host |-> "json.kalix.io", type |-> type, fields |-> extra \o fields]
    BY <2>1 DEF WithFields
  <2>3. DeserializePrimitive(extra \o fields) = JsonText(v)
    BY ReadsFields
  <2> HIDE DEF fields
  <2>4. Deserialize(WithFields(any, extra)) = Value("object", JsonText(v)[1], JsonText(v)[2])
    BY <2>2, <2>3 DEF Deserialize
  <2>5. CASE v.is = "object"
    <3>1. JsonText(v)[1] = v.type /\ JsonText(v)[2] = v.content /\ Kept(v, opts)
      BY <2>5 DEF JsonText, Kept
    <3> QED BY <2>4, <2>5, <3>1, ValueIs
  <2>6. CASE v.is # "object"
    <3>1. v.is \in {"buffer", "long"} /\ ~ Kept(v, opts)
      BY <1>3, <2>1, <2>6, PrimitivesAre DEF IsObject, Kept
    <3>2. JsonText(v)[1] = v.is /\ JsonText(v)[2] = v.content
      BY <2>6 DEF JsonText
    <3> QED BY <2>4, <3>1, <3>2 DEF AsObject
  <2> QED BY <2>5, <2>6
<1> QED BY <1>1, <1>2, <1>3

(* The keys of the replica, and what comes of them at the other: each that *)
(* can be serialized, and the objects that were no objects.                *)
Held == {index[c] : c \in DOMAIN index}
ArrivedIs ==
  /\ \A v \in Held : Comes(v) => v \in Arrived
  /\ \A w \in Arrived : w \in Held \/ \E v \in Held : v.is \in {"buffer", "long"} /\ w = AsObject(v)

ValuesInv ==
  /\ options \in [allowPrimitives : BOOLEAN, fallbackToJson : BOOLEAN, requireJsonType : BOOLEAN]
  /\ keys \subseteq AnyValuesSet
  /\ index = [c \in {ToComparable(v) : v \in keys} |-> index[c]]
  /\ \A c \in DOMAIN index : index[c] \in keys /\ ToComparable(index[c]) = c
  /\ wire # {} => ArrivedIs
  /\ peer # {} => wire # {} /\ peer = {Indexed(Arrived)}

LEMMA ValuesInvInit == ValuesInit => ValuesInv
<1> SUFFICES ASSUME ValuesInit PROVE ValuesInv
  OBVIOUS
<1>1. index = [c \in {} |-> index[c]]
  <2>1. {ToComparable(v) : v \in {}} = {}
    OBVIOUS
  <2>2. DOMAIN Indexed({}) = {}
    BY <2>1 DEF Indexed
  <2>3. Indexed({}) = [c \in DOMAIN Indexed({}) |-> Indexed({})[c]]
    BY DEF Indexed
  <2> QED BY <2>2, <2>3 DEF ValuesInit
<1>2. {ToComparable(v) : v \in keys} = {} /\ DOMAIN index = {}
  BY <1>1 DEF ValuesInit
<1> QED BY <1>1, <1>2 DEF ValuesInit, ValuesInv

LEMMA PutKeeps ==
  ASSUME ValuesInv, NEW value \in AnyValuesSet, PutKey(value)
  PROVE  ValuesInv'
<1> DEFINE c == ToComparable(value)
           old == {ToComparable(v) : v \in keys}
<1>1. /\ index' = IF c \in DOMAIN index THEN index
                  ELSE [d \in DOMAIN index \cup {c} |-> IF d = c THEN value ELSE index[d]]
      /\ keys' = keys \cup {value} /\ UNCHANGED <<options, wire, peer>> /\ wire = {} /\ peer = {}
  BY DEF PutKey, ValuesInv
<1>2. keys' \subseteq AnyValuesSet
  BY <1>1 DEF ValuesInv
<1>3. DOMAIN index = old
  BY DEF ValuesInv
<1>4. {ToComparable(v) : v \in keys'} = old \cup {c}
  BY <1>1
<1>5. /\ index' = [d \in {ToComparable(v) : v \in keys'} |-> index'[d]]
      /\ \A d \in DOMAIN index' : index'[d] \in keys' /\ ToComparable(index'[d]) = d
  <2>1. CASE c \in old
    <3>1. index' = index /\ old \cup {c} = old
      BY <1>1, <1>3, <2>1
    <3> HIDE DEF old
    <3> QED BY <1>1, <1>3, <1>4, <3>1 DEF ValuesInv, old
  <2>2. CASE c \notin old
    <3>1. index' = [d \in old \cup {c} |-> IF d = c THEN value ELSE index[d]]
      BY <1>1, <1>3, <2>2
    <3>2. \A d \in old : index[d] \in keys /\ ToComparable(index[d]) = d
      BY <1>3 DEF ValuesInv
    <3>3. ASSUME NEW d \in old \cup {c} PROVE index'[d] \in keys' /\ ToComparable(index'[d]) = d
      <4>1. CASE d = c
        BY <1>1, <3>1, <4>1
      <4>2. CASE d # c
        <5>1. d \in old /\ index'[d] = index[d]
          BY <3>1, <4>2
        <5> QED BY <1>1, <3>2, <5>1
      <4> QED BY <4>1, <4>2
    <3>4. index' = [d \in old \cup {c} |-> index'[d]]
      BY <3>1
    <3> QED BY <1>4, <3>3, <3>4
  <2> QED BY <2>1, <2>2
<1> QED BY <1>1, <1>2, <1>5 DEF ValuesInv

LEMMA SendKeeps ==
  ASSUME ValuesInv, NEW extra \in {<<>>, <<OtherField>>}, SendKeys(extra)
  PROVE  ValuesInv'
<1>1. UNCHANGED <<options, index, keys, peer>> /\ wire = {} /\ peer = {}
  BY DEF SendKeys, ValuesInv
<1> DEFINE anys == UNION {Serialize(index[c], options) : c \in DOMAIN index}
<1>2. UNION wire' = {WithFields(any, extra) : any \in anys}
  BY DEF SendKeys, WithFields
<1>3. \A any : any \in anys <=> \E v \in Held : any \in Serialize(v, options)
  BY DEF Held
<1> HIDE DEF anys
<1>4. Held \subseteq AnyValuesSet
  BY DEF Held, ValuesInv
<1>5. Arrived' = {Deserialize(WithFields(any, extra)) : any \in anys}
  BY <1>2 DEF Arrived
<1>6. ASSUME NEW v \in Held, Comes(v) PROVE v \in Arrived'
  <2>1. PICK any \in Serialize(v, options) : TRUE
    BY <1>6 DEF Comes
  <2>2. Deserialize(WithFields(any, extra)) = v
    BY <1>4, <1>6, <2>1, ComesBack DEF Comes, Kept
  <2> QED BY <1>3, <1>5, <2>1, <2>2
<1>7. ASSUME NEW w \in Arrived'
      PROVE  w \in Held \/ \E v \in Held : v.is \in {"buffer", "long"} /\ w = AsObject(v)
  <2>1. PICK any \in anys : w = Deserialize(WithFields(any, extra))
    BY <1>5
  <2>2. PICK v \in Held : any \in Serialize(v, options)
    BY <1>3
  <2>3. w = IF Kept(v, options) THEN v ELSE AsObject(v)
    BY <1>4, <2>1, <2>2, ComesBack
  <2> QED BY <2>3 DEF Kept
<1>8. Held' = Held /\ \A v : Comes(v)' <=> Comes(v)
  BY <1>1 DEF Held, Comes
<1>9. ArrivedIs'
  BY <1>6, <1>7, <1>8 DEF ArrivedIs
<1> QED BY <1>1, <1>9 DEF ValuesInv

LEMMA ValuesInvNext == ValuesInv /\ [ValuesNext]_valuesVars => ValuesInv'
<1> SUFFICES ASSUME ValuesInv, [ValuesNext]_valuesVars PROVE ValuesInv'
  OBVIOUS
<1>0. ASSUME UNCHANGED <<options, index, keys, wire>>
      PROVE  Arrived' = Arrived /\ (ArrivedIs' <=> ArrivedIs)
  <2>1. Arrived' = Arrived
    BY <1>0 DEF Arrived
  <2>2. Held' = Held
    BY <1>0 DEF Held
  <2>3. \A v : Comes(v)' <=> Comes(v)
    BY <1>0 DEF Comes
  <2> QED BY <2>1, <2>2, <2>3 DEF ArrivedIs
<1>1. CASE ReceiveKeys
  <2>1. wire # {} /\ peer' = {Indexed(Arrived)} /\ UNCHANGED <<options, index, keys, wire>>
    BY <1>1 DEF ReceiveKeys
  <2>2. ArrivedIs' /\ peer' = {Indexed(Arrived)'}
    BY <1>0, <2>1 DEF ValuesInv, Indexed
  <2> QED BY <2>1, <2>2 DEF ValuesInv
<1>2. CASE UNCHANGED valuesVars
  <2>1. UNCHANGED <<options, index, keys, wire, peer>>
    BY <1>2 DEF valuesVars
  <2>2. Indexed(Arrived)' = Indexed(Arrived) /\ (ArrivedIs' <=> ArrivedIs)
    BY <1>0, <2>1 DEF Indexed
  <2> QED BY <2>1, <2>2 DEF ValuesInv
<1> QED BY <1>1, <1>2, PutKeeps, SendKeeps DEF ValuesNext

(* A key is told by its comparable from what came of the others.           *)
LEMMA FoundAgain ==
  ASSUME ValuesInv, peer # {}, NEW c \in DOMAIN index, Comes(index[c])
  PROVE  c \in DOMAIN Indexed(Arrived) /\ Indexed(Arrived)[c] = index[c]
<1> DEFINE v == index[c]
<1>1. ArrivedIs
  BY DEF ValuesInv
<1>2. v \in Held /\ v \in AnyValuesSet /\ ToComparable(v) = c /\ v \in Arrived
  BY <1>1 DEF Held, ArrivedIs, ValuesInv
<1> HIDE DEF v
<1>3. ASSUME NEW w \in Arrived, ToComparable(w) = c PROVE w = v
  <2>1. CASE w \in Held
    <3>1. PICK d \in DOMAIN index : w = index[d]
      BY <2>1 DEF Held
    <3>2. d = c
      BY <1>3, <3>1 DEF ValuesInv
    <3> QED BY <3>1, <3>2 DEF v
  <2>2. ASSUME NEW u \in Held, u.is \in {"buffer", "long"}, w = AsObject(u) PROVE FALSE
    <3>1. w.is = "object" /\ w.type = u.is
      BY <2>2, FieldsOfValue DEF AsObject
    <3>2. ToComparable(w) = [prefix |-> "j", of |-> <<w.type, w.content>>]
      BY <3>1 DEF ToComparable, JsonText
    <3>3. ToComparable(v).prefix = "j" /\ ToComparable(v).of = <<w.type, w.content>>
      BY <1>2, <1>3, <3>2
    <3>4. v.is = "object"
      BY <1>2, <3>3, ValueIs, PrimitivesAre DEF ToComparable
    <3>5. ToComparable(v).of = <<v.type, v.content>>
      BY <3>4 DEF ToComparable, JsonText
    <3>6. v.type = w.type
      BY <3>3, <3>5
    <3>7. v.type \in ObjectTypes
      BY <1>2, <3>4, ValueIs
    <3> QED BY <2>2, <3>1, <3>6, <3>7, AnyValuesAssumption
  <2> QED BY <1>1, <2>1, <2>2 DEF ArrivedIs
<1>4. c \in DOMAIN Indexed(Arrived)
  BY <1>2 DEF Indexed
<1>5. Indexed(Arrived)[c] = CHOOSE w \in Arrived : ToComparable(w) = c
  BY <1>4 DEF Indexed
<1>6. (CHOOSE w \in Arrived : ToComparable(w) = c) = v
  BY <1>2, <1>3
<1> QED BY <1>4, <1>5, <1>6 DEF v

LEMMA ValuesRoundTrip == ValuesInv => RoundTrip
<1> SUFFICES ASSUME ValuesInv PROVE RoundTrip
  OBVIOUS
<1>1. ASSUME NEW key \in keys PROVE \E c \in DOMAIN index : index[c] = key \/ TakenFor(key, index[c])
  <2> DEFINE c == ToComparable(key)
  <2>1. c \in DOMAIN index
    BY DEF ValuesInv
  <2>2. index[c] \in AnyValuesSet /\ key \in AnyValuesSet /\ ToComparable(index[c]) = ToComparable(key)
    BY <2>1 DEF ValuesInv
  <2>3. index[c] = key \/ TakenFor(key, index[c])
    BY <2>2, Comparables DEF TakenFor
  <2> QED BY <2>1, <2>3
<1>2. ASSUME NEW p \in peer, NEW c \in DOMAIN index, Comes(index[c])
      PROVE  c \in DOMAIN p /\ p[c] = index[c]
  <2>1. p = Indexed(Arrived) /\ peer # {}
    BY DEF ValuesInv
  <2> QED BY <1>2, <2>1, FoundAgain
<1> QED BY <1>1, <1>2 DEF RoundTrip

(* RoundTrip, for all values, messages of several types among them, and    *)
(* all options of serialize.                                               *)
THEOREM RoundTripTheorem == LibrarySpec => []RoundTrip
<1>1. LibraryInit => ValuesInv
  BY ValuesInvInit DEF LibraryInit
<1>2. ValuesInv /\ [LibraryNext]_libraryVars => ValuesInv'
  BY LibraryStep, ValuesInvNext
<1>3. ValuesInv => RoundTrip
  BY ValuesRoundTrip
<1> QED BY <1>1, <1>2, <1>3, PTL DEF LibrarySpec

----------------------------------------------------------------------------
(* Types.                                                                  *)

(* Of the services.                                                        *)
ServicesTypes ==
  /\ \A k \in Hosts : serving[k] \in {"new", "up", "down"} /\ added[k] \subseteq Components
  /\ serving = [k \in Hosts |-> serving[k]] /\ added = [k \in Hosts |-> added[k]]
  /\ \A c \in Components : clientsOf[c] = {} \/ \E p \in Proxies : clientsOf[c] = {p}
  /\ IsFiniteSet(created) /\ Cardinality(created) <= MaxClients /\ requests \in 0 .. MaxRequests

LEMMA ServicesTypesInit == ServicesInit => ServicesTypes
BY FS_EmptySet, ComponentServicesAssumption DEF ServicesInit, ServicesTypes

LEMMA ServicesTypesNext == ServicesTypes /\ [ServicesNext]_servicesVars => ServicesTypes'
<1> SUFFICES ASSUME ServicesTypes, [ServicesNext]_servicesVars PROVE ServicesTypes'
  OBVIOUS
<1>1. ASSUME NEW k \in Hosts, NEW c \in Components, AddComponent(k, c) PROVE ServicesTypes'
  BY <1>1 DEF AddComponent, clientVars, ServicesTypes
<1>2. ASSUME NEW k \in Hosts, StartService(k) \/ StopService(k) PROVE ServicesTypes'
  BY <1>2 DEF StartService, StopService, clientVars, ServicesTypes
<1>3. ASSUME NEW k \in Hosts, NEW p \in Proxies, DiscoverComponents(k, p) PROVE ServicesTypes'
  <2>1. \A c \in Components : clientsOf'[c] = clientsOf[c] \/ clientsOf'[c] = {p}
    BY <1>3 DEF DiscoverComponents, PreStart
  <2>2. UNCHANGED <<added, serving, created, requests>>
    BY <1>3 DEF DiscoverComponents, clientVars
  <2> QED BY <2>1, <2>2 DEF ServicesTypes
<1>4. ASSUME NEW c \in Components, NEW address \in Addresses, CreateClient(c, address) PROVE ServicesTypes'
  <2>1. PICK new : created' = created \cup {new}
    BY <1>4 DEF CreateClient
  <2>2. /\ IsFiniteSet(created) /\ Cardinality(created) < MaxClients
        /\ UNCHANGED <<added, serving, clientsOf, requests>>
    BY <1>4 DEF CreateClient, ServicesTypes
  <2>3. /\ IsFiniteSet(created') /\ Cardinality(created) \in Nat
        /\ Cardinality(created') \in {Cardinality(created), Cardinality(created) + 1}
    BY <2>1, <2>2, FS_AddElement, FS_CardinalityType
  <2>4. Cardinality(created') <= MaxClients
    BY <2>2, <2>3, ComponentServicesAssumption
  <2> QED BY <2>2, <2>3, <2>4 DEF ServicesTypes
<1>5. ASSUME NEW client \in created, NEW m, NEW kind, CallWithout(client, kind) \/ CallWith(client, m) PROVE ServicesTypes'
  <2>1. requests' = requests + 1 /\ requests < MaxRequests /\ UNCHANGED exceptCalls
    BY <1>5 DEF CallWithout, CallWith, UsesClient
  <2> QED BY <2>1, ComponentServicesAssumption DEF exceptCalls, ServicesTypes
<1>6. CASE UNCHANGED servicesVars
  BY <1>6 DEF servicesVars, ServicesTypes
<1> QED BY <1>1, <1>2, <1>3, <1>4, <1>5, <1>6 DEF ServicesNext

LEMMA ServicesTyped == ServicesTypes => ServicesTypeOK
<1> SUFFICES ASSUME ServicesTypes PROVE ServicesTypeOK
  OBVIOUS
<1>1. \A p : Cardinality({p}) = 1
  BY FS_Singleton
<1>2. Cardinality({}) = 0
  BY FS_EmptySet
<1>3. ASSUME NEW c \in Components PROVE clientsOf[c] \subseteq Proxies /\ Cardinality(clientsOf[c]) <= 1
  <2>1. clientsOf[c] = {} \/ \E p \in Proxies : clientsOf[c] = {p}
    BY DEF ServicesTypes
  <2>2. CASE clientsOf[c] = {}
    BY <1>2, <2>2
  <2>3. ASSUME NEW p \in Proxies, clientsOf[c] = {p} PROVE Cardinality(clientsOf[c]) = 1
    BY <1>1, <2>3
  <2> QED BY <2>1, <2>2, <2>3
<1> QED BY <1>3 DEF ServicesTypes, ServicesTypeOK

(* Of the metadata, whatever is set.                                       *)
MetadataTypes == entries \in Lists /\ Len(entries) <= MaxEntries + 1

LEMMA MetadataTypesInit == MetadataInit => MetadataTypes
<1> SUFFICES ASSUME MetadataInit PROVE MetadataTypes
  OBVIOUS
<1>0. MaxEntries \in Nat
  BY MessageMetadataAssumption
<1>1. \/ entries = <<>>
      \/ \E key \in MetadataKeys, v \in EntryValues : entries = With(<<>>, key, v)
  BY DEF MetadataInit, FromProtocol, EntryValues, Given
<1>2. ASSUME NEW key \in MetadataKeys, NEW v \in EntryValues, entries = With(<<>>, key, v)
      PROVE  entries \in Lists /\ Len(entries) = 1
  BY <1>2, OneEntry
<1> QED BY <1>0, <1>1, <1>2, NoListsLong DEF MetadataTypes

LEMMA MetadataTypesNext == MetadataTypes /\ [MetadataNext]_metadataVars => MetadataTypes'
<1> SUFFICES ASSUME MetadataTypes, [MetadataNext]_metadataVars PROVE MetadataTypes'
  OBVIOUS
<1>0. /\ \A a \in DOMAIN Attributes : Attributes[a] \in MetadataKeys
      /\ HttpKey \in MetadataKeys /\ MaxEntries \in Nat /\ "subject" \in DOMAIN Attributes
      /\ MetadataValues \subseteq EntryValues /\ Text("code") \in EntryValues
      /\ \A t \in TextValues : Text(t) \in EntryValues
      /\ entries \in Lists /\ Len(entries) \in Nat /\ Len(entries) <= MaxEntries + 1
  <2>1. /\ \A a \in DOMAIN Attributes : Attributes[a] \in MetadataKeys
        /\ HttpKey \in MetadataKeys /\ MaxEntries \in Nat /\ "subject" \in DOMAIN Attributes
    BY MessageMetadataAssumption
  <2>2. /\ MetadataValues \subseteq EntryValues /\ Text("code") \in EntryValues
        /\ \A t \in TextValues : Text(t) \in EntryValues
    BY DEF EntryValues, Given, MetadataValues
  <2>3. entries \in Lists /\ Len(entries) \in Nat /\ Len(entries) <= MaxEntries + 1
    BY DEF MetadataTypes, Lists
  <2> QED BY <2>1, <2>2, <2>3
<1>1. ASSUME NEW key \in MetadataKeys, NEW value \in EntryValues, SetEntry(key, value)
      PROVE  MetadataTypes'
  <2>1. entries' = With(entries, key, value) /\ Len(entries) < MaxEntries
    BY <1>1 DEF SetEntry
  <2>2. entries' \in Lists /\ Len(entries') = Len(entries) + 1
    BY <1>0, <2>1, ValuesInWith
  <2> QED BY <1>0, <2>1, <2>2 DEF MetadataTypes
<1>2. ASSUME NEW key \in MetadataKeys, DeleteEntries(key)
      PROVE  MetadataTypes'
  <2>1. entries' \in Lists /\ Len(entries') <= Len(entries)
    BY <1>0, <1>2, ValuesInWithout DEF DeleteEntries
  <2>2. Len(entries') \in Nat
    BY <2>1 DEF Lists
  <2> QED BY <1>0, <2>1, <2>2 DEF MetadataTypes
<1>3. ASSUME NEW key \in MetadataKeys, NEW value \in EntryValues,
             Len(Without(entries, key)) < MaxEntries, entries' = MapSet(entries, key, value)
      PROVE  MetadataTypes'
  <2> DEFINE rest == Without(entries, key)
  <2>1. rest \in Lists /\ entries' = With(rest, key, value) /\ Len(rest) < MaxEntries
    BY <1>0, <1>3, ValuesInWithout DEF MapSet
  <2>2. Len(rest) \in Nat
    BY <2>1 DEF Lists
  <2> HIDE DEF rest
  <2>3. entries' \in Lists /\ Len(entries') = Len(rest) + 1
    BY <2>1, ValuesInWith
  <2> QED BY <1>0, <2>1, <2>2, <2>3 DEF MetadataTypes
<1>4. ASSUME NEW a \in DOMAIN Attributes, NEW t \in TextValues, SetAttribute(a, t) PROVE MetadataTypes'
  <2>1. SetterKey(a) \in MetadataKeys /\ Text(t) \in EntryValues
    BY <1>0 DEF SetterKey
  <2> QED BY <1>3, <1>4, <2>1 DEF SetAttribute
<1>5. ASSUME NEW a \in DOMAIN Attributes, UnsetAttribute(a) PROVE MetadataTypes'
  BY <1>0, <1>2, <1>5 DEF UnsetAttribute
<1>6. ASSUME NEW key \in MetadataKeys, NEW value \in MetadataValues,
             SetEntry(key, value) \/ MapAssign(key, value)
      PROVE  MetadataTypes'
  BY <1>0, <1>1, <1>3, <1>6 DEF MapAssign
<1>7. ASSUME NEW key \in MetadataKeys, DeleteEntries(key) \/ MapDelete(key) \/ MapAssignThrows(key)
      PROVE  MetadataTypes'
  BY <1>2, <1>7 DEF MapDelete, MapAssignThrows
<1>8. ASSUME NEW code \in HttpCodes, SetHttpStatusCode(code) PROVE MetadataTypes'
  BY <1>0, <1>1, <1>8 DEF SetHttpStatusCode
<1>9. CASE ClearEntries
  BY <1>0, <1>9, NoListsLong DEF ClearEntries, MetadataTypes
<1>10. CASE UNCHANGED metadataVars
  BY <1>10 DEF metadataVars, MetadataTypes
<1> QED BY <1>4, <1>5, <1>6, <1>7, <1>8, <1>9, <1>10 DEF MetadataNext

LEMMA MetadataTyped == MetadataTypes => MetadataTypeOK
<1>1. \A v \in EntryValues : v.form \in {"text", "buffer", "unset"}
  <2>1. (\A t : Text(t).form = "text") /\ (\A b : Buffer(b).form = "buffer") /\ Unset.form = "unset"
    BY DEF Text, Buffer, Unset
  <2>2. \A v \in EntryValues : (\E t : v = Text(t)) \/ (\E b : v = Buffer(b)) \/ v = Unset
    BY DEF EntryValues, Given, MetadataValues, Empties
  <2> QED BY <2>1, <2>2
<1>2. \A e \in Entries : e.key \in MetadataKeys /\ e.value \in EntryValues
  BY DEF Entries
<1>3. \A l \in Lists : \A i \in DOMAIN l : l[i] \in Entries
  BY DEF Lists
<1> QED BY <1>1, <1>2, <1>3 DEF MetadataTypes, MetadataTypeOK

LEMMA ValuesTyped == ValuesInv => ValuesTypeOK
<1> SUFFICES ASSUME ValuesInv PROVE ValuesTypeOK
  OBVIOUS
<1>1. \A v \in AnyValuesSet : v.content \in Contents
  BY ValueIs
<1>2. ASSUME NEW v \in Arrived, peer # {} PROVE v.content \in Contents
  <2>1. ArrivedIs
    BY <1>2 DEF ValuesInv
  <2>2. ASSUME NEW w \in Held, v = AsObject(w) PROVE v.content = w.content
    BY <2>2, FieldsOfValue DEF AsObject
  <2>3. Held \subseteq AnyValuesSet
    BY DEF Held, ValuesInv
  <2> QED BY <1>1, <2>1, <2>2, <2>3 DEF ArrivedIs
<1>3. ASSUME NEW p \in peer, NEW c \in DOMAIN p PROVE p[c].content \in Contents
  <2>1. p = Indexed(Arrived)
    BY DEF ValuesInv
  <2>2. PICK v \in Arrived : ToComparable(v) = c
    BY <2>1 DEF Indexed
  <2>3. p[c] = CHOOSE w \in Arrived : ToComparable(w) = c
    BY <2>1 DEF Indexed
  <2>4. (CHOOSE w \in Arrived : ToComparable(w) = c) \in Arrived
    BY <2>2
  <2> QED BY <1>2, <2>3, <2>4
<1> QED BY <1>3 DEF ValuesInv, ValuesTypeOK

(* Of the views, whatever their handlers do.                               *)
LinesOf(lines) ==
  \/ lines = <<>> \/ lines = <<End>> \/ lines = <<Upsert({}), End>>
  \/ \E row \in Seq(1 .. MaxEvents) : lines = <<Upsert({row}), End>>

ViewTypes ==
  /\ rows \in [Subjects -> Seq(1 .. MaxEvents)] /\ offsets \in [Subjects -> 0 .. MaxEvents]
  /\ failures \in [Subjects -> 0 .. MaxFailures] /\ viewCalls = [s \in Subjects |-> viewCalls[s]]
  /\ \A s \in Subjects : \A call \in viewCalls[s] :
        /\ call = [event |-> call.event, existing |-> call.existing, result |-> call.result, written |-> call.written]
        /\ call.event \in 1 .. MaxEvents /\ call.existing \in Seq(1 .. MaxEvents) /\ LinesOf(call.written)

LEMMA ViewTypesInit == ViewInit => ViewTypes
<1> SUFFICES ASSUME ViewInit PROVE ViewTypes
  OBVIOUS
<1>1. <<>> \in Seq(1 .. MaxEvents)
  OBVIOUS
<1> QED BY <1>1, ViewUpdateAssumption DEF ViewInit, ViewTypes

LEMMA UpsertsTyped ==
  ASSUME NEW call, NEW result \in HandlerResults, call.event \in 1 .. MaxEvents,
         call.existing \in Seq(1 .. MaxEvents), ~ Fails(result)
  PROVE  LinesOf(Upserts(call, result))
<1>1. result \in {"row", "undefined", "promise"}
  BY ViewUpdateAssumption DEF Fails
<1>2. CASE result = "row"
  <2>1. Append(call.existing, call.event) \in Seq(1 .. MaxEvents)
    OBVIOUS
  <2>2. Upserts(call, result) = <<Upsert({Append(call.existing, call.event)}), End>>
    BY <1>2 DEF Upserts
  <2> QED BY <2>1, <2>2 DEF LinesOf
<1>3. CASE result = "undefined"
  BY <1>3 DEF Upserts, LinesOf
<1>4. CASE result = "promise"
  <2>1. EmptyRow \in Seq(1 .. MaxEvents)
    BY DEF EmptyRow
  <2>2. Upserts(call, result) = <<Upsert({EmptyRow}), End>>
    BY <1>4 DEF Upserts
  <2> QED BY <2>1, <2>2 DEF LinesOf
<1> QED BY <1>1, <1>2, <1>3, <1>4

LEMMA AnsweredTyped ==
  ASSUME ViewTypes, NEW s \in Subjects, NEW result \in HandlerResults \cup {"refused"}, Answered(s, result)
  PROVE  ViewTypes'
<1>1. PICK call \in viewCalls[s] :
        /\ viewCalls' = [viewCalls EXCEPT ![s] =
              {AnsweredWith(call, result, IF Fails(result) THEN FailAndEnd(call, result) ELSE Upserts(call, result))}]
        /\ UNCHANGED <<rows, offsets, failures, decisions>>
  BY DEF Answered, AnsweredWith
<1> DEFINE lines == IF Fails(result) THEN FailAndEnd(call, result) ELSE Upserts(call, result)
<1>2. /\ call = [event |-> call.event, existing |-> call.existing, result |-> call.result, written |-> call.written]
      /\ call.event \in 1 .. MaxEvents /\ call.existing \in Seq(1 .. MaxEvents)
  BY DEF ViewTypes
<1>3. LinesOf(lines)
  <2>1. CASE Fails(result)
    BY <2>1 DEF FailAndEnd, LinesOf
  <2>2. CASE ~ Fails(result)
    BY <1>2, <2>2, UpsertsTyped DEF Fails
  <2> QED BY <2>1, <2>2
<1> HIDE DEF lines
<1>4. AnsweredWith(call, result, lines)
         = [event |-> call.event, existing |-> call.existing, result |-> result, written |-> lines]
  BY <1>2, AnsweredCall
<1>5. viewCalls' = [viewCalls EXCEPT ![s] =
         {[event |-> call.event, existing |-> call.existing, result |-> result, written |-> lines]}]
  BY <1>1, <1>4 DEF lines
<1>6. viewCalls' = [t \in Subjects |-> viewCalls'[t]]
  BY <1>5 DEF ViewTypes
<1>7. \A t \in Subjects : viewCalls'[t] = IF t = s
         THEN {[event |-> call.event, existing |-> call.existing, result |-> result, written |-> lines]}
         ELSE viewCalls[t]
  BY <1>5 DEF ViewTypes
<1> DEFINE answered == [event |-> call.event, existing |-> call.existing, result |-> result, written |-> lines]
<1>8. /\ answered = [event |-> answered.event, existing |-> answered.existing, result |-> answered.result,
                      written |-> answered.written]
      /\ answered.event \in 1 .. MaxEvents /\ answered.existing \in Seq(1 .. MaxEvents) /\ LinesOf(answered.written)
  BY <1>2, <1>3
<1>9. \A t \in Subjects : viewCalls'[t] = IF t = s THEN {answered} ELSE viewCalls[t]
  BY <1>7
<1> HIDE DEF answered
<1>10. ASSUME NEW t \in Subjects, NEW c \in viewCalls'[t]
       PROVE  /\ c = [event |-> c.event, existing |-> c.existing, result |-> c.result, written |-> c.written]
              /\ c.event \in 1 .. MaxEvents /\ c.existing \in Seq(1 .. MaxEvents) /\ LinesOf(c.written)
  <2>1. CASE t = s
    <3>1. c = answered
      BY <1>9, <2>1
    <3> QED BY <1>8, <3>1
  <2>2. CASE t # s
    BY <1>9, <2>2 DEF ViewTypes
  <2> QED BY <2>1, <2>2
<1>11. UNCHANGED <<rows, offsets, failures>>
  BY <1>1
<1>12. \A t \in Subjects : \A c \in viewCalls'[t] :
        /\ c = [event |-> c.event, existing |-> c.existing, result |-> c.result, written |-> c.written]
        /\ c.event \in 1 .. MaxEvents /\ c.existing \in Seq(1 .. MaxEvents) /\ LinesOf(c.written)
  BY <1>10
<1> QED BY <1>6, <1>11, <1>12 DEF ViewTypes

LEMMA ViewTypesNext == ViewTypes /\ [ViewNext]_viewVars => ViewTypes'
<1> SUFFICES ASSUME ViewTypes, [ViewNext]_viewVars PROVE ViewTypes'
  OBVIOUS
<1>0. MaxEvents \in Nat /\ MaxFailures \in Nat
  BY ViewUpdateAssumption
<1>1. ASSUME NEW s \in Subjects, ReceiveEvent(s) PROVE ViewTypes'
  <2> DEFINE call == [event |-> offsets[s] + 1, existing |-> rows[s], result |-> "none", written |-> <<>>]
  <2>1. /\ offsets[s] < MaxEvents /\ viewCalls' = [viewCalls EXCEPT ![s] = {call}]
        /\ UNCHANGED <<rows, offsets, failures>>
    BY <1>1 DEF ReceiveEvent
  <2>2. offsets[s] \in 0 .. MaxEvents /\ rows[s] \in Seq(1 .. MaxEvents)
    BY DEF ViewTypes
  <2>3. /\ call = [event |-> call.event, existing |-> call.existing, result |-> call.result, written |-> call.written]
        /\ call.event \in 1 .. MaxEvents /\ call.existing \in Seq(1 .. MaxEvents) /\ LinesOf(call.written)
    BY <1>0, <2>1, <2>2 DEF LinesOf
  <2> HIDE DEF call
  <2>4. viewCalls' = [t \in Subjects |-> viewCalls'[t]]
        /\ \A t \in Subjects : viewCalls'[t] = IF t = s THEN {call} ELSE viewCalls[t]
    BY <2>1 DEF ViewTypes
  <2> QED BY <2>1, <2>3, <2>4 DEF ViewTypes
<1>2. ASSUME NEW s \in Subjects, ReadUpsert(s) PROVE ViewTypes'
  <2>1. PICK call \in viewCalls[s] :
          /\ call.written # <<>> /\ Head(call.written).kind = "upsert"
          /\ \A row \in Head(call.written).row : rows' = [rows EXCEPT ![s] = row]
          /\ Head(call.written).row = {} => UNCHANGED rows
          /\ offsets' = [offsets EXCEPT ![s] = call.event]
          /\ viewCalls' = [viewCalls EXCEPT ![s] = {}]
          /\ UNCHANGED failures
    BY <1>2 DEF ReadUpsert
  <2>2. call.event \in 1 .. MaxEvents /\ LinesOf(call.written)
    BY DEF ViewTypes
  <2>3. rows' = rows \/ \E row \in Seq(1 .. MaxEvents) : rows' = [rows EXCEPT ![s] = row]
    <3>1. call.written # <<End>>
      BY <2>1 DEF End
    <3>2. CASE call.written = <<Upsert({}), End>>
      <4>1. Head(call.written).row = {}
        BY <3>2 DEF Upsert
      <4> QED BY <2>1, <4>1
    <3>3. ASSUME NEW row \in Seq(1 .. MaxEvents), call.written = <<Upsert({row}), End>>
          PROVE  rows' = [rows EXCEPT ![s] = row]
      <4>1. Head(call.written).row = {row}
        BY <3>3 DEF Upsert
      <4> QED BY <2>1, <4>1
    <3> QED BY <2>1, <2>2, <3>1, <3>2, <3>3 DEF LinesOf
  <2>4. rows' \in [Subjects -> Seq(1 .. MaxEvents)]
    BY <2>3 DEF ViewTypes
  <2>5. offsets' \in [Subjects -> 0 .. MaxEvents]
    BY <1>0, <2>1, <2>2 DEF ViewTypes
  <2>6. viewCalls' = [t \in Subjects |-> viewCalls'[t]]
        /\ \A t \in Subjects : viewCalls'[t] = IF t = s THEN {} ELSE viewCalls[t]
    BY <2>1 DEF ViewTypes
  <2> QED BY <2>1, <2>4, <2>5, <2>6 DEF ViewTypes
<1>3. ASSUME NEW s \in Subjects, Retries(s) PROVE ViewTypes'
  <2>1. failures[s] < MaxFailures /\ viewCalls' = [viewCalls EXCEPT ![s] = {}]
        /\ failures' = [failures EXCEPT ![s] = @ + 1] /\ UNCHANGED <<rows, offsets>>
    BY <1>3 DEF Retries
  <2>2. failures' \in [Subjects -> 0 .. MaxFailures]
    BY <1>0, <2>1 DEF ViewTypes
  <2>3. viewCalls' = [t \in Subjects |-> viewCalls'[t]]
        /\ \A t \in Subjects : viewCalls'[t] = IF t = s THEN {} ELSE viewCalls[t]
    BY <2>1 DEF ViewTypes
  <2> QED BY <2>1, <2>2, <2>3 DEF ViewTypes
<1>4. CASE UNCHANGED viewVars
  BY <1>4 DEF viewVars, ViewTypes
<1> QED BY <1>1, <1>2, <1>3, <1>4, AnsweredTyped DEF ViewNext, RefuseEvent, Handle, ReadEnd, LoseCall

LEMMA ViewTyped == ViewTypes => ViewTypeOK
<1> SUFFICES ASSUME ViewTypes PROVE ViewTypeOK
  OBVIOUS
<1>1. ASSUME NEW lines, LinesOf(lines) PROVE Len(lines) <= 2
  <2>1. ASSUME NEW x, lines = <<x, End>> PROVE Len(lines) <= 2
    BY <2>1
  <2>2. lines = <<>> \/ lines = <<End>> \/ \E x : lines = <<x, End>>
    BY <1>1 DEF LinesOf
  <2> QED BY <2>1, <2>2
<1> QED BY <1>1 DEF ViewTypes, ViewTypeOK

(* Of the mocks, when a context goes with one call only: what a call asked *)
(* for and what its context recorded, whatever the handlers do.            *)
SomeEvents == Seq([value : MockValues, applicable : BOOLEAN])
Requests == [action : {"none", "update", "delete"}, update : States, mutated : States, events : SomeEvents,
             fails : BOOLEAN]
Records == [updatedState : States, delete : BOOLEAN, events : SomeEvents, error : {"none", "ctx.fail"}]

RecordsOf(ctx, asked) ==
  /\ ctx \in Records /\ asked \in Requests /\ Len(ctx.events) <= MaxEmits /\ ctx.events = asked.events
  /\ mocked = "value" => asked.events = <<>>

CallOf(pc, ctx, saw, asked) == [pc |-> pc, ctx |-> ctx, saw |-> saw, asked |-> asked]

MocksTypes ==
  /\ mocked \in {"value", "eventsourced"} /\ error \in {"none", "reply", "ctx.fail"}
  /\ mocked = "value" => state \in States /\ stored \in States /\ events = <<>>
  /\ calls = [c \in MockCalls |-> calls[c]] /\ contexts = [c \in MockCalls |-> contexts[c]]
  /\ \A c \in MockCalls :
        /\ calls[c] = CallOf(calls[c].pc, c, calls[c].saw, calls[c].asked)
        /\ calls[c].pc \in {"new", "running", "settled"}
        /\ RecordsOf(contexts[c], calls[c].asked)

LEMMA EmptyState == <<>> \in States /\ <<>> \in SomeEvents /\ Len(<<>>) = 0
BY DEF States, SomeEvents

LEMMA CallFields ==
  ASSUME NEW pc, NEW ctx, NEW saw, NEW asked, NEW call, call = CallOf(pc, ctx, saw, asked)
  PROVE  call.pc = pc /\ call.ctx = ctx /\ call.saw = saw /\ call.asked = asked
BY DEF CallOf

LEMMA MocksTypesInit == MocksInit => MocksTypes
<1> SUFFICES ASSUME MocksInit PROVE MocksTypes
  OBVIOUS
<1>1. MaxEmits \in Nat
  BY EntityMocksAssumption
<1>2. FreshContext \in Records /\ NothingAsked \in Requests
      /\ FreshContext.events = <<>> /\ NothingAsked.events = <<>>
  BY EmptyState DEF FreshContext, NothingAsked, Records, Requests
<1>3. RecordsOf(FreshContext, NothingAsked)
  BY <1>1, <1>2, EmptyState DEF RecordsOf
<1>4. \A c : NewCall(c) = CallOf("new", c, <<>>, NothingAsked)
  BY DEF NewCall, CallOf
<1>5. \A c \in MockCalls : calls[c] = CallOf("new", c, <<>>, NothingAsked) /\ contexts[c] = FreshContext
  BY <1>4 DEF MocksInit
<1>6. \A c \in MockCalls : /\ calls[c].pc = "new" /\ calls[c].saw = <<>> /\ calls[c].asked = NothingAsked
  BY <1>5, CallFields
<1> QED BY <1>3, <1>5, <1>6, EmptyState DEF MocksInit, MocksTypes

(* A step that changes one call and its context.                           *)
LEMMA OneCallChanges ==
  ASSUME MocksTypes, NEW c \in MockCalls, NEW call, NEW ctx, NEW pc, NEW saw, NEW asked,
         call = CallOf(pc, c, saw, asked), pc \in {"new", "running", "settled"}, RecordsOf(ctx, asked),
         calls' = [calls EXCEPT ![c] = call], contexts' = [contexts EXCEPT ![c] = ctx], mocked' = mocked,
         error' \in {"none", "reply", "ctx.fail"},
         mocked = "value" => state' \in States /\ stored' \in States /\ events' = <<>>
  PROVE  MocksTypes'
<1>1. /\ calls' = [d \in MockCalls |-> calls'[d]] /\ contexts' = [d \in MockCalls |-> contexts'[d]]
      /\ \A d \in MockCalls : calls'[d] = (IF d = c THEN call ELSE calls[d])
      /\ \A d \in MockCalls : contexts'[d] = (IF d = c THEN ctx ELSE contexts[d])
  BY DEF MocksTypes
<1>2. call.pc = pc /\ call.saw = saw /\ call.asked = asked
  BY CallFields
<1>3. \A x, a : RecordsOf(x, a)' <=> RecordsOf(x, a)
  BY DEF RecordsOf
<1>4. ASSUME NEW d \in MockCalls
      PROVE  /\ calls'[d] = CallOf(calls'[d].pc, d, calls'[d].saw, calls'[d].asked)
             /\ calls'[d].pc \in {"new", "running", "settled"}
             /\ RecordsOf(contexts'[d], calls'[d].asked)
  <2>1. CASE d = c
    BY <1>1, <1>2, <2>1
  <2>2. CASE d # c
    BY <1>1, <2>2 DEF MocksTypes
  <2> QED BY <2>1, <2>2
<1>5. \A d \in MockCalls : RecordsOf(contexts[d], calls[d].asked)'
  BY <1>3, <1>4
<1> QED BY <1>1, <1>4, <1>5 DEF MocksTypes

LEMMA TypesOfCall ==
  ASSUME MocksTypes, NEW c \in MockCalls
  PROVE  /\ Context(c) = contexts[c] /\ RecordsOf(Context(c), Asked(c)) /\ Asked(c) = calls[c].asked
         /\ calls[c] = CallOf(calls[c].pc, c, calls[c].saw, calls[c].asked) /\ calls[c].ctx = c
         /\ calls[c].pc \in {"new", "running", "settled"}
<1>1. /\ calls[c] = CallOf(calls[c].pc, c, calls[c].saw, calls[c].asked)
      /\ calls[c].pc \in {"new", "running", "settled"} /\ RecordsOf(contexts[c], calls[c].asked)
  BY DEF MocksTypes
<1>2. calls[c].ctx = c
  BY <1>1, CallFields
<1> QED BY <1>1, <1>2 DEF Context, Asked

WithPc(call, pc) == [call EXCEPT !.pc = pc]
WithAsked(call, asked) == [call EXCEPT !.asked = asked]
Taken(call, x, saw) == [call EXCEPT !.pc = "running", !.ctx = x, !.saw = saw]

LEMMA CallsChange ==
  ASSUME NEW pc, NEW ctx, NEW saw, NEW asked, NEW call, call = CallOf(pc, ctx, saw, asked)
  PROVE  /\ \A p : WithPc(call, p) = CallOf(p, ctx, saw, asked)
         /\ \A a : WithAsked(call, a) = CallOf(pc, ctx, saw, a)
         /\ \A x, w : Taken(call, x, w) = CallOf("running", x, w, asked)
<1>1. ASSUME NEW p PROVE WithPc(call, p) = CallOf(p, ctx, saw, asked)
  BY DEF WithPc, CallOf
<1>2. ASSUME NEW a PROVE WithAsked(call, a) = CallOf(pc, ctx, saw, a)
  BY DEF WithAsked, CallOf
<1>3. ASSUME NEW x, NEW w PROVE Taken(call, x, w) = CallOf("running", x, w, asked)
  <2>1. Taken(call, x, w) = [[[CallOf(pc, ctx, saw, asked) EXCEPT !.pc = "running"] EXCEPT !.ctx = x] EXCEPT !.saw = w]
    BY DEF Taken
  <2>2. [CallOf(pc, ctx, saw, asked) EXCEPT !.pc = "running"] = CallOf("running", ctx, saw, asked)
    BY DEF CallOf
  <2>3. [CallOf("running", ctx, saw, asked) EXCEPT !.ctx = x] = CallOf("running", x, saw, asked)
    BY DEF CallOf
  <2>4. [CallOf("running", x, saw, asked) EXCEPT !.saw = w] = CallOf("running", x, w, asked)
    BY DEF CallOf
  <2> QED BY <2>1, <2>2, <2>3, <2>4
<1> QED BY <1>1, <1>2, <1>3

LEMMA RecordTyped ==
  ASSUME MocksTypes, NEW c \in MockCalls, NEW ctx, NEW asked, Record(c, ctx, asked), RecordsOf(ctx, asked),
         mocked = "value" => state' \in States
  PROVE  MocksTypes'
<1>1. /\ contexts' = [contexts EXCEPT ![c] = ctx] /\ calls' = [calls EXCEPT ![c] = WithAsked(calls[c], asked)]
      /\ UNCHANGED <<mocked, events, error, stored>>
  <2>1. calls[c].ctx = c
    BY TypesOfCall
  <2> QED BY <2>1 DEF Record, WithAsked
<1>2. WithAsked(calls[c], asked) = CallOf(calls[c].pc, c, calls[c].saw, asked)
  BY TypesOfCall, CallsChange
<1>3. calls[c].pc \in {"new", "running", "settled"}
  BY TypesOfCall
<1>4. error' \in {"none", "reply", "ctx.fail"}
      /\ (mocked = "value" => state' \in States /\ stored' \in States /\ events' = <<>>)
  BY <1>1 DEF MocksTypes
<1> QED BY <1>1, <1>2, <1>3, <1>4, OneCallChanges

LEMMA SettledTyped ==
  ASSUME MocksTypes, NEW c \in MockCalls, calls' = [calls EXCEPT ![c].pc = "settled"],
         UNCHANGED <<mocked, contexts>>, error' \in {"none", "reply", "ctx.fail"},
         mocked = "value" => state' \in States /\ stored' \in States /\ events' = <<>>
  PROVE  MocksTypes'
<1>1. calls' = [calls EXCEPT ![c] = WithPc(calls[c], "settled")]
  BY DEF WithPc
<1>2. WithPc(calls[c], "settled") = CallOf("settled", c, calls[c].saw, calls[c].asked)
  BY TypesOfCall, CallsChange
<1>3. contexts' = [contexts EXCEPT ![c] = contexts[c]]
  BY DEF MocksTypes
<1>4. RecordsOf(contexts[c], calls[c].asked)
  BY DEF MocksTypes
<1>5. PICK call, ctx, asked, saw :
        /\ call = WithPc(calls[c], "settled") /\ ctx = contexts[c] /\ asked = calls[c].asked /\ saw = calls[c].saw
  OBVIOUS
<1>6. /\ call = CallOf("settled", c, saw, asked) /\ RecordsOf(ctx, asked) /\ contexts' = [contexts EXCEPT ![c] = ctx]
      /\ calls' = [calls EXCEPT ![c] = call] /\ mocked' = mocked
  BY <1>1, <1>2, <1>3, <1>4, <1>5
<1> QED BY <1>6, OneCallChanges

(* What the handler of a call may ask for and record.                      *)
LEMMA RecordsChange ==
  ASSUME NEW ctx, NEW asked, RecordsOf(ctx, asked), NEW v \in MockValues
  PROVE  /\ RecordsOf([ctx EXCEPT !.updatedState = <<v>>], [asked EXCEPT !.action = "update", !.update = <<v>>])
         /\ RecordsOf(ctx, [asked EXCEPT !.mutated = <<v>>])
<1>1. <<v>> \in States
  BY DEF States
<1>2. ctx \in Records /\ asked \in Requests
  BY DEF RecordsOf
<1>3. [ctx EXCEPT !.updatedState = <<v>>] \in Records /\ [ctx EXCEPT !.updatedState = <<v>>].events = ctx.events
  BY <1>1, <1>2 DEF Records
<1>4. /\ [asked EXCEPT !.action = "update", !.update = <<v>>] \in Requests
      /\ [asked EXCEPT !.action = "update", !.update = <<v>>].events = asked.events
  BY <1>1, <1>2 DEF Requests
<1>5. [asked EXCEPT !.mutated = <<v>>] \in Requests /\ [asked EXCEPT !.mutated = <<v>>].events = asked.events
  BY <1>1, <1>2 DEF Requests
<1> QED BY <1>3, <1>4, <1>5 DEF RecordsOf

LEMMA FlagsChange ==
  ASSUME NEW ctx, NEW asked, RecordsOf(ctx, asked)
  PROVE  /\ RecordsOf([ctx EXCEPT !.delete = TRUE], [asked EXCEPT !.action = "delete"])
         /\ RecordsOf([ctx EXCEPT !.error = "ctx.fail"], [asked EXCEPT !.fails = TRUE])
<1>1. ctx \in Records /\ asked \in Requests
  BY DEF RecordsOf
<1>2. [ctx EXCEPT !.delete = TRUE] \in Records /\ [ctx EXCEPT !.delete = TRUE].events = ctx.events
  BY <1>1 DEF Records
<1>3. [asked EXCEPT !.action = "delete"] \in Requests /\ [asked EXCEPT !.action = "delete"].events = asked.events
  BY <1>1 DEF Requests
<1>4. [ctx EXCEPT !.error = "ctx.fail"] \in Records /\ [ctx EXCEPT !.error = "ctx.fail"].events = ctx.events
  BY <1>1 DEF Records
<1>5. [asked EXCEPT !.fails = TRUE] \in Requests /\ [asked EXCEPT !.fails = TRUE].events = asked.events
  BY <1>1 DEF Requests
<1> QED BY <1>2, <1>3, <1>4, <1>5 DEF RecordsOf

LEMMA EmitTyped ==
  ASSUME MocksTypes, NEW c \in MockCalls, NEW v \in MockValues, NEW applicable \in BOOLEAN, MockEmit(c, v, applicable)
  PROVE  MocksTypes'
<1> DEFINE event == [value |-> v, applicable |-> applicable]
           ctx == [Context(c) EXCEPT !.events = Append(@, event)]
           asked == [Asked(c) EXCEPT !.events = Append(@, event)]
<1>1. mocked = "eventsourced" /\ Len(Asked(c).events) < MaxEmits /\ Record(c, ctx, asked)
  BY DEF MockEmit
<1>2. Context(c) \in Records /\ Asked(c) \in Requests /\ Context(c).events = Asked(c).events
      /\ Context(c).events \in SomeEvents
  BY TypesOfCall DEF RecordsOf, Records
<1>3. event \in [value : MockValues, applicable : BOOLEAN]
  OBVIOUS
<1>4. PICK more : more = Append(Context(c).events, event)
  OBVIOUS
<1>5. more \in SomeEvents /\ Len(more) = Len(Asked(c).events) + 1 /\ Len(Asked(c).events) \in Nat
  BY <1>2, <1>3, <1>4 DEF SomeEvents
<1>6. ctx = [Context(c) EXCEPT !.events = more] /\ asked = [Asked(c) EXCEPT !.events = more]
  BY <1>2, <1>4
<1> HIDE DEF ctx, asked, event
<1>7. ctx \in Records /\ ctx.events = more
  BY <1>2, <1>5, <1>6 DEF Records
<1>8. asked \in Requests /\ asked.events = more
  BY <1>2, <1>5, <1>6 DEF Requests
<1>9. Len(more) <= MaxEmits
  BY <1>1, <1>5, EntityMocksAssumption
<1>10. RecordsOf(ctx, asked)
  BY <1>1, <1>7, <1>8, <1>9 DEF RecordsOf
<1> QED BY <1>1, <1>10, RecordTyped

LEMMA StoredTyped ==
  ASSUME MocksTypes, NEW c \in MockCalls, mocked = "value"
  PROVE  RealStored(Asked(c)) \in States /\ StateAfter(Context(c)) \in States
<1>1. stored \in States /\ state \in States
  BY DEF MocksTypes
<1>2. Context(c) \in Records /\ Asked(c) \in Requests /\ Asked(c).events = <<>>
  BY TypesOfCall DEF RecordsOf
<1>3. Asked(c).action \in {"none", "update", "delete"} /\ Asked(c).update \in States
      /\ Context(c).updatedState \in States
  BY <1>2 DEF Records, Requests
<1>4. stored \o Payloads(<<>>) = stored
  <2>1. Payloads(<<>>) = <<>>
    BY DEF Payloads
  <2>2. stored \in Seq(MockValues)
    <3>1. <<>> \in Seq(MockValues) /\ \A v \in MockValues : <<v>> \in Seq(MockValues)
      OBVIOUS
    <3>2. stored = <<>> \/ \E v \in MockValues : stored = <<v>>
      BY <1>1 DEF States
    <3> QED BY <3>1, <3>2
  <2> QED BY <2>1, <2>2
<1>5. RealStored(Asked(c)) \in States
  BY <1>1, <1>2, <1>3, <1>4, EmptyState DEF RealStored
<1> QED BY <1>1, <1>3, <1>5, EmptyState DEF StateAfter

LEMMA ErrorTyped ==
  ASSUME MocksTypes, NEW c \in MockCalls, NEW outcome
  PROVE  ErrorAfter(Context(c), outcome) \in {"none", "reply", "ctx.fail"}
<1>1. Context(c).error \in {"none", "ctx.fail"}
  BY TypesOfCall DEF RecordsOf, Records
<1> QED BY <1>1 DEF ErrorAfter

LEMMA MocksTypesNext == "reusesContext" \notin Habits /\ MocksTypes /\ [MocksNext]_mocksVars => MocksTypes'
<1> SUFFICES ASSUME "reusesContext" \notin Habits, MocksTypes, [MocksNext]_mocksVars PROVE MocksTypes'
  OBVIOUS
<1>0. /\ error \in {"none", "reply", "ctx.fail"}
      /\ mocked = "value" => state \in States /\ stored \in States /\ events = <<>>
  BY DEF MocksTypes
<1>1. ASSUME NEW c \in MockCalls, NEW x \in MockCalls, HandleCommand(c, x) PROVE MocksTypes'
  <2>1. x = c /\ calls' = [calls EXCEPT ![c] = Taken(calls[c], c, state)]
        /\ UNCHANGED <<mocked, state, events, error, contexts, stored>>
    BY <1>1 DEF HandleCommand, Taken
  <2>2. Taken(calls[c], c, state) = CallOf("running", c, state, calls[c].asked)
    BY TypesOfCall, CallsChange
  <2>3. contexts' = [contexts EXCEPT ![c] = contexts[c]] /\ RecordsOf(contexts[c], calls[c].asked)
    BY <2>1 DEF MocksTypes
  <2> QED BY <1>0, <2>1, <2>2, <2>3, OneCallChanges
<1>2. ASSUME NEW c \in MockCalls, RefuseCall(c) PROVE MocksTypes'
  BY <1>0, <1>2, SettledTyped DEF RefuseCall
<1>3. ASSUME NEW c \in MockCalls, NEW v \in MockValues, MockUpdateState(c, v) PROVE MocksTypes'
  <2>1. RecordsOf([Context(c) EXCEPT !.updatedState = <<v>>], [Asked(c) EXCEPT !.action = "update", !.update = <<v>>])
    BY TypesOfCall, RecordsChange
  <2> QED BY <1>0, <1>3, <2>1, RecordTyped DEF MockUpdateState
<1>4. ASSUME NEW c \in MockCalls, NEW v \in MockValues, MutateState(c, v) PROVE MocksTypes'
  <2>1. RecordsOf(Context(c), [Asked(c) EXCEPT !.mutated = <<v>>]) /\ <<v>> \in States
    BY TypesOfCall, RecordsChange DEF States
  <2> QED BY <1>4, <2>1, RecordTyped DEF MutateState
<1>5. ASSUME NEW c \in MockCalls, MockDeleteState(c) PROVE MocksTypes'
  <2>1. RecordsOf([Context(c) EXCEPT !.delete = TRUE], [Asked(c) EXCEPT !.action = "delete"])
    BY TypesOfCall, FlagsChange
  <2> QED BY <1>0, <1>5, <2>1, RecordTyped DEF MockDeleteState
<1>6. ASSUME NEW c \in MockCalls, MockFail(c) PROVE MocksTypes'
  <2>1. RecordsOf([Context(c) EXCEPT !.error = "ctx.fail"], [Asked(c) EXCEPT !.fails = TRUE])
    BY TypesOfCall, FlagsChange
  <2> QED BY <1>0, <1>6, <2>1, RecordTyped DEF MockFail
<1>7. ASSUME NEW c \in MockCalls, HandlerThrows(c) PROVE MocksTypes'
  <2>1. /\ calls' = [calls EXCEPT ![c].pc = "settled"] /\ UNCHANGED <<mocked, contexts, state, events, error>>
        /\ stored' \in {RealStored(Asked(c)), stored}
    BY <1>7 DEF HandlerThrows, Settled
  <2>2. mocked = "value" => stored' \in States
    BY <1>0, <2>1, StoredTyped
  <2> QED BY <1>0, <2>1, <2>2, SettledTyped
<1>8. ASSUME NEW c \in MockCalls, NEW outcome, SettleValue(c, outcome) PROVE MocksTypes'
  <2>1. /\ mocked = "value" /\ calls' = [calls EXCEPT ![c].pc = "settled"] /\ UNCHANGED <<mocked, contexts, events>>
        /\ stored' \in {RealStored(Asked(c)), stored} /\ state' = StateAfter(Context(c))
        /\ error' = ErrorAfter(Context(c), outcome)
    BY <1>8 DEF SettleValue, Settled
  <2>2. state' \in States /\ stored' \in States /\ error' \in {"none", "reply", "ctx.fail"}
    BY <1>0, <2>1, StoredTyped, ErrorTyped
  <2> QED BY <1>0, <2>1, <2>2, SettledTyped
<1>9. ASSUME NEW c \in MockCalls, NEW outcome, SettleEventSourced(c, outcome) PROVE MocksTypes'
  <2>1. /\ mocked # "value" /\ calls' = [calls EXCEPT ![c].pc = "settled"] /\ UNCHANGED <<mocked, contexts>>
        /\ error' \in {ErrorAfter(Context(c), outcome), error}
    BY <1>9 DEF SettleEventSourced, Settled
  <2>2. error' \in {"none", "reply", "ctx.fail"}
    BY <1>0, <2>1, ErrorTyped
  <2> QED BY <2>1, <2>2, SettledTyped
<1>10. CASE UNCHANGED mocksVars
  BY <1>10 DEF mocksVars, MocksTypes, RecordsOf
<1> QED
  BY <1>1, <1>2, <1>3, <1>4, <1>5, <1>6, <1>7, <1>8, <1>9, <1>10, EmitTyped DEF MocksNext

LEMMA MocksTyped == MocksTypes => MocksTypeOK
BY DEF MocksTypes, MocksTypeOK, RecordsOf

----------------------------------------------------------------------------
(* Replies and their answers.                                              *)

Letters == UNION {Range(v) : v \in Values}
KitText == {s \in Seq(Letters) : Len(s) <= MaxState}
AllMethods == Methods \cup {Call}

ForwardOf ==
  [method : AllMethods, message : SUBSET KitText, forward : {{}}, failure : {{}}, effects : {<<>>}]
ReplyOf ==
  [method : {NoMethod}, message : SUBSET KitText, forward : SUBSET ForwardOf,
   failure : SUBSET Int, effects : Seq(AllMethods)]
AnswerOf ==
  [kind : AnswerKinds, payload : SUBSET (KitText \cup ReplyOf), to : SUBSET Targets, effects : Seq(Targets)]

LEMMA ValuesAreTexts == Values \subseteq KitText /\ <<>> \in KitText /\ Values \cup {<<>>} \subseteq Seq(Letters)
<1>1. ASSUME NEW v \in Values PROVE v \in Seq(Letters) /\ Len(v) <= MaxState
  <2>1. Range(v) \subseteq Letters
    BY DEF Letters
  <2>2. v \in Seq(Range(v)) /\ Len(v) <= MaxState
    BY TckAssumption
  <2>3. Len(v) \in Nat /\ v = [i \in 1 .. Len(v) |-> v[i]] /\ \A i \in 1 .. Len(v) : v[i] \in Letters
    BY <2>1, <2>2
  <2> QED BY <2>2, <2>3
<1>2. <<>> \in Seq(Letters) /\ Len(<<>>) <= MaxState
  BY TckAssumption
<1> QED BY <1>1, <1>2 DEF KitText

LEMMA RepliesAre ==
  /\ EmptyReply \in ReplyOf
  /\ \A r \in ReplyOf, m \in KitText : SetMessage(r, m) \in ReplyOf
  /\ \A r \in ReplyOf, method \in AllMethods, m \in KitText : SetForward(r, method, m) \in ReplyOf
  /\ \A r \in ReplyOf, status \in Int : SetFailure(r, status) \in ReplyOf
  /\ \A r \in ReplyOf, methods \in Seq(AllMethods) : AddEffects(r, methods) \in ReplyOf
<1>1. EmptyReply \in ReplyOf
  BY DEF EmptyReply, ReplyOf
<1>2. \A r \in ReplyOf, m \in KitText : SetMessage(r, m) \in ReplyOf
  BY DEF SetMessage, ReplyOf
<1>3. \A method \in AllMethods, m \in KitText :
        [SetMessage(EmptyReply, m) EXCEPT !.method = method] \in ForwardOf
  BY DEF SetMessage, EmptyReply, ForwardOf
<1>4. \A r \in ReplyOf, method \in AllMethods, m \in KitText : SetForward(r, method, m) \in ReplyOf
  BY <1>3 DEF SetForward, ReplyOf
<1>5. \A r \in ReplyOf, status \in Int : SetFailure(r, status) \in ReplyOf
  BY DEF SetFailure, ReplyOf
<1>6. \A r \in ReplyOf, methods \in Seq(AllMethods) : AddEffects(r, methods) \in ReplyOf
  <2> SUFFICES ASSUME NEW r \in ReplyOf, NEW methods \in Seq(AllMethods)
               PROVE  AddEffects(r, methods) \in ReplyOf
    OBVIOUS
  <2>1. r.effects \o methods \in Seq(AllMethods)
    BY DEF ReplyOf
  <2> QED BY <2>1 DEF AddEffects, ReplyOf
<1> QED BY <1>1, <1>2, <1>4, <1>5, <1>6

LEMMA ResolvedIs == \A method \in AllMethods : Resolve(method) \subseteq Targets
BY DEF Resolve, Targets, AllMethods

LEMMA Serialized ==
  ASSUME NEW methods \in Seq(AllMethods), NEW es \in SerializeEffects(methods)
  PROVE  es \in Seq(Targets) /\ Len(es) = Len(methods)
<1>1. /\ Len(methods) \in Nat /\ DOMAIN methods = 1 .. Len(methods)
      /\ \A i \in 1 .. Len(methods) : methods[i] \in AllMethods
  OBVIOUS
<1>2. /\ \A i \in DOMAIN methods : Resolve(methods[i]) # {}
      /\ es = [i \in DOMAIN methods |-> CHOOSE t \in Resolve(methods[i]) : TRUE]
  BY DEF SerializeEffects
<1>3. \A i \in 1 .. Len(methods) : es[i] \in Targets
  BY <1>1, <1>2, ResolvedIs
<1> QED BY <1>1, <1>2, <1>3

SuccessKind(r) == IF r.message = {} /\ r.forward # {} THEN "forward" ELSE "reply"
KindOf(r) == IF r.failure # {} THEN "failure" ELSE SuccessKind(r)

LEMMA ForwardedIs ==
  ASSUME NEW r \in ReplyOf, NEW f \in r.forward, NEW es \in Seq(Targets), NEW a \in Forwarded(f, es)
  PROVE  a \in AnswerOf /\ a.kind = "forward" /\ a.effects = es
<1>1. PICK t \in Resolve(f.method) : a = Answer("forward", f.message, {t}, es)
  BY DEF Forwarded
<1>2. f.method \in AllMethods /\ f.message \in SUBSET (KitText \cup ReplyOf)
  BY DEF ReplyOf, ForwardOf
<1>3. t \in Targets
  BY <1>2, ResolvedIs
<1> QED BY <1>1, <1>2, <1>3 DEF Answer, AnswerOf, AnswerKinds

LEMMA RepliedIs ==
  ASSUME NEW payload \in SUBSET (KitText \cup ReplyOf), NEW es \in Seq(Targets), NEW a, a = Replied(payload, es)
  PROVE  a \in AnswerOf /\ a.kind = "reply" /\ a.effects = es /\ a.payload = payload
BY DEF Replied, Answer, AnswerOf, AnswerKinds

LEMMA SuccessIs ==
  ASSUME NEW r \in ReplyOf, NEW es \in Seq(Targets), NEW a \in Success(r, es)
  PROVE  /\ a \in AnswerOf /\ a.kind = SuccessKind(r) /\ a.effects = es
         /\ a.kind = "reply" => a.payload = r.message
<1>1. CASE r.message # {} \/ r.forward = {}
  <2>1. a = Replied(r.message, es)
    BY <1>1 DEF Success
  <2>2. r.message \in SUBSET (KitText \cup ReplyOf)
    BY DEF ReplyOf
  <2> QED BY <1>1, <2>1, <2>2, RepliedIs DEF SuccessKind
<1>2. CASE r.message = {} /\ r.forward # {}
  <2>1. PICK f \in r.forward : a \in Forwarded(f, es)
    BY <1>2 DEF Success
  <2> QED BY <1>2, <2>1, ForwardedIs DEF SuccessKind
<1> QED BY <1>1, <1>2

LEMMA Chosen == ASSUME NEW as PROVE (CHOOSE a \in OrError(as) : TRUE) \in OrError(as)
BY DEF OrError

LEMMA ErrorIs == ASSUME NEW as, NEW a \in OrError(as), a \notin as PROVE a \in AnswerOf /\ a.kind = "error"
<1>1. a = Answer("error", {}, {}, <<>>)
  BY DEF OrError
<1>2. <<>> \in Seq(Targets)
  OBVIOUS
<1> QED BY <1>1, <1>2 DEF Answer, AnswerOf, AnswerKinds

LEMMA FailureIs ==
  ASSUME NEW es \in Seq(Targets), NEW a, a = Answer("failure", {}, {}, es)
  PROVE  a \in AnswerOf /\ a.kind = "failure" /\ a.effects = es
BY DEF Answer, AnswerOf, AnswerKinds

(* An answer that is not an error is of the Reply's kind, shows its        *)
(* message and brings its side effects, unless an entity fails.            *)
LEMMA EntityAnswers ==
  ASSUME NEW r \in ReplyOf, NEW a \in OrError(EntityAnswer(r))
  PROVE  /\ a \in AnswerOf
         /\ a.kind # "error" =>
              /\ a.kind = KindOf(r)
              /\ Len(a.effects) = IF a.kind = "failure" THEN 0 ELSE Len(r.effects)
              /\ a.kind = "reply" => a.payload = r.message
<1>2. CASE a \notin EntityAnswer(r)
  BY <1>2, ErrorIs
<1>3. CASE a \in EntityAnswer(r) /\ r.failure # {}
  <2>1. a = Answer("failure", {}, {}, <<>>)
    BY <1>3 DEF EntityAnswer
  <2>2. <<>> \in Seq(Targets) /\ Len(<<>>) = 0
    OBVIOUS
  <2> QED BY <1>3, <2>1, <2>2, FailureIs DEF KindOf
<1>4. CASE a \in EntityAnswer(r) /\ r.failure = {}
  <2>1. PICK es \in SerializeEffects(r.effects) : a \in Success(r, es)
    BY <1>4 DEF EntityAnswer
  <2>2. r.effects \in Seq(AllMethods)
    BY DEF ReplyOf
  <2>3. es \in Seq(Targets) /\ Len(es) = Len(r.effects)
    BY <2>2, Serialized
  <2>4. KindOf(r) = SuccessKind(r) /\ SuccessKind(r) # "failure"
    BY <1>4 DEF KindOf, SuccessKind
  <2> QED BY <2>1, <2>3, <2>4, SuccessIs
<1> QED BY <1>2, <1>3, <1>4

LEMMA ActionAnswers ==
  ASSUME NEW r \in ReplyOf, NEW response, NEW a \in OrError(ActionAnswer(r, response))
  PROVE  /\ a \in AnswerOf
         /\ a.kind # "error" /\ ~ WithoutMethod(r) =>
              a.kind = KindOf(r) /\ Len(a.effects) = Len(r.effects)
<1>1. CASE a \notin ActionAnswer(r, response)
  BY <1>1, ErrorIs
<1>2. CASE a \in ActionAnswer(r, response)
  <2>1. PICK es \in SerializeEffects(r.effects) :
          a \in IF r.failure # {} THEN {Answer("failure", {}, {}, es)}
                ELSE IF r.message # {} THEN {Replied(r.message, es)}
                ELSE IF r.forward # {} /\ ~ WithoutMethod(r) THEN UNION {Forwarded(f, es) : f \in r.forward}
                ELSE {Replied(WrittenAs(r, response), es)}
    BY <1>2 DEF ActionAnswer
  <2>2. r.effects \in Seq(AllMethods)
    BY DEF ReplyOf
  <2>3. es \in Seq(Targets) /\ Len(es) = Len(r.effects)
    BY <2>2, Serialized
  <2>4. CASE r.failure # {}
    BY <2>1, <2>3, <2>4, FailureIs DEF KindOf
  <2>5. CASE r.failure = {} /\ r.message # {}
    <3>1. a = Replied(r.message, es) /\ r.message \in SUBSET (KitText \cup ReplyOf)
      BY <2>1, <2>5 DEF ReplyOf
    <3> QED BY <2>3, <2>5, <3>1, RepliedIs DEF KindOf, SuccessKind
  <2>6. CASE r.failure = {} /\ r.message = {} /\ r.forward # {} /\ ~ WithoutMethod(r)
    <3>1. PICK f \in r.forward : a \in Forwarded(f, es)
      BY <2>1, <2>6
    <3> QED BY <2>3, <2>6, <3>1, ForwardedIs DEF KindOf, SuccessKind
  <2>7. CASE r.failure = {} /\ r.message = {} /\ (r.forward = {} \/ WithoutMethod(r))
    <3>1. a = Replied(WrittenAs(r, response), es)
      BY <2>1, <2>7
    <3>2. WrittenAs(r, response) \in SUBSET (KitText \cup ReplyOf)
      BY DEF WrittenAs
    <3> QED BY <2>3, <2>7, <3>1, <3>2, RepliedIs DEF KindOf, SuccessKind
  <2> QED BY <2>4, <2>5, <2>6, <2>7
<1> QED BY <1>1, <1>2

----------------------------------------------------------------------------
(* The types of the kit's components.                                      *)

TckTypes ==
  /\ model \in Models /\ busy \in BOOLEAN /\ steps \in 0 .. MaxSteps
  /\ saved \in KitText /\ memory \in KitText /\ shown \in KitText
  /\ work \in Seq(Values \cup {<<>>})
  /\ reply = {} \/ \E r \in ReplyOf : reply = {r}
  /\ kept \in ReplyOf
  /\ effects \in Seq({Call}) /\ due \in Seq({Call}) /\ fresh \in Seq({Call})
  /\ wanted \in {"reply", "forward", "failure"}
  /\ answers \in Seq(AnswerOf)

(* The state a handler shows is what is persisted if it succeeds. *)
ShownInv == model \in Entities /\ busy => shown = Persisted

(* ... and between requests its memory is what is persisted. *)
KeptInv ==
  model \in Entities =>
    /\ memory = saved
    /\ busy /\ model = "value" /\ wanted = "failure" => work = <<>>

(* What the handler has at any time is what it was asked for last. *)
EntityAsked ==
  model \in Entities /\ busy =>
    /\ effects = fresh
    /\ reply = {} => wanted = "reply"
    /\ \A r \in reply : r.effects = <<>> /\ r.message = {} /\ KindOf(r) = wanted /\ wanted # "reply"
ActionAsked ==
  model \in Actions /\ busy =>
    /\ reply # {}
    /\ \A r \in reply : r.effects = fresh /\ ~ WithoutMethod(r)
    /\ model # "streamedIn" => \A r \in reply : KindOf(r) = wanted
StreamAsked ==
  model = "streamedIn" /\ busy =>
    /\ Len(kept.effects) = Len(due) /\ ~ WithoutMethod(kept)
    /\ \A r \in reply : KindOf(IF IsEmpty(r) THEN kept ELSE r) = wanted

LEMMA CallEffects == Seq({Call}) \subseteq Seq(AllMethods) /\ <<Call>> \in Seq({Call}) /\ <<>> \in Seq({Call})
BY DEF AllMethods

LEMMA AnswerChosen ==
  ASSUME NEW r \in ReplyOf
  PROVE  /\ (CHOOSE a \in OrError(EntityAnswer(r)) : TRUE) \in AnswerOf
         /\ \A response : (CHOOSE a \in OrError(ActionAnswer(r, response)) : TRUE) \in AnswerOf
BY Chosen, EntityAnswers, ActionAnswers

(* What is answered, without the choice. *)
LEMMA AnswersOne ==
  ASSUME NEW r \in ReplyOf, TckTypes
  PROVE  /\ AnswersWith(r) =>
              \E a \in OrError(ActionAnswer(r, "typed")) :
                a \in AnswerOf /\ answers' = Append(answers, a) /\ answers' \in Seq(AnswerOf)
         /\ answers' = <<CHOOSE a \in OrError(EntityAnswer(r)) : TRUE>> =>
              answers' \in Seq(AnswerOf)
<1> DEFINE a == CHOOSE b \in OrError(ActionAnswer(r, "typed")) : TRUE
           e == CHOOSE b \in OrError(EntityAnswer(r)) : TRUE
<1>1. a \in OrError(ActionAnswer(r, "typed")) /\ a \in AnswerOf /\ e \in AnswerOf
  BY Chosen, AnswerChosen
<1>2. AnswersWith(r) => answers' = Append(answers, a)
  BY DEF AnswersWith
<1>3. answers' = <<CHOOSE b \in OrError(EntityAnswer(r)) : TRUE>> => answers' = <<e>>
  OBVIOUS
<1>4. Append(answers, a) \in Seq(AnswerOf) /\ <<e>> \in Seq(AnswerOf)
  <2> HIDE DEF a, e
  <2> QED BY <1>1 DEF TckTypes
<1> HIDE DEF a, e
<1> QED BY <1>1, <1>2, <1>3, <1>4

LEMMA TckTypesInit == TckInit => TckTypes
<1> SUFFICES ASSUME TckInit PROVE TckTypes
  OBVIOUS
<1>1. MaxSteps \in Nat
  BY TckAssumption
<1>2. model \in Models /\ busy \in BOOLEAN /\ steps \in 0 .. MaxSteps
  <2>1. model \in Models /\ busy \in BOOLEAN
    BY DEF TckInit
  <2>2. steps \in 0 .. MaxSteps
    <3>1. steps = 0
      BY DEF TckInit
    <3> QED BY <1>1, <3>1
  <2> QED BY <2>1, <2>2
<1>3. saved \in KitText /\ memory \in KitText /\ shown \in KitText
  BY ValuesAreTexts DEF TckInit
<1>4. work \in Seq(Values \cup {<<>>}) /\ answers \in Seq(AnswerOf) /\ reply = {}
  BY DEF TckInit
<1>5. effects \in Seq({Call}) /\ due \in Seq({Call}) /\ fresh \in Seq({Call})
  BY DEF TckInit
<1>6. kept \in ReplyOf /\ wanted \in {"reply", "forward", "failure"}
  BY RepliesAre DEF TckInit
<1> QED BY <1>2, <1>3, <1>4, <1>5, <1>6 DEF TckTypes

LEMMA NewReplyIs == NewReply = {} \/ NewReply = {EmptyReply}
BY DEF NewReply

(* A request begins, or the stream does. *)
LEMMA TckTypesBegin == ASSUME TckTypes, Begin \/ Restart PROVE TckTypes'
<1>1. CASE Begin
  <2>1. steps' \in 0 .. MaxSteps
    BY <1>1, TckAssumption DEF Begin
  <2>2. /\ model' = model /\ busy' = TRUE /\ saved' = saved /\ memory' = memory /\ shown' = memory
        /\ work' = <<>> /\ answers' = <<>> /\ kept' = EmptyReply /\ wanted' = "reply"
        /\ effects' = <<>> /\ due' = <<>> /\ fresh' = <<>> /\ reply' = NewReply
    BY <1>1 DEF Begin
  <2>3. reply' = {} \/ \E r \in ReplyOf : reply' = {r}
    BY <2>2, NewReplyIs, RepliesAre
  <2>4. work' \in Seq(Values \cup {<<>>}) /\ answers' \in Seq(AnswerOf)
    BY <2>2
  <2> QED BY <2>1, <2>2, <2>3, <2>4, CallEffects, RepliesAre DEF TckTypes
<1>2. CASE Restart
  BY <1>2 DEF Restart, TckTypes
<1> QED BY <1>1, <1>2

LEMMA InRequestTypes ==
  ASSUME TckTypes, InRequest
  PROVE  /\ model' = model /\ busy /\ busy' /\ answers' = answers
         /\ model' \in Models /\ busy' \in BOOLEAN /\ steps' \in 0 .. MaxSteps
         /\ answers' \in Seq(AnswerOf)
<1>1. MaxSteps \in Nat
  BY TckAssumption
<1> QED BY <1>1 DEF TckTypes, InRequest

(* A step of a request changes the state, ... *)
LEMMA TckTypesChange ==
  ASSUME TckTypes, Delete \/ \E v \in Values : Emit(v) \/ Update(v) PROVE TckTypes'
<1>1. ASSUME NEW v \in Values, Emit(v) PROVE TckTypes'
  <2>1. /\ InRequest /\ work' = Append(work, v) /\ shown' = shown \o v
        /\ Len(shown) + Len(v) <= MaxState
        /\ UNCHANGED <<saved, memory, effects, kept, due, fresh, reply, wanted>>
    BY <1>1 DEF Emit, SameReply
  <2>2. v \in KitText /\ v \in Values \cup {<<>>}
    BY ValuesAreTexts
  <2>3. shown' \in KitText
    <3>1. shown \in Seq(Letters) /\ v \in Seq(Letters)
      BY <2>2 DEF TckTypes, KitText
    <3>2. shown \o v \in Seq(Letters) /\ Len(shown \o v) = Len(shown) + Len(v)
      BY <3>1
    <3> QED BY <2>1, <3>2 DEF KitText
  <2>4. work' \in Seq(Values \cup {<<>>})
    BY <2>1, <2>2 DEF TckTypes
  <2> QED BY <2>1, <2>3, <2>4, InRequestTypes DEF TckTypes
<1>2. ASSUME NEW v \in Values \cup {<<>>}, InRequest, shown' = v, work' = <<v>>,
             UNCHANGED <<saved, memory, effects, kept, due, fresh, reply, wanted>>
      PROVE  TckTypes'
  <2>1. shown' \in KitText /\ work' \in Seq(Values \cup {<<>>})
    BY <1>2, ValuesAreTexts
  <2> QED BY <1>2, <2>1, InRequestTypes DEF TckTypes
<1>3. ASSUME NEW v \in Values, Update(v) PROVE TckTypes'
  BY <1>2, <1>3 DEF Update, MayChange, SameReply
<1>4. CASE Delete
  BY <1>2, <1>4 DEF Delete, MayChange, SameReply
<1> QED BY <1>1, <1>3, <1>4

(* ... or the Reply. *)
LEMMA TckTypesReply ==
  ASSUME TckTypes, Fail \/ Effect \/ Build \/ \E m \in Values : Forward(m) \/ ReplyStep(m)
  PROVE  TckTypes'
<1>1. /\ InRequest /\ UNCHANGED <<saved, memory, shown, work, kept, due>>
  BY DEF Fail, Effect, Build, Forward, ReplyStep, entityVars
<1>2. \A m \in Values : ReplyForward(Call, m) \in ReplyOf /\ ReplyMessage(m) \in ReplyOf
  BY ValuesAreTexts, RepliesAre DEF ReplyForward, ReplyMessage, AllMethods
<1>3. ReplyFailure(NoStatus) \in ReplyOf
  BY RepliesAre DEF ReplyFailure, NoStatus
<1>4. ASSUME NEW r \in ReplyOf, NEW kind \in {"reply", "forward", "failure"}, Answering(r, kind),
             fresh' = fresh \/ fresh' = <<>>, effects' = effects
      PROVE  TckTypes'
  <2>1. reply' = {r} /\ wanted' = kind
    BY <1>4 DEF Answering
  <2>2. fresh' \in Seq({Call})
    BY <1>4, CallEffects DEF TckTypes
  <2> QED BY <1>1, <1>4, <2>1, <2>2, InRequestTypes DEF TckTypes
<1>5. ASSUME NEW m \in Values, Forward(m) \/ ReplyStep(m) PROVE TckTypes'
  BY <1>2, <1>4, <1>5 DEF Forward, ReplyStep, entityVars
<1>6. CASE Fail
  BY <1>3, <1>4, <1>6 DEF Fail, entityVars
<1>7. CASE Effect
  <2>1. fresh' \in Seq({Call}) /\ effects' \in Seq({Call}) /\ wanted' = wanted
    <3>1. /\ fresh' = Append(fresh, Call) /\ wanted' = wanted
          /\ effects' = Append(effects, Call) \/ effects' = effects
      BY <1>7 DEF Effect
    <3>2. fresh \in Seq({Call}) /\ effects \in Seq({Call})
      BY DEF TckTypes
    <3> QED BY <3>1, <3>2
  <2>2. reply' = reply \/ reply' = {AddEffects(r, <<Call>>) : r \in reply}
    BY <1>7 DEF Effect
  <2>3. reply' = {} \/ \E r \in ReplyOf : reply' = {r}
    <3>1. CASE reply = {}
      BY <2>2, <3>1
    <3>2. ASSUME NEW r \in ReplyOf, reply = {r} PROVE reply' = {} \/ \E q \in ReplyOf : reply' = {q}
      <4>1. AddEffects(r, <<Call>>) \in ReplyOf
        BY CallEffects, RepliesAre
      <4> QED BY <2>2, <3>2, <4>1
    <3> QED BY <3>1, <3>2 DEF TckTypes
  <2> QED BY <1>1, <2>1, <2>3, InRequestTypes DEF TckTypes
<1>8. CASE Build
  <2>1. UNCHANGED <<effects, fresh, wanted>>
    BY <1>8 DEF Build, entityVars
  <2>2. PICK r \in reply :
           \/ \E v \in Values : reply' = {SetMessage(r, v)}
           \/ \E method \in Methods, v \in Values : reply' = {SetForward(r, method, v)}
           \/ \E status \in {NoStatus, 0, 1, 16, 17} : reply' = {SetFailure(r, status)}
           \/ \E method \in Methods : reply' = {AddEffects(r, <<method>>)}
    BY <1>8 DEF Build
  <2>3. r \in ReplyOf
    BY DEF TckTypes
  <2>4. {NoStatus, 0, 1, 16, 17} \subseteq Int
    BY DEF NoStatus
  <2>5. \A method \in Methods : method \in AllMethods /\ <<method>> \in Seq(AllMethods)
    BY DEF AllMethods
  <2>6. \E q \in ReplyOf : reply' = {q}
    BY <2>2, <2>3, <2>4, <2>5, RepliesAre, ValuesAreTexts
  <2> QED BY <1>1, <2>1, <2>6, InRequestTypes DEF TckTypes
<1> QED BY <1>5, <1>6, <1>7, <1>8

(* The end of a request. *)
LEMMA EndEntityIs ==
  ASSUME TckTypes, ShownInv, EndEntity
  PROVE  \E final \in ReplyOf, a \in AnswerOf :
           /\ \/ reply = {} /\ final = AddEffects(ReplyMessage(shown), effects)
              \/ \E r \in reply : final = AddEffects(r, effects)
           /\ reply' = {final} /\ answers' = <<a>>
           /\ a \in OrError(EntityAnswer(final))
           /\ saved' = IF a.kind \in {"reply", "forward"} THEN shown ELSE saved
           /\ memory' = IF a.kind = "error" THEN saved
                        ELSE IF final.failure # {} /\ model = "eventSourced" THEN memory ELSE shown
<1>1. model \in Entities /\ busy /\ Persisted = shown
  BY DEF EndEntity, ShownInv
<1>2. PICK r \in IF reply = {} THEN {ReplyMessage(shown)} ELSE reply :
        /\ reply' = {AddEffects(r, effects)}
        /\ answers' = <<CHOOSE a \in OrError(EntityAnswer(AddEffects(r, effects))) : TRUE>>
        /\ saved' = IF answers'[1].kind \in {"reply", "forward"} THEN Persisted ELSE saved
        /\ memory' = MemoryAfter(r, answers'[1].kind)
  BY DEF EndEntity
<1> DEFINE final == AddEffects(r, effects)
           a == CHOOSE b \in OrError(EntityAnswer(final)) : TRUE
<1>3. ReplyMessage(shown) \in ReplyOf
  BY RepliesAre DEF ReplyMessage, TckTypes
<1>4. r \in ReplyOf
  BY <1>2, <1>3 DEF TckTypes
<1>5. final \in ReplyOf
  BY <1>4, CallEffects, RepliesAre DEF TckTypes
<1>6. a \in OrError(EntityAnswer(final)) /\ a \in AnswerOf
  BY <1>5, Chosen, AnswerChosen
<1>7. final.failure = r.failure
  BY <1>4 DEF AddEffects, ReplyOf
<1>8. reply' = {final} /\ answers' = <<a>>
  BY <1>2
<1>9. \/ reply = {} /\ final = AddEffects(ReplyMessage(shown), effects)
      \/ \E q \in reply : final = AddEffects(q, effects)
  BY <1>2
<1> HIDE DEF final, a
<1>10. answers'[1] = a
  BY <1>8
<1>11. saved' = IF a.kind \in {"reply", "forward"} THEN shown ELSE saved
  BY <1>1, <1>2, <1>10
<1>12. memory' = IF a.kind = "error" THEN saved
                 ELSE IF final.failure # {} /\ model = "eventSourced" THEN memory ELSE shown
  BY <1>1, <1>2, <1>7, <1>10 DEF MemoryAfter
<1> QED BY <1>5, <1>6, <1>8, <1>9, <1>11, <1>12

LEMMA TckTypesEndEntity == ASSUME TckTypes, ShownInv, EndEntity PROVE TckTypes'
<1>1. PICK final \in ReplyOf, a \in AnswerOf :
        /\ reply' = {final} /\ answers' = <<a>>
        /\ saved' = IF a.kind \in {"reply", "forward"} THEN shown ELSE saved
        /\ memory' = IF a.kind = "error" THEN saved
                     ELSE IF final.failure # {} /\ model = "eventSourced" THEN memory ELSE shown
  BY EndEntityIs
<1>2. saved' \in KitText /\ memory' \in KitText
  BY <1>1 DEF TckTypes
<1>3. answers' \in Seq(AnswerOf)
  BY <1>1
<1>4. /\ busy' = FALSE /\ due' = fresh
      /\ UNCHANGED <<model, steps, shown, work, effects, kept, wanted, fresh>>
  BY DEF EndEntity
<1> QED BY <1>1, <1>2, <1>3, <1>4 DEF TckTypes

LEMMA TckTypesEnd ==
  ASSUME TckTypes, EndGroup \/ EndMessage \/ EndStream \/ EndOwn PROVE TckTypes'
<1>1. CASE EndGroup
  <2>1. /\ busy' \in BOOLEAN /\ UNCHANGED <<model, saved, memory, shown, work, effects, kept>>
        /\ due' = fresh /\ (fresh' = <<>> \/ fresh' = fresh) /\ (wanted' = "reply" \/ wanted' = wanted)
        /\ reply' = NewReply \/ reply' = reply
    BY <1>1 DEF EndGroup, entityVars
  <2>2. steps' \in 0 .. MaxSteps
    BY <1>1, TckAssumption DEF EndGroup, TckTypes
  <2>3. answers' \in Seq(AnswerOf)
    <3>1. PICK r \in reply : AnswersWith(r)
      BY <1>1 DEF EndGroup
    <3>2. r \in ReplyOf
      BY DEF TckTypes
    <3> QED BY <3>1, <3>2, AnswersOne
  <2>4. reply' = {} \/ \E r \in ReplyOf : reply' = {r}
    BY <2>1, NewReplyIs, RepliesAre DEF TckTypes
  <2>5. due' \in Seq({Call}) /\ fresh' \in Seq({Call})
    BY <2>1, CallEffects DEF TckTypes
  <2> QED BY <2>1, <2>2, <2>3, <2>4, <2>5 DEF TckTypes
<1>2. CASE EndMessage
  <2>1. /\ InRequest /\ UNCHANGED <<saved, memory, shown, work, effects, wanted>>
        /\ due' = due \o fresh /\ fresh' = <<>> /\ reply' = NewReply
    BY <1>2 DEF EndMessage, entityVars
  <2>2. reply' = {} \/ \E r \in ReplyOf : reply' = {r}
    BY <2>1, NewReplyIs, RepliesAre
  <2>3. kept' \in ReplyOf
    <3>1. PICK r \in reply : kept' = Merged(r)
      BY <1>2 DEF EndMessage
    <3>2. r \in ReplyOf /\ kept \in ReplyOf
      BY DEF TckTypes
    <3>3. r.effects \in Seq(AllMethods) /\ kept.effects \in Seq(AllMethods)
      BY <3>2 DEF ReplyOf
    <3> QED BY <3>1, <3>2, <3>3, RepliesAre DEF Merged
  <2>4. due' \in Seq({Call}) /\ fresh' \in Seq({Call})
    BY <2>1, CallEffects DEF TckTypes
  <2> QED BY <2>1, <2>2, <2>3, <2>4, InRequestTypes DEF TckTypes
<1>3. CASE EndStream
  <2>1. answers' \in Seq(AnswerOf)
    <3>1. AnswersWith(kept) /\ kept \in ReplyOf
      BY <1>3 DEF EndStream, TckTypes
    <3> QED BY <3>1, AnswersOne
  <2> QED BY <1>3, <2>1 DEF EndStream, TckTypes, entityVars
<1>4. CASE EndOwn
  <2>0. PICK r \in reply : \E as \in AnswersOfOwn(r) : answers' = <<CHOOSE a \in OrError(as) : TRUE>>
    BY <1>4 DEF EndOwn
  <2>1. PICK as \in AnswersOfOwn(r) : answers' = <<CHOOSE a \in OrError(as) : TRUE>>
    BY <2>0
  <2>2. r \in ReplyOf
    BY DEF TckTypes
  <2>3. as = EntityAnswer(r) \/ \E response : as = ActionAnswer(r, response)
    BY DEF AnswersOfOwn
  <2>4. (CHOOSE a \in OrError(as) : TRUE) \in AnswerOf
    BY <2>2, <2>3, AnswerChosen
  <2>5. answers' \in Seq(AnswerOf)
    BY <2>1, <2>4
  <2> QED BY <1>4, <2>5 DEF EndOwn, TckTypes, entityVars
<1> QED BY <1>1, <1>2, <1>3, <1>4

LEMMA TckTypesNext == ASSUME TckTypes, ShownInv, [TckNext]_tckVars PROVE TckTypes'
<1>1. CASE UNCHANGED tckVars
  BY <1>1 DEF tckVars, entityVars, TckTypes
<1> QED
  BY <1>1, TckTypesBegin, TckTypesChange, TckTypesReply, TckTypesEndEntity, TckTypesEnd DEF TckNext, Steps

----------------------------------------------------------------------------
(* What a handler was asked for is what it answers.                        *)

LEMMA FlattenType ==
  ASSUME NEW W, NEW ss \in Seq(Seq(W))
  PROVE  FlattenSeq(ss) \in Seq(W)
<1> DEFINE n == Len(ss)
<1>1. n \in Nat /\ \A i \in 1 .. n : ss[i] \in Seq(W)
  OBVIOUS
<1>2. CASE n = 0
  <2>1. ss = <<>>
    BY <1>2
  <2>2. <<>> \in Seq(W)
    OBVIOUS
  <2> QED BY <2>1, <2>2, FlattenNone
<1>3. CASE n # 0
  <2>1. PICK g : FlattenFcn(ss, n, g) /\ FlattenSeq(ss) = g[n]
    BY <1>1, <1>3, FlattenIs
  <2> HIDE DEF n
  <2> DEFINE S == {i \in Nat : i + 1 <= n => g[i + 1] \in Seq(W)}
  <2>2. 0 \in S
    BY <1>1, <2>1 DEF FlattenFcn
  <2>3. ASSUME NEW i \in Nat, i \in S PROVE i + 1 \in S
    <3> SUFFICES ASSUME i + 2 <= n PROVE g[i + 2] \in Seq(W)
      OBVIOUS
    <3>1. i + 2 \in 1 .. n /\ i + 2 # 1 /\ (i + 2) - 1 = i + 1 /\ i + 1 <= n
      BY <1>1
    <3>2. g[i + 2] = g[i + 1] \o ss[i + 2]
      BY <2>1, <3>1 DEF FlattenFcn
    <3> QED BY <1>1, <2>3, <3>1, <3>2
  <2>4. Nat \subseteq S
    <3> HIDE DEF S
    <3> QED BY <2>2, <2>3, Induction
  <2>5. n - 1 \in S
    <3>1. n - 1 \in Nat
      BY <1>1, <1>3
    <3> HIDE DEF S
    <3> QED BY <2>4, <3>1
  <2>6. (n - 1) + 1 = n /\ n <= n
    BY <1>1
  <2> QED BY <2>1, <2>5, <2>6
<1> QED BY <1>2, <1>3

(* A Reply with more side effects is otherwise the same. *)
LEMMA Added ==
  ASSUME NEW r \in ReplyOf, NEW methods
  PROVE  /\ KindOf(AddEffects(r, methods)) = KindOf(r)
         /\ WithoutMethod(AddEffects(r, methods)) <=> WithoutMethod(r)
         /\ IsEmpty(AddEffects(r, methods)) <=> IsEmpty(r)
         /\ AddEffects(r, methods).message = r.message
         /\ AddEffects(r, methods).failure = r.failure
         /\ AddEffects(r, methods).effects = r.effects \o methods
<1> DEFINE s == AddEffects(r, methods)
<1>1. /\ s.message = r.message /\ s.failure = r.failure /\ s.forward = r.forward
      /\ s.effects = r.effects \o methods
  BY DEF AddEffects, ReplyOf
<1> HIDE DEF s
<1>2. KindOf(s) = KindOf(r) /\ (WithoutMethod(s) <=> WithoutMethod(r)) /\ (IsEmpty(s) <=> IsEmpty(r))
  BY <1>1 DEF KindOf, SuccessKind, WithoutMethod, IsEmpty
<1> QED BY <1>1, <1>2 DEF s

LEMMA Made ==
  ASSUME NEW m
  PROVE  /\ KindOf(EmptyReply) = "reply" /\ IsEmpty(EmptyReply) /\ ~ WithoutMethod(EmptyReply)
         /\ EmptyReply.effects = <<>>
         /\ KindOf(ReplyMessage(m)) = "reply" /\ ~ IsEmpty(ReplyMessage(m))
         /\ ~ WithoutMethod(ReplyMessage(m)) /\ ReplyMessage(m).effects = <<>>
         /\ ReplyMessage(m).message = {m}
         /\ KindOf(ReplyForward(Call, m)) = "forward" /\ ~ IsEmpty(ReplyForward(Call, m))
         /\ ~ WithoutMethod(ReplyForward(Call, m)) /\ ReplyForward(Call, m).effects = <<>>
         /\ ReplyForward(Call, m).message = {}
         /\ KindOf(ReplyFailure(NoStatus)) = "failure" /\ ~ IsEmpty(ReplyFailure(NoStatus))
         /\ ~ WithoutMethod(ReplyFailure(NoStatus)) /\ ReplyFailure(NoStatus).effects = <<>>
         /\ ReplyFailure(NoStatus).message = {}
<1>1. /\ KindOf(EmptyReply) = "reply" /\ IsEmpty(EmptyReply) /\ ~ WithoutMethod(EmptyReply)
      /\ EmptyReply.effects = <<>>
  BY DEF KindOf, SuccessKind, WithoutMethod, IsEmpty, EmptyReply
<1>2. /\ KindOf(ReplyMessage(m)) = "reply" /\ ~ IsEmpty(ReplyMessage(m))
      /\ ~ WithoutMethod(ReplyMessage(m)) /\ ReplyMessage(m).effects = <<>>
      /\ ReplyMessage(m).message = {m}
  BY DEF KindOf, SuccessKind, WithoutMethod, IsEmpty, EmptyReply, ReplyMessage, SetMessage
<1>3. /\ KindOf(ReplyFailure(NoStatus)) = "failure" /\ ~ IsEmpty(ReplyFailure(NoStatus))
      /\ ~ WithoutMethod(ReplyFailure(NoStatus)) /\ ReplyFailure(NoStatus).effects = <<>>
      /\ ReplyFailure(NoStatus).message = {}
  BY DEF KindOf, SuccessKind, WithoutMethod, IsEmpty, EmptyReply, ReplyFailure, SetFailure
<1>4. /\ KindOf(ReplyForward(Call, m)) = "forward" /\ ~ IsEmpty(ReplyForward(Call, m))
      /\ ~ WithoutMethod(ReplyForward(Call, m)) /\ ReplyForward(Call, m).effects = <<>>
      /\ ReplyForward(Call, m).message = {}
  <2> DEFINE f == [SetMessage(EmptyReply, m) EXCEPT !.method = Call]
             r == ReplyForward(Call, m)
  <2>1. /\ r.forward = {f} /\ r.message = {} /\ r.failure = {} /\ r.effects = <<>>
        /\ f.method = Call
    BY DEF EmptyReply, ReplyForward, SetForward, SetMessage
  <2>2. Call.style # "none"
    BY TckAssumption
  <2> HIDE DEF f, r
  <2>3. KindOf(r) = "forward" /\ ~ IsEmpty(r) /\ ~ WithoutMethod(r)
    BY <2>1, <2>2 DEF KindOf, SuccessKind, WithoutMethod, IsEmpty
  <2> QED BY <2>1, <2>3 DEF r
<1> QED BY <1>1, <1>2, <1>3, <1>4

(* Begin, and the steps of a request, as far as they matter here. *)
LEMMA BeginIs ==
  ASSUME Begin
  PROVE  /\ busy' /\ model' = model /\ saved' = saved /\ memory' = memory /\ shown' = memory
         /\ work' = <<>> /\ effects' = <<>> /\ due' = <<>> /\ fresh' = <<>>
         /\ reply' = NewReply /\ kept' = EmptyReply /\ wanted' = "reply"
BY DEF Begin

Changes ==
  /\ busy /\ busy' /\ UNCHANGED <<model, saved, memory, reply, kept, effects, wanted, due, fresh>>
  /\ \/ /\ model = "eventSourced"
        /\ \E v \in Values : shown' = shown \o v /\ work' = Append(work, v)
     \/ /\ model = "value" /\ (wanted = "failure" => MixesFailure)
        /\ \E v : shown' = v /\ work' = <<v>>

LEMMA ChangesAre ==
  ASSUME Delete \/ \E v \in Values : Emit(v) \/ Update(v) PROVE Changes
<1>1. CASE Delete
  BY <1>1 DEF Delete, MayChange, InRequest, SameReply, Changes
<1>2. ASSUME NEW v \in Values, Emit(v) PROVE Changes
  BY <1>2 DEF Emit, InRequest, SameReply, Changes
<1>3. ASSUME NEW v \in Values, Update(v) PROVE Changes
  BY <1>3 DEF Update, MayChange, InRequest, SameReply, Changes
<1> QED BY <1>1, <1>2, <1>3

(* An answering step makes a Reply of its kind and none of the others. *)
AnswersStep ==
  /\ busy /\ busy' /\ model # "own"
  /\ UNCHANGED <<model, saved, memory, shown, work, effects, kept, due>>
  /\ fresh' = IF model \in Entities THEN fresh ELSE <<>>
  /\ \E r : /\ reply' = {r} /\ KindOf(r) = wanted' /\ ~ IsEmpty(r)
            /\ ~ WithoutMethod(r) /\ r.effects = <<>>
            /\ model \in Entities => r.message = {} /\ wanted' # "reply"
  /\ wanted' = "failure" /\ model = "value" /\ work # <<>> => MixesFailure

LEMMA AnswersStepIs ==
  ASSUME Fail \/ \E m \in Values : Forward(m) \/ ReplyStep(m) PROVE AnswersStep
<1>1. CASE Fail
  BY <1>1, Made DEF Fail, InRequest, Answering, AnswersStep, entityVars
<1>2. ASSUME NEW m \in Values, Forward(m) PROVE AnswersStep
  BY <1>2, Made DEF Forward, InRequest, Answering, AnswersStep, entityVars
<1>3. ASSUME NEW m \in Values, ReplyStep(m) PROVE AnswersStep
  <2>1. model \in Actions /\ model # "own" /\ model \notin Entities /\ model # "value"
    BY <1>3 DEF ReplyStep, Actions, Entities
  <2> QED BY <1>3, <2>1, Made DEF ReplyStep, InRequest, Answering, AnswersStep, entityVars
<1> QED BY <1>1, <1>2, <1>3

EffectStep ==
  /\ busy /\ busy'
  /\ UNCHANGED <<model, saved, memory, shown, work, kept, wanted, due>>
  /\ fresh' = Append(fresh, Call)
  /\ model \in Entities => effects' = Append(effects, Call) /\ reply' = reply
  /\ model \notin Entities => reply' = {AddEffects(r, <<Call>>) : r \in reply}

LEMMA EffectStepIs == ASSUME Effect PROVE EffectStep
BY DEF Effect, InRequest, EffectStep

LEMMA BuildIs == ASSUME Build PROVE model' = model /\ model = "own"
BY DEF Build, InRequest

LEMMA ModelsDiffer ==
  /\ Entities \cap Actions = {} /\ "own" \notin Entities \cup Actions
  /\ "streamedIn" \in Actions /\ {"unary", "streamedOut"} \subseteq Actions
  /\ model \in Models => model \in Entities \/ model \in Actions \/ model = "own"
  /\ model \in Entities => model = "eventSourced" \/ model = "value"
BY DEF Entities, Actions, Models

(* The steps that do not change the state a handler shows. *)
LEMMA EndsAre ==
  ASSUME EndGroup \/ EndMessage \/ EndStream \/ EndOwn PROVE model' = model /\ model \notin Entities
BY DEF EndGroup, EndMessage, EndStream, EndOwn, InRequest, Entities

LEMMA ShownNext == ASSUME TckTypes, ShownInv, [TckNext]_tckVars PROVE ShownInv'
<1>1. CASE Begin
  <2>1. memory \in Seq(Letters)
    BY DEF TckTypes, KitText
  <2>2. memory \o FlattenSeq(<<>>) = memory
    BY <2>1, FlattenNone
  <2> QED BY <1>1, <2>2, BeginIs DEF ShownInv, Persisted
<1>2. CASE Delete \/ \E v \in Values : Emit(v) \/ Update(v)
  <2>1. Changes
    BY <1>2, ChangesAre
  <2>2. ASSUME NEW v \in Values, model = "eventSourced", shown' = shown \o v, work' = Append(work, v)
        PROVE  ShownInv'
    <3>1. memory \in Seq(Letters) /\ v \in Seq(Letters) /\ work \in Seq(Seq(Letters))
      <4>1. work \in Seq(Values \cup {<<>>}) /\ Values \cup {<<>>} \subseteq Seq(Letters)
        BY ValuesAreTexts DEF TckTypes
      <4>2. \A S, T : S \subseteq T => Seq(S) \subseteq Seq(T)
        OBVIOUS
      <4>3. work \in Seq(Seq(Letters))
        BY <4>1, <4>2
      <4> QED BY <4>1, <4>3 DEF TckTypes, KitText
    <3>2. FlattenSeq(Append(work, v)) = FlattenSeq(work) \o v
      BY <3>1, FlattenAppend
    <3>3. FlattenSeq(work) \in Seq(Letters)
      BY <3>1, FlattenType
    <3>4. memory \o (FlattenSeq(work) \o v) = (memory \o FlattenSeq(work)) \o v
      BY <3>1, <3>3, ConcatAssociative
    <3>5. shown = memory \o FlattenSeq(work) /\ model' = model /\ memory' = memory
      BY <2>1, <2>2 DEF ShownInv, Persisted, Entities, Changes
    <3>6. shown' = memory' \o FlattenSeq(work')
      BY <2>2, <3>2, <3>4, <3>5
    <3> QED BY <2>2, <3>5, <3>6 DEF ShownInv, Persisted
  <2>3. ASSUME NEW v, model = "value", shown' = v, work' = <<v>>
        PROVE  ShownInv'
    BY <2>1, <2>3 DEF ShownInv, Persisted, Changes
  <2> QED BY <2>1, <2>2, <2>3 DEF Changes
<1>3. CASE Fail \/ \E m \in Values : Forward(m) \/ ReplyStep(m)
  <2>1. AnswersStep
    BY <1>3, AnswersStepIs
  <2> QED BY <2>1 DEF AnswersStep, ShownInv, Persisted
<1>4. CASE Effect
  BY <1>4, EffectStepIs DEF EffectStep, ShownInv, Persisted
<1>5. CASE Build
  BY <1>5, BuildIs, ModelsDiffer DEF ShownInv
<1>6. CASE EndGroup \/ EndMessage \/ EndStream \/ EndOwn
  BY <1>6, EndsAre DEF ShownInv
<1>7. CASE EndEntity \/ Restart
  BY <1>7 DEF EndEntity, Restart, ShownInv
<1>8. CASE UNCHANGED tckVars
  BY <1>8 DEF tckVars, entityVars, ShownInv, Persisted
<1> QED BY <1>1, <1>2, <1>3, <1>4, <1>5, <1>6, <1>7, <1>8 DEF TckNext, Steps

LEMMA EntityAskedNext == ASSUME TckTypes, EntityAsked, [TckNext]_tckVars PROVE EntityAsked'
<1>1. CASE Begin
  <2>1. model' \in Entities => reply' = {}
    BY <1>1, BeginIs DEF NewReply
  <2> QED BY <1>1, <2>1, BeginIs DEF EntityAsked
<1>2. CASE Delete \/ \E v \in Values : Emit(v) \/ Update(v)
  BY <1>2, ChangesAre DEF Changes, EntityAsked
<1>3. CASE Fail \/ \E m \in Values : Forward(m) \/ ReplyStep(m)
  <2>1. AnswersStep
    BY <1>3, AnswersStepIs
  <2> QED BY <2>1 DEF AnswersStep, EntityAsked
<1>4. CASE Effect
  BY <1>4, EffectStepIs DEF EffectStep, EntityAsked
<1>5. CASE Build
  BY <1>5, BuildIs, ModelsDiffer DEF EntityAsked
<1>6. CASE EndGroup \/ EndMessage \/ EndStream \/ EndOwn
  BY <1>6, EndsAre DEF EntityAsked
<1>7. CASE EndEntity \/ Restart
  BY <1>7 DEF EndEntity, Restart, EntityAsked
<1>8. CASE UNCHANGED tckVars
  BY <1>8 DEF tckVars, entityVars, EntityAsked
<1> QED BY <1>1, <1>2, <1>3, <1>4, <1>5, <1>6, <1>7, <1>8 DEF TckNext, Steps


LEMMA ActionAskedNext == ASSUME TckTypes, ActionAsked, [TckNext]_tckVars PROVE ActionAsked'
<1> DEFINE New == model \in Actions => NewReply = {EmptyReply}
<1>0. New
  BY ModelsDiffer DEF NewReply
<1>1. CASE Begin
  <2>1. model \in Actions => reply' = {EmptyReply}
    BY <1>0, <1>1, BeginIs
  <2> QED BY <1>1, <2>1, BeginIs, Made DEF ActionAsked
<1>2. CASE Delete \/ \E v \in Values : Emit(v) \/ Update(v)
  BY <1>2, ChangesAre DEF Changes, ActionAsked
<1>3. CASE Fail \/ \E m \in Values : Forward(m) \/ ReplyStep(m)
  <2>1. AnswersStep
    BY <1>3, AnswersStepIs
  <2> QED BY <2>1, ModelsDiffer DEF AnswersStep, ActionAsked
<1>4. CASE Effect
  <2> SUFFICES ASSUME model \in Actions PROVE ActionAsked'
    BY <1>4, EffectStepIs DEF EffectStep, ActionAsked
  <2>1. /\ busy /\ model' = model /\ wanted' = wanted /\ fresh' = Append(fresh, Call)
        /\ reply' = {AddEffects(r, <<Call>>) : r \in reply}
    BY <1>4, EffectStepIs, ModelsDiffer DEF EffectStep
  <2>2. ASSUME NEW r \in reply
        PROVE  /\ AddEffects(r, <<Call>>).effects = fresh' /\ ~ WithoutMethod(AddEffects(r, <<Call>>))
               /\ KindOf(AddEffects(r, <<Call>>)) = KindOf(r)
    <3>1. r \in ReplyOf /\ r.effects = fresh /\ ~ WithoutMethod(r)
      BY <2>1 DEF ActionAsked, TckTypes
    <3>2. fresh \in Seq({Call})
      BY DEF TckTypes
    <3>3. fresh \o <<Call>> = Append(fresh, Call)
      BY <3>2
    <3> QED BY <2>1, <3>1, <3>3, Added
  <2> QED BY <2>1, <2>2 DEF ActionAsked
<1>5. CASE Build
  BY <1>5, BuildIs, ModelsDiffer DEF ActionAsked
<1>6. CASE EndGroup
  <2>1. /\ model' = model /\ model \in Actions /\ busy
        /\ busy' => reply' = NewReply /\ fresh' = <<>> /\ wanted' = "reply"
    BY <1>6, ModelsDiffer DEF EndGroup
  <2>2. busy' => reply' = {EmptyReply}
    BY <1>0, <2>1
  <2> QED BY <2>1, <2>2, Made DEF ActionAsked
<1>7. CASE EndMessage
  <2>1. model' = model /\ model = "streamedIn" /\ reply' = NewReply /\ fresh' = <<>>
    BY <1>7 DEF EndMessage, InRequest
  <2>2. reply' = {EmptyReply}
    BY <1>0, <2>1, ModelsDiffer
  <2> QED BY <2>1, <2>2, Made DEF ActionAsked
<1>8. CASE EndStream \/ EndEntity \/ EndOwn \/ Restart
  BY <1>8, ModelsDiffer DEF EndStream, EndEntity, EndOwn, Restart, ActionAsked
<1>9. CASE UNCHANGED tckVars
  BY <1>9 DEF tckVars, entityVars, ActionAsked
<1> QED BY <1>1, <1>2, <1>3, <1>4, <1>5, <1>6, <1>7, <1>8, <1>9 DEF TckNext, Steps

LEMMA StreamAskedNext ==
  ASSUME TckTypes, ActionAsked, StreamAsked, [TckNext]_tckVars PROVE StreamAsked'
<1> SUFFICES ASSUME model' = "streamedIn", busy' PROVE StreamAsked'
  BY DEF StreamAsked
<1>0. model = "streamedIn" /\ model \in Actions /\ model \notin Entities /\ model # "own"
  <2>1. model' = model
    BY DEF TckNext, Steps, tckVars, Begin, Restart, Emit, Update, MayChange, Forward, ReplyStep,
           Delete, Fail, Effect, Build, InRequest, EndEntity, EndGroup, EndMessage, EndStream, EndOwn
  <2> QED BY <2>1, ModelsDiffer
<1>1. CASE Begin
  <2>1. reply' = {EmptyReply}
    BY <1>0, <1>1, BeginIs DEF NewReply
  <2> QED BY <1>1, <2>1, BeginIs, Made DEF StreamAsked
<1>2. CASE Delete \/ \E v \in Values : Emit(v) \/ Update(v)
  BY <1>0, <1>2, ChangesAre DEF Changes
<1>3. CASE Fail \/ \E m \in Values : Forward(m) \/ ReplyStep(m)
  <2>1. AnswersStep
    BY <1>3, AnswersStepIs
  <2> QED BY <1>0, <2>1 DEF AnswersStep, StreamAsked
<1>4. CASE Effect
  <2>1. /\ busy /\ kept' = kept /\ due' = due /\ wanted' = wanted
        /\ reply' = {AddEffects(r, <<Call>>) : r \in reply}
    BY <1>0, <1>4, EffectStepIs DEF EffectStep
  <2>2. ASSUME NEW r \in reply
        PROVE  /\ KindOf(AddEffects(r, <<Call>>)) = KindOf(r)
               /\ IsEmpty(AddEffects(r, <<Call>>)) <=> IsEmpty(r)
    BY Added DEF TckTypes
  <2> QED BY <1>0, <2>1, <2>2 DEF StreamAsked
<1>5. CASE Build
  BY <1>0, <1>5, BuildIs
<1>6. CASE EndMessage
  <2>1. PICK r \in reply : kept' = Merged(r)
    BY <1>6 DEF EndMessage
  <2>2. /\ busy /\ reply' = NewReply /\ due' = due \o fresh /\ wanted' = wanted
    BY <1>6 DEF EndMessage, InRequest
  <2>3. reply' = {EmptyReply}
    BY <1>0, <2>2 DEF NewReply
  <2>4. /\ r \in ReplyOf /\ kept \in ReplyOf /\ r.effects = fresh /\ ~ WithoutMethod(r)
        /\ Len(kept.effects) = Len(due) /\ ~ WithoutMethod(kept)
        /\ KindOf(IF IsEmpty(r) THEN kept ELSE r) = wanted
    BY <1>0, <2>2 DEF TckTypes, ActionAsked, StreamAsked
  <2>5. /\ kept.effects \in Seq(AllMethods) /\ r.effects \in Seq(AllMethods)
        /\ due \in Seq({Call}) /\ fresh \in Seq({Call})
    BY <2>4 DEF ReplyOf, TckTypes
  <2>6. /\ Len(kept.effects \o r.effects) = Len(due) + Len(fresh)
        /\ Len(r.effects \o kept.effects) = Len(due) + Len(fresh)
        /\ Len(due \o fresh) = Len(due) + Len(fresh)
    BY <2>4, <2>5
  <2>7. Len(kept'.effects) = Len(due') /\ ~ WithoutMethod(kept') /\ KindOf(kept') = wanted
    <3>1. CASE IsEmpty(r)
      BY <2>1, <2>2, <2>4, <2>6, <3>1, Added DEF Merged
    <3>2. CASE ~ IsEmpty(r)
      BY <2>1, <2>2, <2>4, <2>6, <3>2, Added DEF Merged
    <3> QED BY <3>1, <3>2
  <2> QED BY <2>2, <2>3, <2>7, Made DEF StreamAsked
<1>7. CASE EndGroup \/ EndStream \/ EndEntity \/ EndOwn \/ Restart
  BY <1>0, <1>7 DEF EndGroup, EndStream, EndEntity, EndOwn, Restart, Entities
<1>8. CASE UNCHANGED tckVars
  BY <1>8 DEF tckVars, entityVars, StreamAsked
<1> QED BY <1>1, <1>2, <1>3, <1>4, <1>5, <1>6, <1>7, <1>8 DEF TckNext, Steps

(* What an entity answers at the end of a request. *)
LEMMA EntityEnds ==
  ASSUME TckTypes, ShownInv, EntityAsked, EndEntity
  PROVE  \E a \in AnswerOf :
           /\ answers' = <<a>>
           /\ saved' = IF a.kind \in {"reply", "forward"} THEN shown ELSE saved
           /\ a.kind = "error" => memory' = saved
           /\ a.kind \in {"reply", "forward"} => memory' = shown
           /\ a.kind = "failure" => memory' = IF model = "eventSourced" THEN memory ELSE shown
           /\ a.kind = "reply" => a.payload = {shown}
           /\ a.kind # "error" =>
                /\ a.kind = wanted
                /\ Len(a.effects) = IF wanted = "failure" THEN 0 ELSE Len(fresh)
<1>1. PICK final \in ReplyOf, a \in AnswerOf :
        /\ \/ reply = {} /\ final = AddEffects(ReplyMessage(shown), effects)
           \/ \E r \in reply : final = AddEffects(r, effects)
        /\ reply' = {final} /\ answers' = <<a>>
        /\ a \in OrError(EntityAnswer(final))
        /\ saved' = IF a.kind \in {"reply", "forward"} THEN shown ELSE saved
        /\ memory' = IF a.kind = "error" THEN saved
                     ELSE IF final.failure # {} /\ model = "eventSourced" THEN memory ELSE shown
  BY EndEntityIs
<1>2. model \in Entities /\ busy
  BY DEF EndEntity
<1>3. effects \in Seq({Call}) /\ effects = fresh /\ <<>> \o effects = effects
  <2>1. effects \in Seq({Call}) /\ effects = fresh
    BY <1>2 DEF TckTypes, EntityAsked
  <2> QED BY <2>1
<1>4. /\ KindOf(final) = wanted /\ final.effects = fresh
      /\ wanted = "reply" => final.message = {shown}
  <2>1. CASE reply = {} /\ final = AddEffects(ReplyMessage(shown), effects)
    <3>1. ReplyMessage(shown) \in ReplyOf
      BY RepliesAre DEF ReplyMessage, TckTypes
    <3>2. wanted = "reply"
      BY <1>2, <2>1 DEF EntityAsked
    <3> DEFINE r == ReplyMessage(shown)
    <3>3. KindOf(r) = "reply" /\ r.effects = <<>> /\ r.message = {shown}
      BY Made
    <3>4. /\ KindOf(final) = KindOf(r) /\ final.effects = r.effects \o effects
          /\ final.message = r.message
      BY <2>1, <3>1, Added
    <3> HIDE DEF r
    <3> QED BY <1>3, <3>2, <3>3, <3>4
  <2>2. ASSUME NEW r \in reply, final = AddEffects(r, effects)
        PROVE  KindOf(final) = wanted /\ final.effects = fresh /\ wanted # "reply"
    <3>1. r \in ReplyOf /\ r.effects = <<>> /\ KindOf(r) = wanted /\ wanted # "reply"
      BY <1>2 DEF TckTypes, EntityAsked
    <3> QED BY <1>3, <2>2, <3>1, Added
  <2> QED BY <1>1, <2>1, <2>2
<1>5. /\ a.kind # "error" =>
           /\ a.kind = wanted
           /\ Len(a.effects) = IF wanted = "failure" THEN 0 ELSE Len(fresh)
      /\ a.kind = "reply" => a.payload = {shown}
  BY <1>1, <1>4, EntityAnswers
<1>6. /\ KindOf(final) = "failure" <=> final.failure # {}
      /\ a.kind \in {"reply", "forward"} => final.failure = {}
      /\ a.kind = "failure" => final.failure # {}
  <2>1. KindOf(final) = "failure" <=> final.failure # {}
    BY DEF KindOf, SuccessKind
  <2> QED BY <1>4, <1>5, <2>1
<1>7. /\ a.kind = "error" => memory' = saved
      /\ a.kind \in {"reply", "forward"} => memory' = shown
      /\ a.kind = "failure" => memory' = IF model = "eventSourced" THEN memory ELSE shown
  BY <1>1, <1>6
<1> QED BY <1>1, <1>5, <1>7

LEMMA KeptNext ==
  ASSUME TckTypes, ShownInv, EntityAsked, KeptInv, ~ MixesFailure, [TckNext]_tckVars PROVE KeptInv'
<1>1. CASE Begin
  BY <1>1, BeginIs DEF KeptInv
<1>2. CASE Delete \/ \E v \in Values : Emit(v) \/ Update(v)
  <2>1. Changes
    BY <1>2, ChangesAre
  <2>2. model' = model /\ saved' = saved /\ memory' = memory /\ wanted' = wanted /\ busy
    BY <2>1 DEF Changes
  <2>3. model = "eventSourced" \/ wanted # "failure"
    BY <2>1 DEF Changes
  <2> QED BY <2>2, <2>3 DEF KeptInv
<1>3. CASE Fail \/ \E m \in Values : Forward(m) \/ ReplyStep(m)
  <2>1. AnswersStep
    BY <1>3, AnswersStepIs
  <2> QED BY <2>1 DEF AnswersStep, KeptInv
<1>4. CASE Effect
  BY <1>4, EffectStepIs DEF EffectStep, KeptInv
<1>5. CASE Build
  BY <1>5, BuildIs, ModelsDiffer DEF KeptInv
<1>6. CASE EndGroup \/ EndMessage \/ EndStream \/ EndOwn
  BY <1>6, EndsAre DEF KeptInv
<1>7. CASE Restart
  BY <1>7 DEF Restart, KeptInv
<1>8. CASE EndEntity
  <2>1. model' = model /\ model \in Entities /\ busy /\ busy' = FALSE
    BY <1>8 DEF EndEntity
  <2>2. PICK a \in AnswerOf :
          /\ saved' = IF a.kind \in {"reply", "forward"} THEN shown ELSE saved
          /\ a.kind = "error" => memory' = saved
          /\ a.kind \in {"reply", "forward"} => memory' = shown
          /\ a.kind = "failure" => memory' = IF model = "eventSourced" THEN memory ELSE shown
          /\ a.kind # "error" => a.kind = wanted
    BY <1>8, EntityEnds
  <2>3. a.kind \in AnswerKinds
    BY DEF AnswerOf
  <2>4. memory = saved
    BY <2>1 DEF KeptInv
  <2>5. CASE a.kind = "failure" /\ model # "eventSourced"
    <3>1. model = "value" /\ wanted = "failure"
      BY <2>1, <2>2, <2>5, ModelsDiffer
    <3>2. shown = memory
      BY <2>1, <3>1 DEF KeptInv, ShownInv, Persisted
    <3> QED BY <2>1, <2>2, <2>4, <2>5, <3>2 DEF KeptInv
  <2>6. CASE ~ (a.kind = "failure" /\ model # "eventSourced")
    BY <2>1, <2>2, <2>3, <2>4, <2>6 DEF KeptInv, AnswerKinds
  <2> QED BY <2>5, <2>6
<1>9. CASE UNCHANGED tckVars
  BY <1>9 DEF tckVars, entityVars, KeptInv
<1> QED BY <1>1, <1>2, <1>3, <1>4, <1>5, <1>6, <1>7, <1>8, <1>9 DEF TckNext, Steps

(* Only the end of a request answers it. *)
LEMMA AnswersOnlyAtEnd ==
  ASSUME [TckNext]_tckVars
  PROVE  \/ busy'
         \/ EndEntity \/ EndGroup \/ EndStream \/ EndOwn
         \/ UNCHANGED <<model, busy, saved, wanted, due, answers>>
<1>1. CASE Begin \/ Steps \/ EndMessage
  BY <1>1 DEF Begin, Steps, EndMessage, Emit, Update, MayChange, Forward, ReplyStep, Delete, Fail,
              Effect, Build, InRequest
<1>2. CASE Restart \/ UNCHANGED tckVars
  BY <1>2 DEF Restart, tckVars, entityVars
<1> QED BY <1>1, <1>2 DEF TckNext

(* With what is kept, the state that is shown. *)
Shows ==
  model \in Entities /\ IsAnswered => (LastAnswer.kind = "reply" => LastAnswer.payload = {saved})

LEMMA ShowsNext ==
  ASSUME TckTypes, ShownInv, EntityAsked, Shows, [TckNext]_tckVars PROVE Shows'
<1>1. CASE EndEntity
  <2>1. PICK a \in AnswerOf :
          /\ answers' = <<a>> /\ saved' = IF a.kind \in {"reply", "forward"} THEN shown ELSE saved
          /\ a.kind = "reply" => a.payload = {shown}
    BY <1>1, EntityEnds
  <2>2. LastAnswer' = a
    BY <2>1 DEF LastAnswer
  <2> QED BY <2>1, <2>2 DEF Shows
<1>2. CASE EndGroup \/ EndStream \/ EndOwn
  BY <1>2, EndsAre DEF Shows
<1>3. CASE busy' \/ UNCHANGED <<model, busy, saved, wanted, due, answers>>
  BY <1>3 DEF Shows, IsAnswered, LastAnswer
<1> QED BY <1>1, <1>2, <1>3, AnswersOnlyAtEnd

LEMMA AsAskedNext ==
  ASSUME TckTypes, ShownInv, EntityAsked, ActionAsked, StreamAsked, AnswersAsAsked,
         [TckNext]_tckVars
  PROVE  AnswersAsAsked'
<1>1. CASE EndEntity
  <2>1. PICK a \in AnswerOf :
          /\ answers' = <<a>>
          /\ a.kind # "error" =>
               a.kind = wanted /\ Len(a.effects) = IF wanted = "failure" THEN 0 ELSE Len(fresh)
    BY <1>1, EntityEnds
  <2>2. LastAnswer' = a
    BY <2>1 DEF LastAnswer
  <2>3. model' = model /\ model \in Entities /\ wanted' = wanted /\ due' = fresh
    BY <1>1 DEF EndEntity
  <2> QED BY <2>1, <2>2, <2>3 DEF AnswersAsAsked
<1>2. ASSUME NEW r \in ReplyOf, AnswersWith(r), ~ WithoutMethod(r), KindOf(r) = wanted',
             Len(r.effects) = Len(due'), model' \notin Entities
      PROVE  AnswersAsAsked'
  <2>1. PICK a \in OrError(ActionAnswer(r, "typed")) : answers' = Append(answers, a)
    BY <1>2, AnswersOne
  <2>2. LastAnswer' = a
    <3>1. answers \in Seq(AnswerOf)
      BY DEF TckTypes
    <3> QED BY <2>1, <3>1 DEF LastAnswer
  <2>3. a.kind # "error" => a.kind = wanted' /\ Len(a.effects) = Len(due')
    BY <1>2, ActionAnswers
  <2> QED BY <1>2, <2>2, <2>3 DEF AnswersAsAsked
<1>3. CASE EndGroup /\ ~ busy'
  <2>1. PICK r \in reply : AnswersWith(r)
    BY <1>3 DEF EndGroup
  <2>2. model' = model /\ model \in Actions /\ model # "streamedIn" /\ model \notin Entities
    BY <1>3 DEF EndGroup, Actions, Entities
  <2>3. busy /\ wanted' = wanted /\ due' = fresh
    BY <1>3 DEF EndGroup
  <2>4. r \in ReplyOf /\ r.effects = fresh /\ ~ WithoutMethod(r) /\ KindOf(r) = wanted
    BY <2>2, <2>3 DEF ActionAsked, TckTypes
  <2> QED BY <1>2, <2>1, <2>2, <2>3, <2>4
<1>4. CASE EndStream
  <2>1. /\ AnswersWith(kept) /\ model' = model /\ model = "streamedIn" /\ busy
        /\ wanted' = wanted /\ due' = due /\ reply = {EmptyReply}
    BY <1>4 DEF EndStream
  <2>2. kept \in ReplyOf /\ ~ WithoutMethod(kept) /\ Len(kept.effects) = Len(due) /\ KindOf(kept) = wanted
    BY <2>1, Made DEF TckTypes, StreamAsked
  <2>3. model \notin Entities
    BY <2>1 DEF Entities
  <2> QED BY <1>2, <2>1, <2>2, <2>3
<1>5. CASE EndOwn
  BY <1>5 DEF EndOwn, AnswersAsAsked
<1>6. CASE busy' \/ UNCHANGED <<model, busy, saved, wanted, due, answers>>
  BY <1>6 DEF AnswersAsAsked, IsAnswered, LastAnswer
<1> QED BY <1>1, <1>3, <1>4, <1>5, <1>6, AnswersOnlyAtEnd

LEMMA TckTypesTypeOK == TckTypes => TckTypeOK
<1> SUFFICES ASSUME TckTypes PROVE TckTypeOK
  OBVIOUS
<1>1. \A value \in {saved, memory, shown} : value \in Seq(Letters) /\ Len(value) <= MaxState
  BY DEF TckTypes, KitText
<1>2. Cardinality(reply) <= 1
  <2>1. Cardinality({}) = 0 /\ \A r : Cardinality({r}) = 1
    BY FS_EmptySet, FS_Singleton
  <2>2. reply = {} \/ \E r : reply = {r}
    BY DEF TckTypes
  <2>3. 0 <= 1 /\ 1 <= 1
    OBVIOUS
  <2> QED BY <2>1, <2>2, <2>3
<1>3. ASSUME NEW i \in DOMAIN answers
      PROVE  /\ answers[i].kind \in AnswerKinds /\ answers[i].to \subseteq Targets
             /\ answers[i].effects \in Seq(Targets)
  <2>1. answers[i] \in AnswerOf
    BY DEF TckTypes
  <2> QED BY <2>1 DEF AnswerOf
<1>4. \A methods \in {effects, due, fresh} : methods \in Seq({Call})
  BY DEF TckTypes
<1> QED BY <1>1, <1>2, <1>3, <1>4 DEF TckTypes, TckTypeOK, Letters

TckInv == TckTypes /\ ShownInv /\ EntityAsked /\ ActionAsked /\ StreamAsked /\ AnswersAsAsked
TckKept == KeptInv /\ Shows

LEMMA TckInvInit == TckInit => TckInv /\ TckKept
<1> SUFFICES ASSUME TckInit PROVE TckInv /\ TckKept
  OBVIOUS
<1>1. busy = FALSE /\ answers = <<>> /\ memory = saved
  BY DEF TckInit
<1>2. TckTypes
  BY TckTypesInit
<1> QED BY <1>1, <1>2
  DEF TckInv, TckKept, ShownInv, EntityAsked, ActionAsked, StreamAsked, AnswersAsAsked, KeptInv,
      Shows, IsAnswered

LEMMA TckInvNext == ASSUME TckInv, [TckNext]_tckVars PROVE TckInv'
BY TckTypesNext, ShownNext, EntityAskedNext, ActionAskedNext, StreamAskedNext, AsAskedNext DEF TckInv

LEMMA TckKeptNext ==
  ASSUME TckInv, TckKept, ~ MixesFailure, [TckNext]_tckVars PROVE TckKept'
BY KeptNext, ShowsNext DEF TckInv, TckKept

LEMMA TckShows == TckKept => AnswerShowsState
BY DEF TckKept, KeptInv, Shows, AnswerShowsState

LEMMA TckInvariant == LibrarySpec => []TckInv
<1>1. LibraryInit => TckInv
  BY TckInvInit DEF LibraryInit
<1>2. TckInv /\ [LibraryNext]_libraryVars => TckInv'
  BY LibraryStep, TckInvNext
<1> QED BY <1>1, <1>2, PTL DEF LibrarySpec

(* AnswerShowsState, when a request to the value entity does not both      *)
(* change its state and fail.                                              *)
THEOREM ShownTheorem == ASSUME ~ MixesFailure PROVE LibrarySpec => []AnswerShowsState
<1>1. LibraryInit => TckInv /\ TckKept
  BY TckInvInit DEF LibraryInit
<1>2. TckInv /\ TckKept /\ [LibraryNext]_libraryVars => (TckInv /\ TckKept)'
  BY LibraryStep, TckInvNext, TckKeptNext
<1>3. TckKept => AnswerShowsState
  BY TckShows
<1> QED BY <1>1, <1>2, <1>3, PTL DEF LibrarySpec

(* AnswersAsAsked, whatever the steps of a request. *)
THEOREM AskedTheorem == LibrarySpec => []AnswersAsAsked
<1>1. TckInv => AnswersAsAsked
  BY DEF TckInv
<1> QED BY <1>1, TckInvariant, PTL

----------------------------------------------------------------------------
(* The types of all parts.                                                 *)

(* TypeOK, when a context goes with one call of a mock only: one that was  *)
(* given to two records the events of both.                                *)
THEOREM TypeTheorem == ASSUME "reusesContext" \notin Habits PROVE LibrarySpec => []TypeOK
<1> DEFINE Types == part \in Parts /\ ServicesTypes /\ MocksTypes /\ MetadataTypes /\ ValuesInv /\ ViewTypes /\ TckInv
<1>1. LibraryInit => Types
  <2> QED BY MetadataTypesInit, ServicesTypesInit, MocksTypesInit, ValuesInvInit, ViewTypesInit, TckInvInit DEF LibraryInit
<1>2. Types /\ [LibraryNext]_libraryVars => Types'
  <2>1. [LibraryNext]_libraryVars => part' = part
    BY DEF LibraryNext, libraryVars
  <2> QED BY <2>1, LibraryStep, ServicesTypesNext, MocksTypesNext, MetadataTypesNext, ValuesInvNext, ViewTypesNext,
             TckInvNext
<1>3. Types => TypeOK
  <2>1. TckInv => TckTypeOK
    BY TckTypesTypeOK DEF TckInv
  <2> QED BY <2>1, ServicesTyped, MocksTyped, MetadataTyped, ValuesTyped, ViewTyped DEF TypeOK
<1> HIDE DEF Types
<1> QED BY <1>1, <1>2, <1>3, PTL DEF LibrarySpec
=============================================================================
