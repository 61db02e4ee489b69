-------------------------- MODULE ComponentServices --------------------------
(***************************************************************************)
(* Components, the services they are added to and the gRPC clients they    *)
(* are given (sdk/src/kalix.ts, the component classes, the addService of   *)
(* the support classes, grpc-util.ts).  The support of each type of        *)
(* component is one object of the process, whatever the number of          *)
(* services, and so is each component: two services of one process, such   *)
(* as those of the suites of a test run, share them.                       *)
(*                                                                         *)
(* A component is a record [type, name, options], type being the last part *)
(* of its component type and name the parts of its service's name.  An address is      *)
(* [intends, dotted, likeProxy]: whom its user means by it, and what       *)
(* createClient looks at.  Binding and shutdown are KalixService's.        *)
(***************************************************************************)
EXTENDS Naturals, Sequences, FiniteSets, TLC, SequencesExt

CONSTANTS
    Hosts,              \* the services (objects of class Kalix) of the process
    Components,
    Identity,           \* proxy -> "none", "self", "dev" or "broken" identification info
    Addresses,          \* what createClient is called with
    Metadatas,          \* the grpc.Metadata objects of the user
    MaxClients,         \* bound: clients created
    MaxRequests,        \* bound: requests sent
    Overlapping,        \* may services of the process run at the same time?
    LateComponents,     \* may a component be added after start?
    ReusesMetadata      \* may a Metadata object go with a second request?

ASSUME ComponentServicesAssumption ==
    /\ {MaxClients, MaxRequests} \subseteq Nat
    /\ {Overlapping, LateComponents, ReusesMetadata} \subseteq BOOLEAN

VARIABLES
    added,      \* service -> its components
    serving,    \* service -> "new", "up" or "down"
    supports,   \* the process's supports: <<type, name>> -> what handles that service
    told,       \* service -> the descriptions of its last discovery, and by whom
    clientsOf,  \* component -> {} or the proxy its client creators are for
    created,    \* the clients in use
    headers,    \* Metadata object -> the identification headers in it
    request,    \* the last request, {} before the first
    requests    \* how many there were

servicesVars == <<added, serving, supports, told, clientsOf, created, headers, request, requests>>

Proxies == DOMAIN Identity
Keys == {<<c.type, c.name>> : c \in Components}

ServicesInit ==
    /\ added = [k \in Hosts |-> {}]
    /\ serving = [k \in Hosts |-> "new"]
    /\ supports = [key \in Keys |-> {}]
    /\ told = [k \in Hosts |-> [by |-> {}, components |-> {}]]
    /\ clientsOf = [c \in Components |-> {}]
    /\ created = {} /\ request = {} /\ requests = 0
    /\ headers = [m \in Metadatas |-> <<>>]

clientVars == <<created, headers, request, requests>>

(***************************************************************************)
(* Construction: what a constructor makes of a service's name and the      *)
(* options given, which go over the defaults; {} if it throws.  A time or  *)
(* a consistency of 0 is none, the consistency LOCAL is 0.                 *)
(***************************************************************************)
Defaults == [forwardHeaders |-> {}, timeout |-> 0, writeConsistency |-> 0]

\* The given options go over the entity type too.
NewEntity(type, name, entityType, given) ==
    {[type |-> type, name |-> name, options |-> given @@ [entityType |-> e] @@ Defaults] :
        e \in {entityType} \ {""}}

NewAction(name, given) ==
    {[type |-> "Actions", name |-> name, options |-> given @@ Defaults]}

\* The id of a view, by default the last part of its service's name, is sent
\* as its entity type.
NewView(name, given) ==
    LET viewId == given @@ [viewId |-> name[Len(name)]]
    IN  {[type |-> "Views", name |-> name,
          options |-> [entityType |-> viewId.viewId] @@ viewId @@ Defaults]}

(***************************************************************************)
(* Registration.                                                           *)
(***************************************************************************)

\* A service has one component for a service name.
AddComponent(k, c) ==
    /\ serving[k] = "new" \/ (LateComponents /\ serving[k] = "up")
    /\ \A d \in added[k] : d.name # c.name
    /\ added' = [added EXCEPT ![k] = @ \cup {c}]
    /\ UNCHANGED <<serving, supports, told, clientsOf, clientVars>>

\* The service names an effect or a forward may go to.
ServiceMap(k) == {c.name : c \in added[k]}

RegisterFirst(k) ==
    [key \in Keys |->
        IF supports[key] # {} THEN supports[key]
        ELSE {[component |-> c, siblings |-> ServiceMap(k)] :
                  c \in {d \in added[k] : <<d.type, d.name>> = key}}]

\* addService: the last component registered for a name handles it.
Register(k) ==
    [key \in Keys |->
        LET own == {d \in added[k] : <<d.type, d.name>> = key}
        IN  IF own = {} THEN supports[key]
            ELSE {[component |-> c, siblings |-> ServiceMap(k)] : c \in own}]

StartService(k) ==
    /\ serving[k] = "new"
    /\ \A j \in Hosts : serving[j] = "up" => Overlapping
    /\ supports' = Register(k)
    /\ serving' = [serving EXCEPT ![k] = "up"]
    /\ UNCHANGED <<added, told, clientsOf, clientVars>>

StopService(k) ==
    /\ serving[k] = "up"
    /\ serving' = [serving EXCEPT ![k] = "down"]
    /\ UNCHANGED <<added, supports, told, clientsOf, clientVars>>

(***************************************************************************)
(* Discovery.                                                              *)
(***************************************************************************)
EntityTypes == {"EventSourcedEntities", "ValueEntities", "ReplicatedEntities"}

\* The settings a component's options make; a timeout or a consistency of 0
\* is left out.
EntitySettings(options) ==
    [entityType |-> options.entityType, forwardHeaders |-> options.forwardHeaders,
     timeout |-> IF options.timeout = 0 THEN {} ELSE {options.timeout},
     writeConsistency |-> IF options.writeConsistency = 0 THEN {} ELSE {options.writeConsistency}]

ViewSettings(options) ==
    [EntitySettings(options) EXCEPT !.timeout = {}, !.writeConsistency = {}]

Describe(c) ==
    [serviceName |-> c.name, componentType |-> c.type,
     entity |-> IF c.type \in EntityTypes THEN {EntitySettings(c.options)}
                ELSE IF c.type = "Views" THEN {ViewSettings(c.options)} ELSE {},
     component |-> IF c.type = "Actions" THEN {[forwardHeaders |-> c.options.forwardHeaders]} ELSE {}]

\* preStart does nothing in a view, and throws when there is a header without
\* its token: discovery goes on without it.
PreStart(c, p) == IF c.type = "Views" \/ Identity[p] = "broken" THEN clientsOf[c] ELSE {p}

DiscoverComponents(k, p) ==
    /\ serving[k] = "up"
    /\ told' = [told EXCEPT ![k] = [by |-> {p}, components |-> {Describe(c) : c \in added[k]}]]
    /\ clientsOf' = [c \in Components |->
                        IF c \in added[k] THEN PreStart(c, p) ELSE clientsOf[c]]
    /\ UNCHANGED <<added, serving, supports, clientVars>>

(***************************************************************************)
(* Clients.                                                                *)
(***************************************************************************)
NoAddress == [intends |-> "self", given |-> FALSE, dotted |-> FALSE, likeProxy |-> FALSE]

\* The order of the tests: a dot, the proxy's name in front.
ServiceType(address) ==
    CASE ~address.given                                                -> "SELF"
      [] address.given /\ address.dotted                               -> "EXTERNAL"
      [] address.given /\ ~address.dotted /\ address.likeProxy         -> "SELF"
      [] address.given /\ ~address.dotted /\ ~address.likeProxy        -> "KALIX_SERVICE"

\* The header each request of a client is patched with, by its type.
AuthHeader(type, p) ==
    CASE type = "SELF" /\ Identity[p] \in {"self", "dev"}    -> <<[token |-> "self", of |-> p]>>
      [] type = "KALIX_SERVICE" /\ Identity[p] = "dev"       -> <<[token |-> "name", of |-> p]>>
      [] OTHER                                               -> <<>>

CreateClient(c, address) ==
    /\ clientsOf[c] # {} /\ Cardinality(created) < MaxClients
    /\ \E p \in clientsOf[c] :
           created' = created \cup {[owner |-> c, proxy |-> p, address |-> address,
                                     header |-> AuthHeader(ServiceType(address), p)]}
    /\ UNCHANGED <<added, serving, supports, told, clientsOf, headers, request, requests>>

\* A client goes on being for its proxy when its component's are for another.
UsesClient(client) ==
    /\ client \in created /\ requests < MaxRequests
    /\ requests' = requests + 1

Sent(client, hs) == {[to |-> client.address.intends, proxy |-> client.proxy, by |-> client.owner, headers |-> hs]}

exceptCalls == <<added, serving, supports, told, clientsOf, created>>

\* What a method of the client is called with.  promisify adds the callback
\* of a unary call.
MethodKinds == {"unary", "clientStreaming", "serverStreaming", "bidirectional"}
Message(kind) == IF kind \in {"unary", "serverStreaming"} THEN <<"message">> ELSE <<>>
Callback(kind) == IF kind \in {"unary", "clientStreaming"} THEN <<"callback">> ELSE <<>>
Arguments(kind) == Message(kind) \o Callback(kind)

\* args.splice(1, 0, metadata), which starts at the end of what is shorter.
Spliced(args) == IF args = <<>> THEN <<"metadata">> ELSE InsertAt(args, 2, "metadata")

\* grpc-js: the Metadata is what comes after the message.
ReadsMetadata(kind, args) == args[Len(Message(kind)) + 1] = "metadata"

\* No Metadata among the arguments: the client's own is put among them.
CallWithout(client, kind) ==
    /\ UsesClient(client)
    /\ request' = Sent(client, IF ReadsMetadata(kind, Spliced(Arguments(kind))) THEN client.header ELSE <<>>)
    /\ UNCHANGED <<headers, exceptCalls>>

\* The user's Metadata object is merged into, and stays so.
CallWith(client, m) ==
    /\ UsesClient(client)
    /\ headers[m] = <<>> \/ ReusesMetadata
    /\ headers' = [headers EXCEPT ![m] = @ \o client.header]
    /\ request' = Sent(client, headers'[m])
    /\ UNCHANGED exceptCalls

ServicesNext ==
    \/ \E k \in Hosts :
           \/ \E c \in Components : AddComponent(k, c)
           \/ StartService(k) \/ StopService(k)
           \/ \E p \in Proxies : DiscoverComponents(k, p)
    \/ \E c \in Components, address \in Addresses : CreateClient(c, address)
    \/ \E client \in created :
           \/ \E kind \in MethodKinds : CallWithout(client, kind)
           \/ \E m \in Metadatas : CallWith(client, m)

(***************************************************************************)
(* Properties.                                                             *)
(***************************************************************************)
ServicesTypeOK ==
    /\ \A k \in Hosts : serving[k] \in {"new", "up", "down"} /\ added[k] \subseteq Components
    /\ \A c \in Components : clientsOf[c] \subseteq Proxies /\ Cardinality(clientsOf[c]) <= 1
    /\ Cardinality(created) <= MaxClients /\ requests \in 0 .. MaxRequests

\* Whatever a running service told its proxy is what the process does for it:
\* each component it described is the one that handles its service, checks
\* effects and forwards against the components of the same service, and makes
\* its clients for that proxy - although the supports and the components are
\* shared with other services of the process, before and after.
ToldIsServed ==
    \A k \in Hosts : serving[k] = "up" =>
        \A d \in told[k].components : \E c \in added[k] :
            /\ Describe(c) = d
            /\ supports[<<c.type, c.name>>] = {[component |-> c, siblings |-> ServiceMap(k)]}
            /\ c.type # "Views" /\ (\A p \in told[k].by : Identity[p] # "broken")
                   => clientsOf[c] = told[k].by

\* The headers are added "to all request methods" (grpc-util.ts:197): each
\* request proves its sender's identity to whom it is meant for and to nobody
\* else.  The own proxy gets the token it gave, another service the name where
\* the proxy asks for it, an external address nothing; once, with or without
\* metadata of the user's, whatever the kind of the method.
IdentityFits ==
    \A r \in request :
        r.headers =
            CASE r.to = "self" /\ Identity[r.proxy] \in {"self", "dev"} -> <<[token |-> "self", of |-> r.proxy]>>
              [] r.to = "service" /\ Identity[r.proxy] = "dev"          -> <<[token |-> "name", of |-> r.proxy]>>
              [] OTHER                                                  -> <<>>
=============================================================================
