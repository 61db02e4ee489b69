--------------------------- MODULE ProjectBuildMC ---------------------------
(***************************************************************************)
(* ProjectBuild for three states of a shopping cart's protobuf sources: a  *)
(* value entity; that entity with a command more and in the old format,    *)
(* next to an event sourced entity, an action and two views, of which one  *)
(* transforms updates; and sources the generator refuses, because of a     *)
(* replicated entity.                                                      *)
(***************************************************************************)
EXTENDS ProjectBuild

Id(word) == [word |-> word, capitals |-> TRUE, appended |-> FALSE]
Relative(word) == [form |-> "relative", path |-> <<"domain">>, name |-> Id(word)]
Dotted(word) == [form |-> "dotted", path |-> <<"shop", "domain">>, name |-> Id(word)]

Method(word, transforms) ==
    [name |-> Id(word), input |-> FullyQualifiedName(<<"shop">>, Id("Item")),
     output |-> FullyQualifiedName(<<"shop">>, Id("Cart")), streamedIn |-> FALSE,
     streamedOut |-> FALSE, ignore |-> FALSE, transformUpdates |-> transforms]

Service(word, annotation, kind, component, state, events, methods) ==
    [fqn |-> FullyQualifiedName(<<"shop">>, Id(word)), annotation |-> annotation, kind |-> kind,
     component |-> component, state |-> state, events |-> events, methods |-> methods]

Domain == [pkg |-> <<"shop", "domain">>, messages |-> {Id("Cart"), Id("Added")},
           services |-> <<>>, entities |-> <<>>]
OldDomain ==
    [Domain EXCEPT !.entities =
        <<[fqn |-> FullyQualifiedName(<<"shop", "domain">>, Id("Cart")), type |-> "ValueEntity",
           state |-> FullyQualifiedName(<<"shop", "domain">>, Id("Cart")), events |-> <<>>]>>]
Api(services) == [pkg |-> <<"shop">>, messages |-> {Id("Item"), Id("Cart")}, services |-> services,
                  entities |-> <<>>]

Cart(methods) ==
    Service("CartService", "codegen", "value_entity", Relative("Cart"), Dotted("Cart"), <<>>, methods)

MCProjects ==
    <<<<Domain, Api(<<Cart(<<Method("Add", FALSE)>>)>>)>>,
      <<OldDomain,
                  Api(<<Service("CartService", "service", "entity", Relative("Cart"), Unset, <<>>,
                                <<Method("Add", FALSE), Method("Get", FALSE)>>),
                        Service("Checkout", "codegen", "event_sourced_entity", Unset,
                                Relative("Cart"), <<Relative("Added")>>, <<Method("Pay", FALSE)>>),
                        Service("Notify", "codegen", "action", Unset, Unset, <<>>,
                                <<Method("Send", FALSE)>>),
                        Service("ByUser", "service", "view", Unset, Unset, <<>>,
                                <<Method("Update", TRUE)>>),
                        Service("Plain", "codegen", "view", Unset, Unset, <<>>,
                                <<Method("Query", FALSE)>>)>>)>>,
      <<Domain,
                  Api(<<Cart(<<Method("Add", FALSE)>>),
                        Service("Replica", "codegen", "replicated_entity", Unset, Unset, <<>>, <<>>)>>)>>>>

MCDir == [role \in {"source", "test", "integrationTest", "generated"} |-> role]
=============================================================================
