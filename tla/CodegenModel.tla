---------------------------- MODULE CodegenModel ----------------------------
(***************************************************************************)
(* What the code generator knows of a project: the services and entities  *)
(* ModelBuilder.introspectProtobufClasses finds in the files of a          *)
(* protobuf descriptor (codegen/core).  Pure operators; CodeGenerator      *)
(* turns the model into files.                                             *)
(*                                                                         *)
(* Abstraction.  An identifier is its word, whether it is spelled with     *)
(* capitals, and whether "Entity" was appended to it; a package is a       *)
(* sequence of words.  A name written in an option is                      *)
(* [form, path, name] with form "unset", "bare" (Foo), "relative"          *)
(* (.baz.Foo) or "dotted" (baz.Foo).  Names for other languages than       *)
(* JavaScript (java_package, go_package) are left out: nothing here reads  *)
(* them.                                                                   *)
(***************************************************************************)
EXTENDS Sequences, SequencesExt

FullyQualifiedName(pkg, name) == [pkg |-> pkg, name |-> name]

\* Spelling is lost where file and import names are made.
ToLowerCase(name) == [name EXCEPT !.capitals = FALSE]

\* "" of a name that was not given.
Unset == [form |-> "unset", path |-> <<>>, name |-> ""]

(***************************************************************************)
(* Resolution of names.                                                    *)
(***************************************************************************)

\* No dot or a dot in front: in the package given; a dot inside: as it is.
ResolveFullName(pkg, option) ==
    FullyQualifiedName(IF option.form = "dotted" THEN option.path ELSE pkg \o option.path,
                       option.name)

DefineEntityName(option, service) ==
    IF option.form = "unset"
    THEN [service EXCEPT !.name.appended = TRUE]
    ELSE ResolveFullName(service.pkg, option)

NotFound == [error |-> "no descriptor"]
Ambiguous == [error |-> "multiple descriptors"]

\* A message named in an option: the files of its package must define it
\* exactly once.
ResolveMessage(option, pkg, files) ==
    LET full == ResolveFullName(pkg, option)
        defining == SelectSeq(files, LAMBDA f : f.pkg = full.pkg /\ full.name \in f.messages)
    IN  CASE defining = <<>>     -> NotFound
          [] Len(defining) = 1   -> full
          [] Len(defining) > 1   -> Ambiguous

IsError(r) == "error" \in DOMAIN r

(***************************************************************************)
(* The model: services and entities by full name, in the order in which    *)
(* they were first added (Scala keeps it up to four); adding a known name  *)
(* replaces it.                                                            *)
(***************************************************************************)
EmptyModel == [services |-> <<>>, entities |-> <<>>, failure |-> "none"]

Put(seq, item) ==
    LET known == SelectInSeq(seq, LAMBDA i : i.fqn = item.fqn)
    IN  IF known = 0 THEN Append(seq, item) ELSE ReplaceAt(seq, known, item)

AddService(model, service) == [model EXCEPT !.services = Put(@, service)]
AddEntity(model, entity) == [model EXCEPT !.entities = Put(@, entity)]
Fail(model, why) == [model EXCEPT !.failure = why]

\* None or the one of that name.
Entity(model, fqn) ==
    LET known == SelectInSeq(model.entities, LAMBDA e : e.fqn = fqn)
    IN  IF known = 0 THEN <<>> ELSE <<model.entities[known]>>

\* Command.from: of the method's options only whether eventing ignores it.
CommandFrom(method) ==
    [name |-> method.name, input |-> method.input, output |-> method.output,
     streamedIn |-> method.streamedIn, streamedOut |-> method.streamedOut,
     ignore |-> method.ignore]

Commands(service) == [i \in DOMAIN service.methods |-> CommandFrom(service.methods[i])]

TransformedUpdates(service) ==
    LET updates == SelectSeq(service.methods, LAMBDA m : m.transformUpdates)
    IN  [i \in DOMAIN updates |-> CommandFrom(updates[i])]

ActionService(service) ==
    [fqn |-> service.fqn, type |-> "action", commands |-> Commands(service)]
ViewService(service) ==
    [fqn |-> service.fqn, type |-> "view", commands |-> Commands(service),
     viewId |-> service.fqn.name, transformedUpdates |-> TransformedUpdates(service)]
EntityService(service, component) ==
    [fqn |-> service.fqn, type |-> "entity", commands |-> Commands(service),
     component |-> component]

(***************************************************************************)
(* One service: the codegen annotation, or the old service annotation,     *)
(* which refers to an entity that a file's options define.                 *)
(***************************************************************************)

\* The entity a codegen annotation defines; messages that cannot be
\* resolved end the generator with an exception.
AddCodegenEntity(model, service, type, files) ==
    LET name == DefineEntityName(service.component, service.fqn)
        state == ResolveMessage(service.state, service.fqn.pkg, files)
        events == [i \in DOMAIN service.events |->
                       ResolveMessage(service.events[i], service.fqn.pkg, files)]
    IN  IF IsError(state) \/ \E i \in DOMAIN events : IsError(events[i])
        THEN Fail(model, "unresolved message")
        ELSE AddEntity(AddService(model, EntityService(service, name)),
                       [fqn |-> name, type |-> type, state |-> state, events |-> events])

ModelFromCodegenOptions(model, service, files) ==
    CASE service.kind = "action"              -> AddService(model, ActionService(service))
      [] service.kind = "view"                -> AddService(model, ViewService(service))
      [] service.kind = "value_entity"        -> AddCodegenEntity(model, service, "ValueEntity", files)
      [] service.kind = "event_sourced_entity" ->
             AddCodegenEntity(model, service, "EventSourcedEntity", files)
      [] service.kind = "replicated_entity"   -> Fail(model, "not supported")
      [] OTHER                                -> model

ModelFromServiceOptions(model, service) ==
    CASE service.kind = "entity" ->
             AddService(model, EntityService(service, ResolveFullName(service.fqn.pkg, service.component)))
      [] service.kind = "action" -> AddService(model, ActionService(service))
      [] service.kind = "view"   -> AddService(model, ViewService(service))
      [] OTHER                   -> model

ModelFromService(model, service, files) ==
    CASE model.failure # "none"           -> model
      [] service.annotation = "codegen"   -> ModelFromCodegenOptions(model, service, files)
      [] service.annotation = "service"   -> ModelFromServiceOptions(model, service)
      [] OTHER                            -> model

\* extract...DefinitionFromFileOptions: the entities of the old format, a
\* name each, their messages unresolved.
ModelFromDomainFile(model, file) ==
    IF model.failure # "none" THEN model
    ELSE FoldLeft(AddEntity, model, file.entities)

\* introspectProtobufClasses: the files in order, each with its services
\* and then the entities of its options.
Introspect(files) ==
    FoldLeft(LAMBDA model, file :
                 ModelFromDomainFile(
                     FoldLeft(LAMBDA m, service : ModelFromService(m, service, files),
                              model, file.services),
                     file),
             EmptyModel, files)
=============================================================================
