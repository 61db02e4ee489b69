---------------------------- MODULE CodeGenerator ----------------------------
(***************************************************************************)
(* kalix-codegen-js: from the model of a project to files on disk          *)
(* (codegen/js-gen, codegen/js-gen-cli).  A run of the generator is a      *)
(* plan, the writes it makes in the order it makes them; each write is a   *)
(* step, so that a run can end between two of them.  Files the user owns   *)
(* (sources, tests, the main file) are written only while they are         *)
(* missing; managed files (types, the index of components) always.         *)
(*                                                                         *)
(* Abstraction.  A file is the names its text declares or refers to; the   *)
(* wording and layout of the templates are left out.  `edited` counts for  *)
(* what the user put into a file of theirs.                                *)
(***************************************************************************)
EXTENDS CodegenModel, FiniteSets

CONSTANTS
    Dir,                \* the directory of each role: source, test, integrationTest, generated
    IntegrationTests,   \* is integrationTestSourceDir configured?
    TypeScript          \* --typescript

ASSUME CodeGeneratorAssumption ==
    /\ {"source", "test", "integrationTest", "generated"} \subseteq DOMAIN Dir
    /\ IntegrationTests \in BOOLEAN
    /\ TypeScript \in BOOLEAN

VARIABLES
    fs,         \* the project's files: path -> content, a partial function
    plan,       \* the writes the generator has still to make
    generated   \* the paths it reports as generated

generatorVars == <<fs, plan, generated>>

(***************************************************************************)
(* Paths.                                                                  *)
(***************************************************************************)
Extension == IF TypeScript THEN "ts" ELSE "js"
IndexName == [word |-> "index", capitals |-> FALSE, appended |-> FALSE]

Path(role, name, kind) ==
    [dir |-> Dir[role], name |-> ToLowerCase(name),
     ext |-> IF kind = "types" THEN "d.ts" ELSE IF kind = "test" THEN "test." \o Extension ELSE Extension]

SourcePath(name) == Path("source", name, "source")
TypesPath(name) == Path("generated", name, "types")
TestPath(name) == Path("test", name, "test")
IntegrationTestPath(name) == Path("integrationTest", name, "test")
GeneratedIndexPath == Path("generated", IndexName, "source")
MainPath == Path("source", IndexName, "source")

(***************************************************************************)
(* Contents.                                                               *)
(***************************************************************************)
Names(commands) == {commands[i].name : i \in DOMAIN commands}
Stubs(commands) == Names(SelectSeq(commands, LAMBDA c : ~c.ignore))
Types(commands) == {commands[i].input : i \in DOMAIN commands}
                   \cup {commands[i].output : i \in DOMAIN commands}

\* What a handler of an action is handed and what it gives back.
Shape(command) ==
    [context |-> IF command.streamedIn
                 THEN IF command.streamedOut THEN "Streamed" ELSE "StreamedIn"
                 ELSE IF command.streamedOut THEN "StreamedOut" ELSE "Unary",
     takesCommand |-> ~command.streamedIn,
     returnsReply |-> ~command.streamedOut]

EntityTypes(service, entity) ==
    [managed |-> TRUE, of |-> service.fqn, type |-> entity.type, api |-> Types(service.commands),
     domain |-> {entity.state} \cup Range(entity.events), handlers |-> Names(service.commands),
     eventHandlers |-> Range(entity.events)]

\* The stubs of a value entity are for every command, those of an event
\* sourced entity for the commands that are not ignored.
EntitySource(service, entity) ==
    [managed |-> FALSE, of |-> service.fqn, type |-> entity.type,
     lookups |-> {entity.state} \cup Range(entity.events),
     handlers |-> IF entity.type = "ValueEntity" THEN Names(service.commands)
                  ELSE Stubs(service.commands),
     eventHandlers |-> Range(entity.events), edited |-> 0]

EntityTest(service, entity, kit) ==
    [managed |-> FALSE, of |-> service.fqn, kit |-> kit, imports |-> SourcePath(entity.fqn.name),
     describes |-> Names(service.commands), edited |-> 0]

ActionTypes(service) ==
    [managed |-> TRUE, of |-> service.fqn, type |-> "Action", api |-> Types(service.commands),
     handlers |-> {<<c.name, Shape(c)>> :
                   c \in {d \in Range(service.commands) : ~d.ignore}}]

ActionSource(service) ==
    [managed |-> FALSE, of |-> service.fqn, type |-> "Action",
     handlers |-> Stubs(service.commands), edited |-> 0]

ViewTypes(service) ==
    [managed |-> TRUE, of |-> service.fqn, type |-> "View",
     domain |-> {Head(service.transformedUpdates).output}
                \cup {u.input : u \in Range(service.transformedUpdates)},
     handlers |-> Names(service.transformedUpdates)]

ViewSource(service) ==
    [managed |-> FALSE, of |-> service.fqn, type |-> "View", viewId |-> service.viewId,
     handlers |-> Stubs(service.transformedUpdates), edited |-> 0]

(***************************************************************************)
(* The plan of a run.                                                      *)
(***************************************************************************)
AlwaysIfNew(path, content) == [path |-> path, content |-> content, ifMissing |-> TRUE]
Always(path, content) == [path |-> path, content |-> content, ifMissing |-> FALSE]
IfMissing(path, content) == [path |-> path, content |-> content, ifMissing |-> TRUE]

EntityPlan(service, entity) ==
    LET name == entity.fqn.name
    IN  <<Always(TypesPath(name), EntityTypes(service, entity)),
          IfMissing(TestPath(name), EntityTest(service, entity, "Mock" \o entity.type))>>
        \o (IF IntegrationTests
            THEN <<IfMissing(IntegrationTestPath(name),
                             EntityTest(service, entity, "IntegrationTestkit"))>>
            ELSE <<>>)
        \o <<IfMissing(SourcePath(name), EntitySource(service, entity))>>

ActionPlan(service) ==
    <<Always(TypesPath(service.fqn.name), ActionTypes(service)),
      IfMissing(SourcePath(service.fqn.name), ActionSource(service))>>

ViewPlan(service) ==
    <<Always(TypesPath(service.fqn.name), ViewTypes(service)),
      IfMissing(SourcePath(service.fqn.name), ViewSource(service))>>

ComponentNamesByService(model, service) ==
    IF service.type = "view" /\ service.transformedUpdates = <<>> THEN <<>> ELSE <<service.fqn.name>>

\* The component a service is generated as: the entity it refers to, itself,
\* or nothing for an entity the model does not have and for a view without
\* transformed updates.
ComponentNames(model, service) ==
    CASE service.type = "entity" ->
             [i \in DOMAIN Entity(model, service.component) |->
                  Entity(model, service.component)[i].fqn.name]
      [] service.type = "view" /\ service.transformedUpdates = <<>> -> <<>>
      [] OTHER -> <<service.fqn.name>>

ServicePlan(model, service) ==
    CASE ComponentNames(model, service) = <<>> -> <<>>
      [] service.type = "entity" /\ ComponentNames(model, service) # <<>> ->
             EntityPlan(service, Head(Entity(model, service.component)))
      [] service.type = "view" /\ ComponentNames(model, service) # <<>> -> ViewPlan(service)
      [] service.type = "action" -> ActionPlan(service)

\* The imports of the generated index, one for each component.
IndexImports(model) ==
    FlattenSeq([i \in DOMAIN model.services |->
        LET names == ComponentNames(model, model.services[i])
        IN  [j \in DOMAIN names |-> [name |-> ToLowerCase(names[j]), from |-> SourcePath(names[j]),
                                     of |-> model.services[i].fqn]]])

GeneratedIndex(model) ==
    [managed |-> TRUE, imports |-> Range(IndexImports(model)), exports |-> Len(IndexImports(model))]

Main == [managed |-> FALSE, imports |-> GeneratedIndexPath, edited |-> 0]

\* SourceGenerator.generate
GeneratePlan(model) ==
    IF model.services = <<>> THEN <<>>
    ELSE FlattenSeq([i \in DOMAIN model.services |-> ServicePlan(model, model.services[i])])
         \o <<Always(GeneratedIndexPath, GeneratedIndex(model)), IfMissing(MainPath, Main)>>

(***************************************************************************)
(* Steps.                                                                  *)
(***************************************************************************)
GeneratorInit == fs = <<>> /\ plan = <<>> /\ generated = {}

Exists(path) == path \in DOMAIN fs

WriteFile(path, content) ==
    fs' = [p \in DOMAIN fs \cup {path} |-> IF p = path THEN content ELSE fs[p]]

\* Cli.main, once the descriptor set was read.
StartGenerator(model) ==
    /\ plan' = GeneratePlan(model)
    /\ generated' = {}
    /\ fs' = fs

GenerateEveryFile ==
    /\ plan # <<>>
    /\ plan' = Tail(plan)
    /\ WriteFile(Head(plan).path, Head(plan).content)
    /\ generated' = generated \cup {Head(plan).path}

\* A file of the user's is left alone; everything else is written and
\* reported.
GenerateFile ==
    /\ plan # <<>>
    /\ plan' = Tail(plan)
    /\ IF Head(plan).ifMissing /\ Exists(Head(plan).path)
       THEN UNCHANGED <<fs, generated>>
       ELSE /\ WriteFile(Head(plan).path, Head(plan).content)
            /\ generated' = generated \cup {Head(plan).path}

DiesWithItsPlan == plan # <<>> /\ UNCHANGED <<fs, plan, generated>>

\* The process is killed, or a write fails with an exception, between two
\* files.
GeneratorDies ==
    /\ plan # <<>>
    /\ plan' = <<>>
    /\ UNCHANGED <<fs, generated>>
=============================================================================
