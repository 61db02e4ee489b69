---------------------------- MODULE ProjectBuild ----------------------------
(***************************************************************************)
(* A project on the user's disk: created from the templates                *)
(* (create-kalix-entity), its tools downloaded by npm install              *)
(* (download-protoc, download-codegen), built, packaged and deployed by    *)
(* kalix-scripts, and changed by its user in between.  The generator's     *)
(* writes are CodeGenerator's.                                             *)
(*                                                                         *)
(* npm, protoc, pbjs, pbts, docker and the kalix command are external:     *)
(* each either does its work or ends with a status other than 0.  The      *)
(* network may also break off an answer.                                   *)
(***************************************************************************)
EXTENDS CodeGenerator, Naturals

CONSTANTS
    Projects,           \* the protobuf sources the user goes through, a sequence of sequences of files
    MaxEdits,           \* bound: what the user changes, in all
    MaxFailures,        \* bound: programs that fail or are killed, in all
    Versions,           \* bound: the versions in package.json are 1 .. Versions
    DescriptorArgument  \* compileDescriptorArgs holds a --descriptor_set_out of its own

ASSUME ProjectBuildAssumption ==
    /\ Projects \in Seq(Range(Projects)) /\ Projects # <<>>
    /\ \A p \in DOMAIN Projects :
           /\ Projects[p] \in Seq(Range(Projects[p]))
           /\ \A file \in Range(Projects[p]) :
                  /\ file.services \in Seq(Range(file.services))
                  /\ file.entities \in Seq(Range(file.entities))
    /\ MaxEdits \in Nat /\ MaxFailures \in Nat /\ Versions \in Nat \ {0}
    /\ DescriptorArgument \in BOOLEAN

VARIABLES
    copied,         \* templates copied into the project's directory; 0: there is no directory
    protocZip,      \* download-protoc: the archive in protoc/
    protoc,         \* is protoc/bin/protoc there?
    codegenBin,     \* download-codegen: bin/kalix-codegen-js.bin
    script,         \* the script that runs, "idle" when none does
    status,         \* how the last script ended
    protos,         \* the project's protobuf sources, an index of Projects
    descriptors,    \* the descriptor sets: where --descriptor_set_out points, and the configured file
    protoJs,        \* what proto.js and proto.d.ts were made from
    protoTs,
    version,        \* version of package.json
    images,         \* docker tag -> {} or the one image of that tag
    deployed,       \* {} or the image the service runs
    edits, failures \* used up of the bounds

toolVars == <<protocZip, protoc, codegenBin>>
artifactVars == <<descriptors, protoJs, protoTs>>
releaseVars == <<version, images, deployed>>
userVars == <<protos, version, edits>>
buildVars == <<copied, toolVars, script, status, protos, artifactVars, images, deployed, version, edits,
          failures, generatorVars>>

Nothing == 0        \* made of no sources yet
Templates == 3      \* base-common, base-js or base-ts, and the one chosen

BuildInit ==
    /\ copied = 0
    /\ protocZip = "none" /\ protoc = FALSE /\ codegenBin = FALSE
    /\ script = "idle" /\ status = "none"
    /\ protos = 1
    /\ descriptors = [file \in {"configured", "argument"} |-> Nothing]
    /\ protoJs = Nothing /\ protoTs = Nothing
    /\ version = 1
    /\ images = [v \in 1 .. Versions |-> {}]
    /\ deployed = {}
    /\ edits = 0 /\ failures = 0
    /\ GeneratorInit

Begin(s) == script = "idle" /\ script' = s /\ status' = "running"
Continue(s) == script' = s /\ status' = status
Succeed == script' = "idle" /\ status' = "ok"
\* process.exit(1), an exception nobody catches, or a kill.
Abort == script' = "idle" /\ status' = "failed"
Failing == failures < MaxFailures /\ failures' = failures + 1

(***************************************************************************)
(* create-kalix-entity.                                                    *)
(***************************************************************************)
projectVars == <<toolVars, protos, artifactVars, releaseVars, edits, generatorVars>>

CreateEntity ==
    /\ copied = 0 /\ Begin("create")
    /\ UNCHANGED <<copied, projectVars, failures>>

\* The copies overlay each other in order; a failure leaves those made, and
\* their directory stands in the way of the next attempt.
CopyTemplate ==
    /\ script = "create"
    /\ \/ /\ copied' = copied + 1
          /\ IF copied' = Templates THEN Succeed ELSE Continue("create")
          /\ UNCHANGED failures
       \/ Failing /\ Abort /\ UNCHANGED copied
    /\ UNCHANGED projectVars

RemoveProject ==
    /\ script = "idle" /\ copied \in 1 .. Templates - 1
    /\ copied' = 0
    /\ UNCHANGED <<script, status, failures, projectVars>>

(***************************************************************************)
(* npm install: the postinstall script of the SDK, the install script of   *)
(* kalix-scripts.                                                          *)
(***************************************************************************)
exceptTools == <<copied, protos, artifactVars, releaseVars, edits, generatorVars>>

\* The script trusts an archive it finds; otherwise it starts over with an
\* empty directory and opens the archive for writing.
Install ==
    /\ copied = Templates /\ Begin(IF protocZip = "none" THEN "download-protoc" ELSE "download-codegen")
    /\ IF protocZip = "none" THEN protocZip' = "partial" /\ protoc' = FALSE
       ELSE UNCHANGED <<protocZip, protoc>>
    /\ UNCHANGED <<codegenBin, failures, exceptTools>>

\* Neither the status of the answer nor an error of its body is looked at:
\* the archive then stays as far as it was written, nothing is extracted, and
\* the script ends like one that has done its work.  After an exception or a
\* kill npm may remove the package, and the archive with it.
DownloadProtoc ==
    /\ script = "download-protoc"
    /\ \/ /\ protocZip' = "whole" /\ protoc' = TRUE
          /\ Continue("download-codegen") /\ UNCHANGED failures
       \/ /\ protocZip' = "partial" /\ protoc' = FALSE
          /\ Continue("download-codegen") /\ Failing
       \/ /\ protocZip' \in {"none", "partial"} /\ protoc' = FALSE
          /\ Abort /\ Failing
    /\ UNCHANGED <<codegenBin, exceptTools>>

\* The binary is fetched on every install.  A download that breaks off
\* removes the file; without an answer from the server reporting the error
\* throws, and the file stays as it was.
DownloadCodegen ==
    /\ script = "download-codegen"
    /\ \/ codegenBin' = TRUE /\ Succeed /\ UNCHANGED failures
       \/ codegenBin' \in {FALSE, codegenBin} /\ Abort /\ Failing
    /\ UNCHANGED <<protocZip, protoc, exceptTools>>

(***************************************************************************)
(* kalix-scripts build.                                                    *)
(***************************************************************************)
exceptArtifacts == <<copied, toolVars, releaseVars, protos, edits>>

\* The descriptor is written where compileDescriptorArgs say, by default to
\* the configured file.
DescriptorOut == IF DescriptorArgument THEN "argument" ELSE "configured"

Build ==
    /\ copied = Templates /\ Begin("compile-descriptor")
    /\ UNCHANGED <<copied, toolVars, releaseVars, protos, edits, artifactVars, failures, generatorVars>>

CompileDescriptor ==
    /\ script = "compile-descriptor"
    /\ \/ /\ protoc
          /\ descriptors' = [descriptors EXCEPT ![DescriptorOut] = protos]
          /\ Continue("pbjs") /\ UNCHANGED failures
       \/ ~protoc /\ Abort /\ UNCHANGED <<descriptors, failures>>
       \/ Failing /\ Abort /\ UNCHANGED descriptors
    /\ UNCHANGED <<exceptArtifacts, protoJs, protoTs, generatorVars>>

Pbjs ==
    /\ script = "pbjs"
    /\ \/ protoJs' = protos /\ Continue("pbts") /\ UNCHANGED failures
       \/ Failing /\ Abort /\ UNCHANGED protoJs
    /\ UNCHANGED <<exceptArtifacts, descriptors, protoTs, generatorVars>>

Pbts ==
    /\ script = "pbts"
    /\ \/ protoTs' = protoJs /\ Continue("start-codegen") /\ UNCHANGED failures
       \/ Failing /\ Abort /\ UNCHANGED protoTs
    /\ UNCHANGED <<exceptArtifacts, descriptors, protoJs, generatorVars>>

\* The file cannot be opened, parsed or validated.
UnreadableDescriptor == Failing /\ Abort

\* The generator reads the configured file.  It has nothing to do when
\* there is none, and ends with an exception when the model cannot be built.
StartCodegen ==
    /\ script = "start-codegen"
    /\ LET input == descriptors["configured"]
           model == Introspect(Projects[input])
       IN  \/ ~codegenBin /\ Abort /\ UNCHANGED <<generatorVars, failures>>
           \/ codegenBin /\ input = Nothing /\ Succeed /\ UNCHANGED <<generatorVars, failures>>
           \/ /\ codegenBin /\ input # Nothing
              /\ IF model.failure = "none" THEN StartGenerator(model) /\ Continue("codegen")
                 ELSE Abort /\ UNCHANGED generatorVars
              /\ UNCHANGED failures
           \/ codegenBin /\ input # Nothing /\ UnreadableDescriptor /\ UNCHANGED generatorVars
    /\ UNCHANGED <<exceptArtifacts, artifactVars>>

Codegen ==
    /\ script = "codegen"
    /\ \/ GenerateFile /\ Continue("codegen") /\ UNCHANGED failures
       \/ plan = <<>> /\ Succeed /\ UNCHANGED <<failures, generatorVars>>
       \/ Failing /\ Abort /\ GeneratorDies
    /\ UNCHANGED <<exceptArtifacts, artifactVars>>

(***************************************************************************)
(* kalix-scripts package and deploy.                                       *)
(***************************************************************************)
exceptImages == <<copied, toolVars, protos, artifactVars, version, edits, generatorVars>>

\* What docker build finds in the directory.
Snapshot == [files |-> fs, descriptor |-> descriptors["configured"]]

Package ==
    /\ copied = Templates /\ Begin("package")
    /\ UNCHANGED <<exceptImages, images, deployed, failures>>

\* docker image inspect ends with 1 when there is no image of that tag, and
\* only then an image is built.
DeployProject ==
    /\ copied = Templates
    /\ Begin(IF images[version] = {} THEN "deploy-build" ELSE "push")
    /\ UNCHANGED <<exceptImages, images, deployed, failures>>

DockerBuild ==
    /\ script \in {"package", "deploy-build"}
    /\ \/ /\ images' = [images EXCEPT ![version] = {Snapshot}]
          /\ IF script = "package" THEN Succeed ELSE Continue("push")
          /\ UNCHANGED failures
       \/ Failing /\ Abort /\ UNCHANGED images
    /\ UNCHANGED <<exceptImages, deployed>>

\* docker push and kalix service deploy.
PushAndDeploy ==
    /\ script = "push"
    /\ \/ deployed' = images[version] /\ Succeed /\ UNCHANGED failures
       \/ Failing /\ Abort /\ UNCHANGED deployed
    /\ UNCHANGED <<exceptImages, images>>

(***************************************************************************)
(* The user, between scripts.                                              *)
(***************************************************************************)
UserActs == copied = Templates /\ script = "idle" /\ edits < MaxEdits /\ edits' = edits + 1
                /\ status' = "edited" /\ script' = script

exceptUser == <<copied, toolVars, artifactVars, images, deployed, failures, plan, generated>>

EditProtos ==
    /\ UserActs
    /\ protos' \in DOMAIN Projects \ {protos}
    /\ UNCHANGED <<exceptUser, fs, version>>

EditSource ==
    /\ UserActs
    /\ \E path \in DOMAIN fs :
           ~fs[path].managed /\ fs' = [fs EXCEPT ![path].edited = @ + 1]
    /\ UNCHANGED <<exceptUser, protos, version>>

DeleteFile ==
    /\ UserActs
    /\ \E path \in DOMAIN fs :
           ~fs[path].managed /\ fs' = [p \in DOMAIN fs \ {path} |-> fs[p]]
    /\ UNCHANGED <<exceptUser, protos, version>>

\* ... once there is an image of the present one.
BumpVersion ==
    /\ UserActs /\ images[version] # {}
    /\ version < Versions /\ version' = version + 1
    /\ UNCHANGED <<exceptUser, fs, protos>>

User == EditProtos \/ EditSource \/ DeleteFile \/ BumpVersion

Scripts ==
    \/ CreateEntity \/ CopyTemplate \/ RemoveProject
    \/ Install \/ DownloadProtoc \/ DownloadCodegen
    \/ Build \/ CompileDescriptor \/ Pbjs \/ Pbts \/ StartCodegen \/ Codegen
    \/ Package \/ DeployProject \/ DockerBuild \/ PushAndDeploy

BuildNext == Scripts \/ User

BuildSpec == BuildInit /\ [][BuildNext]_buildVars

(***************************************************************************)
(* Properties.                                                             *)
(***************************************************************************)

\* Types, and that a plan is under way only while the generator runs.
BuildTypeOK ==
    /\ copied \in 0 .. Templates
    /\ protocZip \in {"none", "partial", "whole"}
    /\ {protoc, codegenBin} \subseteq BOOLEAN
    /\ script \in {"idle", "create", "download-protoc", "download-codegen", "compile-descriptor", "pbjs",
                   "pbts", "start-codegen", "codegen", "package", "deploy-build", "push"}
    /\ status \in {"none", "running", "ok", "failed", "edited"}
    /\ protos \in DOMAIN Projects
    /\ descriptors \in [{"configured", "argument"} -> {Nothing} \cup DOMAIN Projects]
    /\ {protoJs, protoTs} \subseteq {Nothing} \cup DOMAIN Projects
    /\ version \in 1 .. Versions
    /\ plan # <<>> => script = "codegen"
    /\ edits \in 0 .. MaxEdits /\ failures \in 0 .. MaxFailures

Ends(s) == script \in s /\ script' = "idle" /\ status' = "ok"

\* What the user wrote, or may have changed, survives every script: builds
\* of other protobuf sources, builds after failed builds, packaging
\* (kickstart.adoc: the next build "will not overwrite existing classes or
\* tests").
UserFilesKept ==
    [][edits' = edits =>
           \A path \in DOMAIN fs : ~fs[path].managed => Exists(path)' /\ fs'[path] = fs[path]]_buildVars

\* A build that succeeds leaves nothing of an earlier project behind in what
\* the tools manage: the descriptor, the static module, its types, the types
\* of every component and the index are all those of the present sources,
\* whatever failed or was interrupted before.
BuildIsCurrent ==
    [][Ends({"start-codegen", "codegen"}) =>
           /\ descriptors["configured"] = protos /\ protoJs = protos /\ protoTs = protos
           /\ \A write \in Range(GeneratePlan(Introspect(Projects[protos]))) :
                  write.content.managed => Exists(write.path) /\ fs[write.path] = write.content]_buildVars

\* After a successful build every import of the index finds its source, the
\* one of that component, and every component is imported.
IndexIsServed ==
    [][Ends({"codegen"}) =>
           LET model == Introspect(Projects[protos])
           IN  /\ \A i \in Range(IndexImports(model)) : Exists(i.from) /\ fs[i.from].of = i.of
               /\ \A service \in Range(model.services) :
                      ComponentNames(model, service) # <<>> =>
                          \E i \in Range(IndexImports(model)) : i.of = service.fqn]_buildVars

\* An install that succeeds has installed both tools: the script downloads
\* protoc unless it has the file downloaded (download-protoc.js:66), and a
\* project can be compiled then (index.adoc:27).
InstalledIsWhole == [][Ends({"download-codegen"}) => protoc' /\ codegenBin']_buildVars

\* What runs after a successful deploy is what is in the project: deploy
\* packages it before (README.md:117 of the templates).
DeployedIsCurrent == [][Ends({"push"}) => deployed' = {Snapshot}]_buildVars
=============================================================================
