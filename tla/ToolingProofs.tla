---------------------------- MODULE ToolingProofs ----------------------------
(***************************************************************************)
(* Theorems about ProjectBuild, for every sequence of protobuf sources and *)
(* any number of changes and failures; and about IntegrationTestkit and    *)
(* the KalixService in it, for every set of proxies, whichever of them are *)
(* in development mode, and every number of signals.                       *)
(***************************************************************************)
EXTENDS IntegrationTestkit, ProjectBuild, WellFoundedInduction, TLAPS

----------------------------------------------------------------------------
(* A project: types.  Templates are copied one by one until the last.      *)

CopyInv == script = "create" => copied < Templates

LEMMA Bounds == MaxEdits \in Nat /\ MaxFailures \in Nat /\ Versions \in Nat \ {0}
BY ProjectBuildAssumption

LEMMA BuildTypeInit == BuildInit => BuildTypeOK
<1> SUFFICES ASSUME BuildInit PROVE BuildTypeOK
  OBVIOUS
<1>1. copied \in 0 .. Templates /\ protos \in DOMAIN Projects /\ version \in 1 .. Versions
  <2>1. 1 \in DOMAIN Projects
    BY ProjectBuildAssumption
  <2> QED BY <2>1, Bounds DEF BuildInit, Templates
<1>2. {protoc, codegenBin} \subseteq BOOLEAN /\ plan = <<>>
  BY DEF BuildInit, GeneratorInit
<1>3. /\ descriptors \in [{"configured", "argument"} -> {Nothing}]
      /\ protoJs = Nothing /\ protoTs = Nothing
  BY DEF BuildInit
<1>4. edits \in 0 .. MaxEdits /\ failures \in 0 .. MaxFailures
  BY Bounds DEF BuildInit
<1>5. protocZip = "none" /\ script = "idle" /\ status = "none"
  BY DEF BuildInit
<1> QED BY <1>1, <1>2, <1>3, <1>4, <1>5, Zenon DEF BuildTypeOK

LEMMA FailingTypes ==
  ASSUME BuildTypeOK, Failing \/ failures' = failures PROVE failures' \in 0 .. MaxFailures
BY Bounds DEF BuildTypeOK, Failing

(* The scripts that leave the artifacts and the generator alone. *)
LEMMA ToolsTypes ==
  ASSUME BuildTypeOK, CopyInv,
         \/ CreateEntity \/ CopyTemplate \/ RemoveProject \/ Install \/ DownloadProtoc
         \/ DownloadCodegen \/ Package \/ DeployProject \/ DockerBuild \/ PushAndDeploy
  PROVE  BuildTypeOK'
<1>1. /\ UNCHANGED <<protos, artifactVars, version, edits, generatorVars>>
      /\ Failing \/ failures' = failures
  BY DEF CreateEntity, CopyTemplate, RemoveProject, Install, DownloadProtoc, DownloadCodegen,
         Package, DeployProject, DockerBuild, PushAndDeploy, projectVars, exceptTools, exceptImages,
         releaseVars, Begin, Continue, Succeed, Abort
<1>2. failures' \in 0 .. MaxFailures
  BY <1>1, FailingTypes
<1>3. copied' \in 0 .. Templates
  <2>1. CASE CopyTemplate
    BY <2>1 DEF BuildTypeOK, CopyInv, CopyTemplate, Templates
  <2>2. CASE RemoveProject
    BY <2>2 DEF RemoveProject, Templates
  <2>3. CASE copied' = copied
    BY <2>3 DEF BuildTypeOK
  <2> QED BY <2>1, <2>2, <2>3
          DEF CreateEntity, Install, DownloadProtoc, DownloadCodegen, Package, DeployProject,
              DockerBuild, PushAndDeploy, exceptTools, exceptImages
<1>4. /\ script' \in {"idle", "create", "download-protoc", "download-codegen", "package",
                      "deploy-build", "push"}
      /\ status' \in {"none", "running", "ok", "failed", "edited"}
      /\ script # "codegen"
  BY DEF BuildTypeOK, CreateEntity, CopyTemplate, RemoveProject, Install, DownloadProtoc,
         DownloadCodegen, Package, DeployProject, DockerBuild, PushAndDeploy, Begin, Continue, Succeed,
         Abort
<1>5. protocZip' \in {"none", "partial", "whole"}
  BY DEF BuildTypeOK, CreateEntity, CopyTemplate, RemoveProject, Install, DownloadProtoc,
         DownloadCodegen, Package, DeployProject, DockerBuild, PushAndDeploy, projectVars, exceptImages,
         toolVars
<1>6. protoc' \in BOOLEAN /\ codegenBin' \in BOOLEAN
  <2>1. CASE UNCHANGED toolVars
    BY <2>1 DEF BuildTypeOK, toolVars
  <2>2. CASE Install
    BY <2>2, Zenon DEF BuildTypeOK, Install
  <2>3. CASE DownloadProtoc
    BY <2>3, Zenon DEF BuildTypeOK, DownloadProtoc
  <2>4. CASE DownloadCodegen
    BY <2>4, Zenon DEF BuildTypeOK, DownloadCodegen
  <2> QED BY <2>1, <2>2, <2>3, <2>4
          DEF CreateEntity, CopyTemplate, RemoveProject, Package, DeployProject, DockerBuild,
              PushAndDeploy, projectVars, exceptImages
<1>7. plan' = <<>>
  BY <1>1, <1>4 DEF BuildTypeOK, generatorVars
<1> QED BY <1>1, <1>2, <1>3, <1>4, <1>5, <1>6, <1>7 DEF BuildTypeOK, artifactVars

LEMMA ArtifactTypes ==
  ASSUME BuildTypeOK, Build \/ CompileDescriptor \/ Pbjs \/ Pbts
  PROVE  BuildTypeOK'
<1>1. /\ UNCHANGED <<copied, toolVars, releaseVars, protos, edits, generatorVars>>
      /\ Failing \/ failures' = failures
  BY DEF Build, CompileDescriptor, Pbjs, Pbts, exceptArtifacts
<1>2. failures' \in 0 .. MaxFailures /\ version' \in 1 .. Versions
  BY <1>1, FailingTypes DEF BuildTypeOK, releaseVars
<1>3. /\ script' \in {"idle", "compile-descriptor", "pbjs", "pbts", "start-codegen"}
      /\ status' \in {"none", "running", "ok", "failed", "edited"}
      /\ script # "codegen"
  BY DEF BuildTypeOK, Build, CompileDescriptor, Pbjs, Pbts, Begin, Continue, Abort
<1>4. /\ descriptors' \in [{"configured", "argument"} -> {Nothing} \cup DOMAIN Projects]
      /\ protoJs' \in {protoJs, protos}
      /\ protoTs' \in {protoTs, protoJs}
  BY DEF BuildTypeOK, Build, CompileDescriptor, Pbjs, Pbts, artifactVars
<1>5. plan' = <<>>
  BY <1>1, <1>3 DEF BuildTypeOK, generatorVars
<1> QED BY <1>1, <1>2, <1>3, <1>4, <1>5 DEF BuildTypeOK, toolVars

LEMMA CodegenTypes ==
  ASSUME BuildTypeOK, StartCodegen \/ Codegen
  PROVE  BuildTypeOK'
<1>1. /\ UNCHANGED <<copied, toolVars, releaseVars, protos, edits, artifactVars>>
      /\ Failing \/ failures' = failures
  BY DEF StartCodegen, Codegen, exceptArtifacts, UnreadableDescriptor
<1>2. failures' \in 0 .. MaxFailures
  BY <1>1, FailingTypes
<1>3. /\ script' \in {"idle", "codegen"}
      /\ status' \in {"none", "running", "ok", "failed", "edited"}
  BY DEF BuildTypeOK, StartCodegen, Codegen, Continue, Succeed, Abort, UnreadableDescriptor
<1>4. plan' # <<>> => script' = "codegen"
  BY DEF BuildTypeOK, StartCodegen, Codegen, Continue, Succeed, Abort, UnreadableDescriptor,
         GeneratorDies, generatorVars
<1> QED BY <1>1, <1>2, <1>3, <1>4 DEF BuildTypeOK, toolVars, releaseVars, artifactVars

LEMMA UserTypes == ASSUME BuildTypeOK, User PROVE BuildTypeOK'
<1>1. /\ UNCHANGED <<copied, toolVars, artifactVars, failures, plan>>
      /\ script' = "idle" /\ status' = "edited"
      /\ edits < MaxEdits /\ edits' = edits + 1
      /\ version' = version \/ (version < Versions /\ version' = version + 1)
      /\ protos' = protos \/ protos' \in DOMAIN Projects
  BY DEF User, EditProtos, EditSource, DeleteFile, BumpVersion, UserActs, exceptUser
<1>2. version' \in 1 .. Versions
  BY <1>1, Bounds DEF BuildTypeOK
<1>3. edits' \in 0 .. MaxEdits
  BY <1>1, Bounds DEF BuildTypeOK
<1>4. script = "idle"
  BY DEF User, EditProtos, EditSource, DeleteFile, BumpVersion, UserActs
<1> QED BY <1>1, <1>2, <1>3, <1>4 DEF BuildTypeOK, toolVars, artifactVars

LEMMA CopyNext == ASSUME BuildTypeOK, CopyInv, [BuildNext]_buildVars PROVE CopyInv'
<1>1. CASE CreateEntity \/ CopyTemplate
  BY <1>1 DEF BuildTypeOK, CopyInv, CreateEntity, CopyTemplate, Begin, Continue, Succeed, Abort, Templates
<1>2. CASE UNCHANGED buildVars
  BY <1>2 DEF CopyInv, buildVars
<1>3. CASE script' # "create"
  BY <1>3 DEF CopyInv
<1>4. CreateEntity \/ CopyTemplate \/ script' # "create" \/ UNCHANGED buildVars
  <2>1. CASE \/ RemoveProject \/ Install \/ DownloadProtoc \/ DownloadCodegen \/ Package
             \/ DeployProject \/ DockerBuild \/ PushAndDeploy
    BY <2>1 DEF RemoveProject, Install, DownloadProtoc, DownloadCodegen, Package, DeployProject,
                DockerBuild, PushAndDeploy, Begin, Continue, Succeed, Abort
  <2>2. CASE Build \/ CompileDescriptor \/ Pbjs \/ Pbts \/ StartCodegen \/ Codegen
    BY <2>2 DEF Build, CompileDescriptor, Pbjs, Pbts, StartCodegen, Codegen, UnreadableDescriptor,
                Begin, Continue, Succeed, Abort
  <2>3. CASE User
    BY <2>3 DEF User, EditProtos, EditSource, DeleteFile, BumpVersion, UserActs
  <2> QED BY <2>1, <2>2, <2>3 DEF BuildNext, Scripts
<1> QED BY <1>1, <1>2, <1>3, <1>4

LEMMA BuildTypeInvariant == BuildSpec => [](BuildTypeOK /\ CopyInv)
<1>1. BuildInit => CopyInv
  BY DEF BuildInit, CopyInv
<1>2. BuildTypeOK /\ UNCHANGED buildVars => BuildTypeOK'
  BY DEF BuildTypeOK, buildVars, toolVars, artifactVars, generatorVars
<1>3. BuildTypeOK /\ CopyInv /\ [BuildNext]_buildVars => BuildTypeOK' /\ CopyInv'
  BY <1>2, ToolsTypes, ArtifactTypes, CodegenTypes, UserTypes, CopyNext DEF BuildNext, Scripts
<1> QED BY BuildTypeInit, <1>1, <1>3, PTL DEF BuildSpec

(* BuildTypeOK. *)
THEOREM BuildTypeTheorem == BuildSpec => []BuildTypeOK
BY BuildTypeInvariant, PTL

----------------------------------------------------------------------------
(* The model of a project: its services are a list, whatever the files     *)
(* hold.  Its folds run over the subsets of the places of a sequence, from *)
(* the greatest place down.                                                *)

IsList(s) == \E T : s \in Seq(T)
ServiceList(s) == \E T : s \in Seq(T) /\ \A t \in T : t.type \in {"entity", "action", "view"}
Listed(model) ==
  /\ DOMAIN model = {"services", "entities", "failure"}
  /\ ServiceList(model.services) /\ IsList(model.entities)

Before == OpToRel(<, Nat)

LEMMA Induction ==
  ASSUME NEW S, 0 \in S, \A n \in Nat : n \in S => n + 1 \in S
  PROVE  Nat \subseteq S
<1> SUFFICES ASSUME Nat \ S # {} PROVE FALSE
  OBVIOUS
<1>1. IsWellFoundedOn(Before, Nat)
  BY NatLessThanWellFounded DEF Before
<1>2. PICK n \in Nat \ S : \A m \in Nat \ S : ~ (<<m, n>> \in Before)
  <2>1. Nat \ S \subseteq Nat
    OBVIOUS
  <2> QED BY <1>1, <2>1, WFMin
<1>3. \A m \in Nat \ S : ~ (m < n)
  BY <1>2 DEF Before, OpToRel
<1>4. n # 0 /\ n - 1 \in Nat
  OBVIOUS
<1>5. n - 1 \in S
  BY <1>3, <1>4
<1> QED BY <1>4, <1>5

(* Places have a greatest one. *)
LEMMA Greatest ==
  ASSUME NEW n \in Nat, NEW s \in SUBSET (1 .. n), s # {}
  PROVE  Max(s) \in s /\ \A y \in s : y <= Max(s)
<1> DEFINE S == {k \in Nat : \A t \in SUBSET (1 .. k) : t # {} => \E x \in t : \A y \in t : x >= y}
<1>1. 0 \in S
  <2>1. 1 .. 0 = {}
    OBVIOUS
  <2>2. \A t \in SUBSET (1 .. 0) : t = {}
    BY <2>1
  <2> QED BY <2>2
<1>2. ASSUME NEW k \in Nat, k \in S PROVE k + 1 \in S
  <2> SUFFICES ASSUME NEW t \in SUBSET (1 .. k + 1), t # {} PROVE \E x \in t : \A y \in t : x >= y
    OBVIOUS
  <2>1. CASE k + 1 \in t
    BY <2>1
  <2>2. CASE k + 1 \notin t
    <3>1. t \in SUBSET (1 .. k)
      BY <2>2
    <3> QED BY <1>2, <3>1
  <2> QED BY <2>1, <2>2
<1>3. Nat \subseteq S
  <2> HIDE DEF S
  <2> QED BY <1>1, <1>2, Induction
<1>4. \E x \in s : \A y \in s : x >= y
  BY <1>3
<1> QED BY <1>4 DEF Max

LEMMA GreatestLast ==
  ASSUME NEW n \in Nat, NEW s \in SUBSET (1 .. n + 1), n + 1 \in s
  PROVE  Max(s) = n + 1
<1>1. n + 1 \in Nat /\ s # {}
  OBVIOUS
<1>2. Max(s) \in s /\ \A y \in s : y <= Max(s)
  BY <1>1, Greatest
<1>3. Max(s) \in 1 .. n + 1 /\ n + 1 <= Max(s)
  BY <1>2
<1> QED BY <1>3

LEMMA PutIsList ==
  ASSUME NEW seq, ServiceList(seq), NEW item, item.type \in {"entity", "action", "view"}
  PROVE  ServiceList(Put(seq, item))
<1>1. PICK T : seq \in Seq(T) /\ \A t \in T : t.type \in {"entity", "action", "view"}
  BY DEF ServiceList
<1>2. seq \in Seq(T \cup {item})
  BY <1>1
<1>3. Append(seq, item) \in Seq(T \cup {item})
  BY <1>2
<1>4. ASSUME NEW i PROVE ReplaceAt(seq, i, item) \in Seq(T \cup {item})
  <2>1. ReplaceAt(seq, i, item) = [j \in 1 .. Len(seq) |-> IF j = i THEN item ELSE seq[j]]
    BY <1>2 DEF ReplaceAt
  <2>2. Len(seq) \in Nat /\ \A j \in 1 .. Len(seq) : seq[j] \in T
    BY <1>1
  <2> QED BY <2>1, <2>2
<1>5. \A t \in T \cup {item} : t.type \in {"entity", "action", "view"}
  BY <1>1
<1>6. Put(seq, item) \in Seq(T \cup {item})
  BY <1>3, <1>4 DEF Put
<1> QED BY <1>5, <1>6 DEF ServiceList

LEMMA PutKeepsList ==
  ASSUME NEW seq, IsList(seq), NEW item
  PROVE  IsList(Put(seq, item))
<1>1. PICK T : seq \in Seq(T)
  BY DEF IsList
<1>2. seq \in Seq(T \cup {item})
  BY <1>1
<1>3. Append(seq, item) \in Seq(T \cup {item})
  BY <1>2
<1>4. ASSUME NEW i PROVE ReplaceAt(seq, i, item) \in Seq(T \cup {item})
  <2>1. ReplaceAt(seq, i, item) = [j \in 1 .. Len(seq) |-> IF j = i THEN item ELSE seq[j]]
    BY <1>2 DEF ReplaceAt
  <2>2. Len(seq) \in Nat /\ \A j \in 1 .. Len(seq) : seq[j] \in T
    BY <1>1
  <2> QED BY <2>1, <2>2
<1>5. Put(seq, item) \in Seq(T \cup {item})
  BY <1>3, <1>4 DEF Put
<1> QED BY <1>5 DEF IsList

LEMMA AddServiceListed ==
  ASSUME NEW model, Listed(model), NEW service, service.type \in {"entity", "action", "view"}
  PROVE  Listed(AddService(model, service))
<1>1. ServiceList(Put(model.services, service))
  BY PutIsList DEF Listed
<1> QED BY <1>1 DEF Listed, AddService

LEMMA AddEntityListed ==
  ASSUME NEW model, Listed(model), NEW entity PROVE Listed(AddEntity(model, entity))
BY PutKeepsList DEF Listed, AddEntity

LEMMA FailListed == ASSUME NEW model, Listed(model), NEW why PROVE Listed(Fail(model, why))
BY DEF Listed, Fail

LEMMA ServiceListed ==
  ASSUME NEW model, Listed(model), NEW service, NEW files
  PROVE  Listed(ModelFromService(model, service, files))
<1>1. \A name : EntityService(service, name).type = "entity"
  BY DEF EntityService
<1>2. ActionService(service).type = "action" /\ ViewService(service).type = "view"
  BY DEF ActionService, ViewService
<1>3. \A name : Listed(AddService(model, EntityService(service, name)))
  BY <1>1, AddServiceListed
<1>4. Listed(AddService(model, ActionService(service))) /\ Listed(AddService(model, ViewService(service)))
  BY <1>2, AddServiceListed
<1>5. \A type : Listed(AddCodegenEntity(model, service, type, files))
  BY <1>3, AddEntityListed, FailListed DEF AddCodegenEntity
<1>6. Listed(ModelFromCodegenOptions(model, service, files))
  BY <1>4, <1>5, FailListed DEF ModelFromCodegenOptions
<1>7. Listed(ModelFromServiceOptions(model, service))
  BY <1>3, <1>4 DEF ModelFromServiceOptions
<1> QED BY <1>6, <1>7 DEF ModelFromService

(* Adding the entities of a file.  *)
EntitiesFold(base, seq, n, g) ==
  g = [s \in SUBSET (1 .. n) |-> IF s = {} THEN base ELSE AddEntity(g[s \ {Max(s)}], seq[Max(s)])]

LEMMA EntitiesFoldExists ==
  ASSUME NEW base, NEW seq, NEW k \in Nat
  PROVE  \E g : EntitiesFold(base, seq, k, g)
<1> DEFINE S == {n \in Nat : \E g : EntitiesFold(base, seq, n, g)}
<1>1. 0 \in S
  <2>1. SUBSET (1 .. 0) = {{}}
    OBVIOUS
  <2>2. EntitiesFold(base, seq, 0, [s \in {{}} |-> base])
    BY <2>1 DEF EntitiesFold
  <2> QED BY <2>2
<1>2. ASSUME NEW n \in Nat, n \in S PROVE n + 1 \in S
  <2>1. PICK g : EntitiesFold(base, seq, n, g)
    BY <1>2
  <2> DEFINE h == [s \in SUBSET (1 .. n + 1) |->
                     IF n + 1 \in s THEN AddEntity(g[s \ {n + 1}], seq[n + 1]) ELSE g[s]]
  <2>2. ASSUME NEW s \in SUBSET (1 .. n + 1)
        PROVE  h[s] = IF s = {} THEN base ELSE AddEntity(h[s \ {Max(s)}], seq[Max(s)])
    <3>1. CASE n + 1 \in s
      <4>1. Max(s) = n + 1
        BY <3>1, GreatestLast
      <4>2. s \ {n + 1} \in SUBSET (1 .. n + 1) /\ n + 1 \notin s \ {n + 1}
        OBVIOUS
      <4>3. h[s \ {n + 1}] = g[s \ {n + 1}]
        BY <4>2
      <4> QED BY <3>1, <4>1, <4>3
    <3>2. CASE n + 1 \notin s
      <4>1. s \in SUBSET (1 .. n) /\ h[s] = g[s]
        BY <3>2
      <4>2. CASE s = {}
        BY <2>1, <4>1, <4>2 DEF EntitiesFold
      <4>3. CASE s # {}
        <5>1. s \ {Max(s)} \in SUBSET (1 .. n + 1) /\ n + 1 \notin s \ {Max(s)}
          BY <3>2
        <5>2. h[s \ {Max(s)}] = g[s \ {Max(s)}]
          BY <5>1
        <5> QED BY <2>1, <4>1, <4>3, <5>2 DEF EntitiesFold
      <4> QED BY <4>2, <4>3
    <3> QED BY <3>1, <3>2
  <2>3. h = [s \in SUBSET (1 .. n + 1) |-> h[s]]
    OBVIOUS
  <2>4. EntitiesFold(base, seq, n + 1, h)
    <3> HIDE DEF h
    <3> QED BY <2>2, <2>3 DEF EntitiesFold
  <2> QED BY <2>4
<1>3. Nat \subseteq S
  <2> HIDE DEF S
  <2> QED BY <1>1, <1>2, Induction
<1> QED BY <1>3

LEMMA EntitiesListed ==
  ASSUME NEW base, Listed(base), NEW seq, IsList(seq)
  PROVE  Listed(FoldLeft(AddEntity, base, seq))
<1>1. Len(seq) \in Nat /\ DOMAIN seq = 1 .. Len(seq)
  BY DEF IsList
<1> DEFINE g == CHOOSE f : EntitiesFold(base, seq, Len(seq), f)
<1>2. EntitiesFold(base, seq, Len(seq), g)
  BY <1>1, EntitiesFoldExists
<1>3. FoldLeft(AddEntity, base, seq) = g[1 .. Len(seq)]
  BY <1>1 DEF FoldLeft, MapThenFoldSet, EntitiesFold
<1> HIDE DEF g
<1> DEFINE S == {n \in Nat : \A s \in SUBSET (1 .. Len(seq)) : s \subseteq 1 .. n => Listed(g[s])}
<1>4. 0 \in S
  BY <1>2 DEF EntitiesFold
<1>5. ASSUME NEW n \in Nat, n \in S PROVE n + 1 \in S
  <2> SUFFICES ASSUME NEW s \in SUBSET (1 .. Len(seq)), s \subseteq 1 .. n + 1 PROVE Listed(g[s])
    OBVIOUS
  <2>1. CASE n + 1 \notin s
    BY <1>5, <2>1
  <2>2. CASE n + 1 \in s
    <3>1. Max(s) = n + 1
      BY <2>2, GreatestLast
    <3>2. g[s] = AddEntity(g[s \ {n + 1}], seq[n + 1])
      BY <1>2, <2>2, <3>1 DEF EntitiesFold
    <3>3. Listed(g[s \ {n + 1}])
      BY <1>5
    <3>4. n + 1 \in DOMAIN seq
      BY <1>1, <2>2
    <3> QED BY <3>2, <3>3, <3>4, AddEntityListed
  <2> QED BY <2>1, <2>2
<1>6. Nat \subseteq S
  <2> HIDE DEF S
  <2> QED BY <1>4, <1>5, Induction
<1> QED BY <1>1, <1>3, <1>6

(* Adding the services of a file.  *)
ServicesFold(files, base, seq, n, g) ==
  g = [s \in SUBSET (1 .. n) |-> IF s = {} THEN base ELSE ModelFromService(g[s \ {Max(s)}], seq[Max(s)], files)]

LEMMA ServicesFoldExists ==
  ASSUME NEW files, NEW base, NEW seq, NEW k \in Nat
  PROVE  \E g : ServicesFold(files, base, seq, k, g)
<1> DEFINE S == {n \in Nat : \E g : ServicesFold(files, base, seq, n, g)}
<1>1. 0 \in S
  <2>1. SUBSET (1 .. 0) = {{}}
    OBVIOUS
  <2>2. ServicesFold(files, base, seq, 0, [s \in {{}} |-> base])
    BY <2>1 DEF ServicesFold
  <2> QED BY <2>2
<1>2. ASSUME NEW n \in Nat, n \in S PROVE n + 1 \in S
  <2>1. PICK g : ServicesFold(files, base, seq, n, g)
    BY <1>2
  <2> DEFINE h == [s \in SUBSET (1 .. n + 1) |->
                     IF n + 1 \in s THEN ModelFromService(g[s \ {n + 1}], seq[n + 1], files) ELSE g[s]]
  <2>2. ASSUME NEW s \in SUBSET (1 .. n + 1)
        PROVE  h[s] = IF s = {} THEN base ELSE ModelFromService(h[s \ {Max(s)}], seq[Max(s)], files)
    <3>1. CASE n + 1 \in s
      <4>1. Max(s) = n + 1
        BY <3>1, GreatestLast
      <4>2. s \ {n + 1} \in SUBSET (1 .. n + 1) /\ n + 1 \notin s \ {n + 1}
        OBVIOUS
      <4>3. h[s \ {n + 1}] = g[s \ {n + 1}]
        BY <4>2
      <4> QED BY <3>1, <4>1, <4>3
    <3>2. CASE n + 1 \notin s
      <4>1. s \in SUBSET (1 .. n) /\ h[s] = g[s]
        BY <3>2
      <4>2. CASE s = {}
        BY <2>1, <4>1, <4>2 DEF ServicesFold
      <4>3. CASE s # {}
        <5>1. s \ {Max(s)} \in SUBSET (1 .. n + 1) /\ n + 1 \notin s \ {Max(s)}
          BY <3>2
        <5>2. h[s \ {Max(s)}] = g[s \ {Max(s)}]
          BY <5>1
        <5> QED BY <2>1, <4>1, <4>3, <5>2 DEF ServicesFold
      <4> QED BY <4>2, <4>3
    <3> QED BY <3>1, <3>2
  <2>3. h = [s \in SUBSET (1 .. n + 1) |-> h[s]]
    OBVIOUS
  <2>4. ServicesFold(files, base, seq, n + 1, h)
    <3> HIDE DEF h
    <3> QED BY <2>2, <2>3 DEF ServicesFold
  <2> QED BY <2>4
<1>3. Nat \subseteq S
  <2> HIDE DEF S
  <2> QED BY <1>1, <1>2, Induction
<1> QED BY <1>3

ServicesOf(files, base, seq) == FoldLeft(LAMBDA m, service : ModelFromService(m, service, files), base, seq)

LEMMA ServicesListed ==
  ASSUME NEW files, NEW base, Listed(base), NEW seq, IsList(seq)
  PROVE  Listed(ServicesOf(files, base, seq))
<1>1. Len(seq) \in Nat /\ DOMAIN seq = 1 .. Len(seq)
  BY DEF IsList
<1> DEFINE g == CHOOSE f : ServicesFold(files, base, seq, Len(seq), f)
<1>2. ServicesFold(files, base, seq, Len(seq), g)
  BY <1>1, ServicesFoldExists
<1>3. ServicesOf(files, base, seq) = g[1 .. Len(seq)]
  BY <1>1 DEF ServicesOf, FoldLeft, MapThenFoldSet, ServicesFold
<1> HIDE DEF g
<1> DEFINE S == {n \in Nat : \A s \in SUBSET (1 .. Len(seq)) : s \subseteq 1 .. n => Listed(g[s])}
<1>4. 0 \in S
  BY <1>2 DEF ServicesFold
<1>5. ASSUME NEW n \in Nat, n \in S PROVE n + 1 \in S
  <2> SUFFICES ASSUME NEW s \in SUBSET (1 .. Len(seq)), s \subseteq 1 .. n + 1 PROVE Listed(g[s])
    OBVIOUS
  <2>1. CASE n + 1 \notin s
    BY <1>5, <2>1
  <2>2. CASE n + 1 \in s
    <3>1. Max(s) = n + 1
      BY <2>2, GreatestLast
    <3>2. g[s] = ModelFromService(g[s \ {n + 1}], seq[n + 1], files)
      BY <1>2, <2>2, <3>1 DEF ServicesFold
    <3>3. Listed(g[s \ {n + 1}])
      BY <1>5
    <3>4. n + 1 \in DOMAIN seq
      BY <1>1, <2>2
    <3> QED BY <3>2, <3>3, <3>4, ServiceListed
  <2> QED BY <2>1, <2>2
<1>6. Nat \subseteq S
  <2> HIDE DEF S
  <2> QED BY <1>4, <1>5, Induction
<1> QED BY <1>1, <1>3, <1>6

(* A file: its services, then its entities. *)
ModelFromFile(model, file, files) ==
  ModelFromDomainFile(FoldLeft(LAMBDA m, service : ModelFromService(m, service, files), model, file.services),
                      file)

IsFile(file) == IsList(file.services) /\ IsList(file.entities)

LEMMA FileListed ==
  ASSUME NEW model, Listed(model), NEW file, IsFile(file), NEW files
  PROVE  Listed(ModelFromFile(model, file, files))
<1>1. Listed(ServicesOf(files, model, file.services))
  BY ServicesListed DEF IsFile
<1>2. Listed(ModelFromDomainFile(ServicesOf(files, model, file.services), file))
  BY <1>1, EntitiesListed DEF IsFile, ModelFromDomainFile
<1> QED BY <1>2 DEF ServicesOf, ModelFromFile

(* The files of a project.  *)
FilesFold(files, base, seq, n, g) ==
  g = [s \in SUBSET (1 .. n) |-> IF s = {} THEN base ELSE ModelFromFile(g[s \ {Max(s)}], seq[Max(s)], files)]

LEMMA FilesFoldExists ==
  ASSUME NEW files, NEW base, NEW seq, NEW k \in Nat
  PROVE  \E g : FilesFold(files, base, seq, k, g)
<1> DEFINE S == {n \in Nat : \E g : FilesFold(files, base, seq, n, g)}
<1>1. 0 \in S
  <2>1. SUBSET (1 .. 0) = {{}}
    OBVIOUS
  <2>2. FilesFold(files, base, seq, 0, [s \in {{}} |-> base])
    BY <2>1 DEF FilesFold
  <2> QED BY <2>2
<1>2. ASSUME NEW n \in Nat, n \in S PROVE n + 1 \in S
  <2>1. PICK g : FilesFold(files, base, seq, n, g)
    BY <1>2
  <2> DEFINE h == [s \in SUBSET (1 .. n + 1) |->
                     IF n + 1 \in s THEN ModelFromFile(g[s \ {n + 1}], seq[n + 1], files) ELSE g[s]]
  <2>2. ASSUME NEW s \in SUBSET (1 .. n + 1)
        PROVE  h[s] = IF s = {} THEN base ELSE ModelFromFile(h[s \ {Max(s)}], seq[Max(s)], files)
    <3>1. CASE n + 1 \in s
      <4>1. Max(s) = n + 1
        BY <3>1, GreatestLast
      <4>2. s \ {n + 1} \in SUBSET (1 .. n + 1) /\ n + 1 \notin s \ {n + 1}
        OBVIOUS
      <4>3. h[s \ {n + 1}] = g[s \ {n + 1}]
        BY <4>2
      <4> QED BY <3>1, <4>1, <4>3
    <3>2. CASE n + 1 \notin s
      <4>1. s \in SUBSET (1 .. n) /\ h[s] = g[s]
        BY <3>2
      <4>2. CASE s = {}
        BY <2>1, <4>1, <4>2 DEF FilesFold
      <4>3. CASE s # {}
        <5>1. s \ {Max(s)} \in SUBSET (1 .. n + 1) /\ n + 1 \notin s \ {Max(s)}
          BY <3>2
        <5>2. h[s \ {Max(s)}] = g[s \ {Max(s)}]
          BY <5>1
        <5> QED BY <2>1, <4>1, <4>3, <5>2 DEF FilesFold
      <4> QED BY <4>2, <4>3
    <3> QED BY <3>1, <3>2
  <2>3. h = [s \in SUBSET (1 .. n + 1) |-> h[s]]
    OBVIOUS
  <2>4. FilesFold(files, base, seq, n + 1, h)
    <3> HIDE DEF h
    <3> QED BY <2>2, <2>3 DEF FilesFold
  <2> QED BY <2>4
<1>3. Nat \subseteq S
  <2> HIDE DEF S
  <2> QED BY <1>1, <1>2, Induction
<1> QED BY <1>3

FilesOf(files, base, seq) == FoldLeft(LAMBDA m, file : ModelFromFile(m, file, files), base, seq)

LEMMA FilesListed ==
  ASSUME NEW files, NEW base, Listed(base), NEW seq, IsList(seq), \A i \in DOMAIN seq : IsFile(seq[i])
  PROVE  Listed(FilesOf(files, base, seq))
<1>1. Len(seq) \in Nat /\ DOMAIN seq = 1 .. Len(seq)
  BY DEF IsList
<1> DEFINE g == CHOOSE f : FilesFold(files, base, seq, Len(seq), f)
<1>2. FilesFold(files, base, seq, Len(seq), g)
  BY <1>1, FilesFoldExists
<1>3. FilesOf(files, base, seq) = g[1 .. Len(seq)]
  BY <1>1 DEF FilesOf, FoldLeft, MapThenFoldSet, FilesFold
<1> HIDE DEF g
<1> DEFINE S == {n \in Nat : \A s \in SUBSET (1 .. Len(seq)) : s \subseteq 1 .. n => Listed(g[s])}
<1>4. 0 \in S
  BY <1>2 DEF FilesFold
<1>5. ASSUME NEW n \in Nat, n \in S PROVE n + 1 \in S
  <2> SUFFICES ASSUME NEW s \in SUBSET (1 .. Len(seq)), s \subseteq 1 .. n + 1 PROVE Listed(g[s])
    OBVIOUS
  <2>1. CASE n + 1 \notin s
    BY <1>5, <2>1
  <2>2. CASE n + 1 \in s
    <3>1. Max(s) = n + 1
      BY <2>2, GreatestLast
    <3>2. g[s] = ModelFromFile(g[s \ {n + 1}], seq[n + 1], files)
      BY <1>2, <2>2, <3>1 DEF FilesFold
    <3>3. Listed(g[s \ {n + 1}])
      BY <1>5
    <3>4. n + 1 \in DOMAIN seq
      BY <1>1, <2>2
    <3> QED BY <3>2, <3>3, <3>4, FileListed
  <2> QED BY <2>1, <2>2
<1>6. Nat \subseteq S
  <2> HIDE DEF S
  <2> QED BY <1>4, <1>5, Induction
<1> QED BY <1>1, <1>3, <1>6

LEMMA IntrospectListed ==
  ASSUME NEW files, IsList(files), \A i \in DOMAIN files : IsFile(files[i])
  PROVE  Listed(Introspect(files))
<1>1. Listed(EmptyModel)
  <2>1. <<>> \in Seq({}) /\ EmptyModel.services = <<>>
    BY DEF EmptyModel
  <2>2. ServiceList(EmptyModel.services)
    BY <2>1 DEF ServiceList
  <2>3. EmptyModel.entities = <<>>
    BY DEF EmptyModel
  <2>4. IsList(EmptyModel.entities)
    BY <2>1, <2>3 DEF IsList
  <2> QED BY <2>2, <2>4 DEF Listed, EmptyModel
<1>2. Listed(FilesOf(files, EmptyModel, files))
  BY <1>1, FilesListed
<1>3. Introspect(files) = FilesOf(files, EmptyModel, files)
  BY DEF Introspect, ModelFromFile, FilesOf
<1> QED BY <1>2, <1>3

----------------------------------------------------------------------------
(* Plans.  A file is the user's or the tools', by its directory.           *)

GeneratedIsApart == \A role \in {"source", "test", "integrationTest"} : Dir[role] # Dir["generated"]

WellPlaced(write) ==
  /\ "managed" \in DOMAIN write.content
  /\ \/ ~ write.ifMissing /\ write.content.managed = TRUE /\ write.path.dir = Dir["generated"]
     \/ write.ifMissing /\ write.content.managed = FALSE /\ write.path.dir # Dir["generated"]

PlanOk(p) == p \in Seq(Range(p)) /\ \A i \in DOMAIN p : WellPlaced(p[i])

LEMMA InRange ==
  ASSUME NEW T, NEW s \in Seq(T)
  PROVE  s \in Seq(Range(s)) /\ Range(s) \subseteq T
<1>1. Len(s) \in Nat /\ s = [i \in 1 .. Len(s) |-> s[i]] /\ DOMAIN s = 1 .. Len(s)
  OBVIOUS
<1>2. \A i \in 1 .. Len(s) : s[i] \in T /\ s[i] \in Range(s)
  BY <1>1 DEF Range
<1> QED BY <1>1, <1>2 DEF Range

LEMMA PlanOf ==
  ASSUME NEW T, NEW s \in Seq(T), \A t \in T : WellPlaced(t)
  PROVE  PlanOk(s)
<1>1. \A i \in DOMAIN s : s[i] \in T
  OBVIOUS
<1> QED BY <1>1, InRange DEF PlanOk

LEMMA EmptyPlan == PlanOk(<<>>)
<1> DEFINE s == <<>>
           T == {}
<1>1. s \in Seq(T) /\ \A t \in T : WellPlaced(t)
  OBVIOUS
<1> HIDE DEF s, T
<1>2. PlanOk(s)
  BY <1>1, PlanOf
<1> QED BY <1>2 DEF s

LEMMA AlwaysPlaced ==
  ASSUME NEW name, NEW kind, NEW content, "managed" \in DOMAIN content, content.managed = TRUE
  PROVE  WellPlaced(Always(Path("generated", name, kind), content))
BY DEF WellPlaced, Always, Path

LEMMA IfMissingPlaced ==
  ASSUME GeneratedIsApart, NEW role \in {"source", "test", "integrationTest"}, NEW name, NEW kind,
         NEW content, "managed" \in DOMAIN content, content.managed = FALSE
  PROVE  WellPlaced(IfMissing(Path(role, name, kind), content))
BY DEF WellPlaced, IfMissing, Path, GeneratedIsApart

LEMMA EntityPlanOk ==
  ASSUME GeneratedIsApart, NEW service, NEW entity
  PROVE  PlanOk(EntityPlan(service, entity))
<1> DEFINE name == entity.fqn.name
           types == Always(TypesPath(name), EntityTypes(service, entity))
           test == IfMissing(TestPath(name), EntityTest(service, entity, "Mock" \o entity.type))
           kit == IfMissing(IntegrationTestPath(name), EntityTest(service, entity, "IntegrationTestkit"))
           source == IfMissing(SourcePath(name), EntitySource(service, entity))
           W == {types, test, kit, source}
<1>1. WellPlaced(types)
  BY AlwaysPlaced DEF TypesPath, EntityTypes
<1>2. WellPlaced(test)
  BY IfMissingPlaced DEF TestPath, EntityTest
<1>3. WellPlaced(kit)
  BY IfMissingPlaced DEF IntegrationTestPath, EntityTest
<1>4. WellPlaced(source)
  BY IfMissingPlaced DEF SourcePath, EntitySource
<1>5. EntityPlan(service, entity)
        = <<types, test>> \o (IF IntegrationTests THEN <<kit>> ELSE <<>>) \o <<source>>
  BY DEF EntityPlan
<1> HIDE DEF name, types, test, kit, source
<1>6. <<types, test>> \in Seq(W) /\ <<kit>> \in Seq(W) /\ <<>> \in Seq(W) /\ <<source>> \in Seq(W)
  OBVIOUS
<1> HIDE DEF W
<1>7. (IF IntegrationTests THEN <<kit>> ELSE <<>>) \in Seq(W)
  BY <1>6
<1>8. \A a, b, c \in Seq(W) : a \o b \o c \in Seq(W)
  OBVIOUS
<1>9. EntityPlan(service, entity) \in Seq(W)
  BY <1>5, <1>6, <1>7, <1>8
<1> USE DEF W
<1> QED BY <1>1, <1>2, <1>3, <1>4, <1>9, PlanOf

LEMMA ActionPlanOk == ASSUME GeneratedIsApart, NEW service PROVE PlanOk(ActionPlan(service))
<1> DEFINE types == Always(TypesPath(service.fqn.name), ActionTypes(service))
           source == IfMissing(SourcePath(service.fqn.name), ActionSource(service))
<1>1. WellPlaced(types)
  BY AlwaysPlaced DEF TypesPath, ActionTypes
<1>2. WellPlaced(source)
  BY IfMissingPlaced DEF SourcePath, ActionSource
<1>3. ActionPlan(service) = <<types, source>>
  BY DEF ActionPlan
<1> HIDE DEF types, source
<1>4. ActionPlan(service) \in Seq({types, source})
  BY <1>3
<1> QED BY <1>1, <1>2, <1>4, PlanOf

LEMMA ViewPlanOk == ASSUME GeneratedIsApart, NEW service PROVE PlanOk(ViewPlan(service))
<1> DEFINE types == Always(TypesPath(service.fqn.name), ViewTypes(service))
           source == IfMissing(SourcePath(service.fqn.name), ViewSource(service))
<1>1. WellPlaced(types)
  BY AlwaysPlaced DEF TypesPath, ViewTypes
<1>2. WellPlaced(source)
  BY IfMissingPlaced DEF SourcePath, ViewSource
<1>3. ViewPlan(service) = <<types, source>>
  BY DEF ViewPlan
<1> HIDE DEF types, source
<1>4. ViewPlan(service) \in Seq({types, source})
  BY <1>3
<1> QED BY <1>1, <1>2, <1>4, PlanOf

LEMMA ServicePlanOk ==
  ASSUME GeneratedIsApart, NEW model, NEW service, service.type \in {"entity", "action", "view"}
  PROVE  PlanOk(ServicePlan(model, service))
<1>1. PlanOk(<<>>)
  BY EmptyPlan
<1>2. CASE ComponentNames(model, service) = <<>>
  <2>1. service.type # "action"
    BY <1>2 DEF ComponentNames
  <2>2. ServicePlan(model, service) = <<>>
    BY <1>2, <2>1 DEF ServicePlan
  <2> QED BY <1>1, <2>2
<1>3. CASE ComponentNames(model, service) # <<>>
  BY <1>3, EntityPlanOk, ActionPlanOk, ViewPlanOk DEF ServicePlan
<1> QED BY <1>2, <1>3

(* Flattening. *)
FlattenFcn(ss, n, g) ==
  g = [i \in 1 .. n |-> IF i = 1 THEN ss[i] ELSE g[i - 1] \o ss[i]]

LEMMA FlattenExists ==
  ASSUME NEW ss, NEW k \in Nat
  PROVE  \E g : FlattenFcn(ss, k, g)
<1> DEFINE S == {n \in Nat : \E g : FlattenFcn(ss, n, g)}
<1>1. 0 \in S
  <2>1. FlattenFcn(ss, 0, [i \in 1 .. 0 |-> <<>>])
    BY DEF FlattenFcn
  <2> QED BY <2>1
<1>2. ASSUME NEW n \in Nat, n \in S PROVE n + 1 \in S
  <2>1. PICK g : FlattenFcn(ss, n, g)
    BY <1>2
  <2> DEFINE h == [i \in 1 .. n + 1 |-> IF i = 1 THEN ss[i] ELSE g[i - 1] \o ss[i]]
  <2>2. ASSUME NEW i \in 1 .. n PROVE h[i] = g[i]
    <3>1. g[i] = IF i = 1 THEN ss[i] ELSE g[i - 1] \o ss[i]
      BY <2>1 DEF FlattenFcn
    <3>2. i \in 1 .. n + 1
      OBVIOUS
    <3> QED BY <3>1, <3>2
  <2>3. ASSUME NEW i \in 1 .. n + 1, i # 1 PROVE h[i] = h[i - 1] \o ss[i]
    <3>1. i - 1 \in 1 .. n
      BY <2>3
    <3> QED BY <2>2, <2>3, <3>1
  <2>4. h[1] = ss[1] /\ h = [i \in 1 .. n + 1 |-> h[i]]
    OBVIOUS
  <2>5. FlattenFcn(ss, n + 1, h)
    <3> HIDE DEF h
    <3> QED BY <2>3, <2>4 DEF FlattenFcn
  <2> QED BY <2>5
<1>3. Nat \subseteq S
  <2> HIDE DEF S
  <2> QED BY <1>1, <1>2, Induction
<1> QED BY <1>3

LEMMA FlattenType ==
  ASSUME NEW W, NEW ss \in Seq(Seq(W))
  PROVE  FlattenSeq(ss) \in Seq(W)
<1>1. Len(ss) \in Nat /\ \A i \in 1 .. Len(ss) : ss[i] \in Seq(W)
  OBVIOUS
<1>2. CASE Len(ss) = 0
  <2>1. ss = <<>>
    BY <1>2
  <2> QED BY <1>2, <2>1 DEF FlattenSeq
<1>3. CASE Len(ss) # 0
  <2> DEFINE g == CHOOSE f : FlattenFcn(ss, Len(ss), f)
  <2>1. FlattenFcn(ss, Len(ss), g)
    BY <1>1, FlattenExists
  <2>2. FlattenSeq(ss) = g[Len(ss)]
    BY <1>3 DEF FlattenSeq, FlattenFcn
  <2> HIDE DEF g
  <2> DEFINE S == {n \in Nat : n + 1 <= Len(ss) => g[n + 1] \in Seq(W)}
  <2>3. 0 \in S
    BY <1>1, <2>1 DEF FlattenFcn
  <2>4. ASSUME NEW n \in Nat, n \in S PROVE n + 1 \in S
    <3> SUFFICES ASSUME n + 2 <= Len(ss) PROVE g[n + 2] \in Seq(W)
      OBVIOUS
    <3>1. n + 2 \in 1 .. Len(ss) /\ n + 2 # 1 /\ (n + 2) - 1 = n + 1
      BY <1>1
    <3>2. g[n + 2] = g[n + 1] \o ss[n + 2]
      BY <2>1, <3>1 DEF FlattenFcn
    <3>3. g[n + 1] \in Seq(W) /\ ss[n + 2] \in Seq(W)
      BY <1>1, <2>4, <3>1
    <3> QED BY <3>2, <3>3
  <2>5. Nat \subseteq S
    <3> HIDE DEF S
    <3> QED BY <2>3, <2>4, Induction
  <2>6. Len(ss) - 1 \in Nat /\ (Len(ss) - 1) + 1 = Len(ss)
    BY <1>1, <1>3
  <2>7. Len(ss) - 1 \in S
    BY <2>5, <2>6
  <2> QED BY <1>1, <2>2, <2>6, <2>7
<1> QED BY <1>2, <1>3

LEMMA GeneratePlanOk ==
  ASSUME GeneratedIsApart, NEW model, ServiceList(model.services)
  PROVE  PlanOk(GeneratePlan(model))
<1> DEFINE services == model.services
           plans == [i \in DOMAIN services |-> ServicePlan(model, services[i])]
           index == Always(GeneratedIndexPath, GeneratedIndex(model))
           main == IfMissing(MainPath, Main)
           W == UNION {Range(plans[i]) : i \in DOMAIN services}
<1>1. Len(services) \in Nat /\ DOMAIN services = 1 .. Len(services)
      /\ \A i \in DOMAIN services : services[i].type \in {"entity", "action", "view"}
  BY DEF ServiceList
<1>2. \A i \in DOMAIN services : PlanOk(plans[i])
  BY <1>1, ServicePlanOk
<1>3. WellPlaced(index)
  BY AlwaysPlaced DEF GeneratedIndexPath, GeneratedIndex
<1>4. WellPlaced(main)
  BY IfMissingPlaced DEF MainPath, Main
<1>5. GeneratePlan(model) = IF services = <<>> THEN <<>> ELSE FlattenSeq(plans) \o <<index, main>>
  BY DEF GeneratePlan
<1>6. DOMAIN plans = 1 .. Len(services)
  BY <1>1
<1> HIDE DEF plans, index, main, services
<1>7. ASSUME NEW i \in DOMAIN services PROVE plans[i] \in Seq(W)
  <2>1. plans[i] \in Seq(Range(plans[i])) /\ Range(plans[i]) \subseteq W
    BY <1>2 DEF PlanOk
  <2> HIDE DEF W
  <2> QED BY <2>1
<1>8. \A w \in W : WellPlaced(w)
  BY <1>2 DEF PlanOk, Range
<1>9. PlanOk(<<>>)
  BY EmptyPlan
<1> HIDE DEF W
<1>10. plans \in Seq(Seq(W))
  <2>1. plans = [i \in 1 .. Len(services) |-> plans[i]]
    BY <1>6 DEF plans
  <2> QED BY <1>1, <1>7, <2>1
<1>11. FlattenSeq(plans) \in Seq(W)
  BY <1>10, FlattenType
<1> DEFINE V == W \cup {index, main}
<1>12. FlattenSeq(plans) \o <<index, main>> \in Seq(V)
  BY <1>11
<1>13. \A w \in V : WellPlaced(w)
  BY <1>3, <1>4, <1>8
<1>14. PlanOk(FlattenSeq(plans) \o <<index, main>>)
  <2> HIDE DEF V
  <2> QED BY <1>12, <1>13, PlanOf
<1> QED BY <1>5, <1>9, <1>14

LEMMA ProjectListed == \A p \in DOMAIN Projects : Listed(Introspect(Projects[p]))
<1> SUFFICES ASSUME NEW p \in DOMAIN Projects PROVE Listed(Introspect(Projects[p]))
  OBVIOUS
<1>1. Projects[p] \in Seq(Range(Projects[p])) /\ DOMAIN Projects[p] = 1 .. Len(Projects[p])
  BY ProjectBuildAssumption
<1>2. \A i \in DOMAIN Projects[p] : Projects[p][i] \in Range(Projects[p])
  BY DEF Range
<1>3. \A file \in Range(Projects[p]) :
        file.services \in Seq(Range(file.services)) /\ file.entities \in Seq(Range(file.entities))
  BY ProjectBuildAssumption
<1>4. IsList(Projects[p]) /\ \A i \in DOMAIN Projects[p] : IsFile(Projects[p][i])
  BY <1>1, <1>2, <1>3 DEF IsList, IsFile
<1> QED BY <1>4, IntrospectListed

LEMMA ProjectPlanOk ==
  ASSUME GeneratedIsApart, NEW p \in DOMAIN Projects
  PROVE  PlanOk(GeneratePlan(Introspect(Projects[p])))
BY ProjectListed, GeneratePlanOk DEF Listed

----------------------------------------------------------------------------
(* The user's files.                                                       *)

FilesInv ==
  /\ PlanOk(plan)
  /\ \A path \in DOMAIN fs : "managed" \in DOMAIN fs[path]
  /\ \A path \in DOMAIN fs : ~ fs[path].managed => path.dir # Dir["generated"]

LEMMA HeadTail ==
  ASSUME PlanOk(plan), plan # <<>>
  PROVE  /\ WellPlaced(Head(plan)) /\ PlanOk(Tail(plan))
         /\ Head(plan) \in Range(plan) /\ Range(plan) = {Head(plan)} \cup Range(Tail(plan))
<1>1. plan \in Seq(Range(plan)) /\ Len(plan) \in Nat /\ 1 \in DOMAIN plan /\ Head(plan) = plan[1]
      /\ DOMAIN plan = 1 .. Len(plan)
  BY DEF PlanOk
<1>2. WellPlaced(Head(plan)) /\ Head(plan) \in Range(plan)
  BY <1>1 DEF PlanOk, Range
<1>3. Tail(plan) \in Seq(Range(plan)) /\ DOMAIN Tail(plan) = 1 .. Len(plan) - 1
      /\ \A i \in DOMAIN Tail(plan) : i + 1 \in DOMAIN plan /\ Tail(plan)[i] = plan[i + 1]
  BY <1>1
<1>4. \A w \in Range(plan) : WellPlaced(w)
  BY DEF PlanOk, Range
<1>5. PlanOk(Tail(plan))
  BY <1>3, <1>4, PlanOf
<1>6. Range(plan) \subseteq {Head(plan)} \cup Range(Tail(plan))
  <2> SUFFICES ASSUME NEW i \in DOMAIN plan, i # 1 PROVE plan[i] \in Range(Tail(plan))
    BY <1>1 DEF Range
  <2>1. i - 1 \in DOMAIN Tail(plan) /\ (i - 1) + 1 = i
    BY <1>1, <1>3
  <2> QED BY <1>3, <2>1 DEF Range
<1>7. Range(Tail(plan)) \subseteq Range(plan)
  BY <1>3 DEF Range
<1> QED BY <1>2, <1>5, <1>6, <1>7

(* A step of the generator writes one file at most. *)
LEMMA WritesOne ==
  ASSUME GenerateFile
  PROVE  /\ plan # <<>> /\ plan' = Tail(plan)
         /\ \/ Head(plan).ifMissing /\ Head(plan).path \in DOMAIN fs /\ fs' = fs
            \/ /\ ~ (Head(plan).ifMissing /\ Head(plan).path \in DOMAIN fs)
               /\ fs' = [p \in DOMAIN fs \cup {Head(plan).path} |->
                           IF p = Head(plan).path THEN Head(plan).content ELSE fs[p]]
BY DEF GenerateFile, WriteFile, Exists

LEMMA FilesWritten == ASSUME FilesInv, GenerateFile PROVE FilesInv'
<1>1. PlanOk(plan') /\ WellPlaced(Head(plan))
  BY HeadTail, WritesOne DEF FilesInv
<1>2. ASSUME NEW path \in DOMAIN fs'
      PROVE  "managed" \in DOMAIN fs'[path] /\ (~ fs'[path].managed => path.dir # Dir["generated"])
  <2>1. CASE fs'[path] = Head(plan).content /\ path = Head(plan).path
    BY <1>1, <2>1 DEF WellPlaced
  <2>2. CASE path \in DOMAIN fs /\ fs'[path] = fs[path]
    BY <2>2 DEF FilesInv
  <2> QED BY <2>1, <2>2, WritesOne
<1> QED BY <1>1, <1>2 DEF FilesInv

LEMMA FilesEdited == ASSUME FilesInv, EditSource \/ DeleteFile PROVE FilesInv'
<1>1. plan' = plan
  BY DEF EditSource, DeleteFile, exceptUser
<1>2. ASSUME NEW path \in DOMAIN fs'
      PROVE  /\ path \in DOMAIN fs /\ DOMAIN fs'[path] = DOMAIN fs[path]
             /\ "managed" \in DOMAIN fs[path] => fs'[path].managed = fs[path].managed
  <2>1. CASE EditSource
    <3>1. PICK p \in DOMAIN fs : fs' = [fs EXCEPT ![p].edited = @ + 1]
      BY <2>1 DEF EditSource
    <3>2. path \in DOMAIN fs
      BY <3>1
    <3>3. CASE p = path
      <4>1. fs'[path] = [fs[path] EXCEPT !.edited = @ + 1]
        BY <3>1, <3>2, <3>3
      <4> QED BY <3>2, <4>1
    <3>4. CASE p # path
      BY <3>1, <3>2, <3>4
    <3> QED BY <3>3, <3>4
  <2>2. CASE DeleteFile
    BY <2>2 DEF DeleteFile
  <2> QED BY <2>1, <2>2
<1> QED BY <1>1, <1>2 DEF FilesInv

LEMMA FilesPlanned == ASSUME GeneratedIsApart, BuildTypeOK, FilesInv, StartCodegen PROVE FilesInv'
<1>1. fs' = fs
  BY DEF StartCodegen, UnreadableDescriptor, StartGenerator, generatorVars
<1>2. CASE plan' = plan
  BY <1>1, <1>2 DEF FilesInv
<1>3. CASE plan' # plan
  <2>1. /\ descriptors["configured"] # Nothing
        /\ plan' = GeneratePlan(Introspect(Projects[descriptors["configured"]]))
    BY <1>3 DEF StartCodegen, UnreadableDescriptor, StartGenerator, generatorVars
  <2>2. descriptors["configured"] \in DOMAIN Projects
    BY <2>1 DEF BuildTypeOK
  <2>3. PlanOk(plan')
    BY <2>1, <2>2, ProjectPlanOk
  <2> QED BY <1>1, <2>3 DEF FilesInv
<1> QED BY <1>2, <1>3

(* Whoever else runs leaves the files and the plan alone. *)
LEMMA Bystanders ==
  ASSUME \/ CreateEntity \/ CopyTemplate \/ RemoveProject \/ Install \/ DownloadProtoc \/ DownloadCodegen
         \/ Build \/ CompileDescriptor \/ Pbjs \/ Pbts \/ Package \/ DeployProject \/ DockerBuild
         \/ PushAndDeploy \/ EditProtos \/ BumpVersion \/ UNCHANGED buildVars
  PROVE  UNCHANGED <<fs, plan>>
BY DEF CreateEntity, CopyTemplate, RemoveProject, Install, DownloadProtoc, DownloadCodegen, Build,
       CompileDescriptor, Pbjs, Pbts, Package, DeployProject, DockerBuild, PushAndDeploy, EditProtos,
       BumpVersion, projectVars, exceptTools, exceptImages, exceptUser, generatorVars, buildVars

LEMMA CodegenWrites ==
  ASSUME Codegen
  PROVE  \/ GenerateFile
         \/ plan' = plan /\ fs' = fs
         \/ plan' = <<>> /\ fs' = fs
BY DEF Codegen, GeneratorDies, generatorVars

LEMMA FilesNext ==
  ASSUME GeneratedIsApart, BuildTypeOK, FilesInv, [BuildNext]_buildVars PROVE FilesInv'
<1>1. CASE UNCHANGED <<fs, plan>>
  BY <1>1 DEF FilesInv
<1>2. CASE Codegen
  <2>1. CASE plan' = <<>> /\ fs' = fs
    BY <2>1, EmptyPlan DEF FilesInv
  <2> QED BY <1>1, <1>2, <2>1, CodegenWrites, FilesWritten
<1> QED BY <1>1, <1>2, Bystanders, FilesPlanned, FilesEdited DEF BuildNext, Scripts, User

(* UserFilesKept, for a directory of generated files of its own.           *)
THEOREM FilesTheorem == ASSUME GeneratedIsApart PROVE BuildSpec => UserFilesKept
<1>1. BuildInit => FilesInv
  BY EmptyPlan DEF BuildInit, GeneratorInit, FilesInv
<1>2. GeneratedIsApart /\ BuildTypeOK /\ FilesInv /\ [BuildNext]_buildVars => FilesInv'
  BY FilesNext
<1>3. BuildTypeOK /\ FilesInv /\ [BuildNext]_buildVars =>
        [edits' = edits =>
           \A path \in DOMAIN fs : ~fs[path].managed => Exists(path)' /\ fs'[path] = fs[path]]_buildVars
  <2> SUFFICES ASSUME BuildTypeOK, FilesInv, BuildNext, edits' = edits,
                      NEW path \in DOMAIN fs, ~ fs[path].managed
               PROVE  path \in DOMAIN fs' /\ fs'[path] = fs[path]
    BY DEF Exists
  <2>1. ~ User
    BY DEF User, EditProtos, EditSource, DeleteFile, BumpVersion, UserActs, BuildTypeOK
  <2>2. CASE fs' = fs
    BY <2>2
  <2>3. CASE GenerateFile
    <3>1. WellPlaced(Head(plan))
      BY <2>3, HeadTail, WritesOne DEF FilesInv
    <3>2. CASE Head(plan).ifMissing
      BY <2>3, <3>2, WritesOne
    <3>3. CASE ~ Head(plan).ifMissing
      <4>1. Head(plan).path # path
        BY <3>1, <3>3 DEF WellPlaced, FilesInv
      <4> QED BY <2>3, <4>1, WritesOne
    <3> QED BY <3>2, <3>3
  <2>4. StartCodegen => fs' = fs
    BY DEF StartCodegen, UnreadableDescriptor, StartGenerator, generatorVars
  <2> QED BY <2>1, <2>2, <2>3, <2>4, Bystanders, CodegenWrites DEF BuildNext, Scripts
<1>4. GeneratedIsApart
  OBVIOUS
<1> QED BY <1>1, <1>2, <1>3, <1>4, BuildTypeInvariant, PTL DEF BuildSpec, UserFilesKept

----------------------------------------------------------------------------
(* Builds.  Each tool finds what the tools before it made of the present   *)
(* sources, and a managed file is written or still to be written.          *)

FullPlan == GeneratePlan(Introspect(Projects[protos]))
NamesApart ==
  \A p \in DOMAIN Projects :
    LET writes == Range(GeneratePlan(Introspect(Projects[p])))
    IN  \A v, w \in writes :
          v.path = w.path /\ v.content.managed /\ w.content.managed => v.content = w.content

DescriptorIsCurrent == descriptors["configured"] = protos
Written(write) == write.path \in DOMAIN fs /\ fs[write.path] = write.content

CurrentInv ==
  /\ script \in {"pbjs", "pbts", "start-codegen", "codegen"} => DescriptorIsCurrent
  /\ script \in {"pbts", "start-codegen", "codegen"} => protoJs = protos
  /\ script \in {"start-codegen", "codegen"} => protoTs = protos
  /\ script = "codegen" =>
       /\ Range(plan) \subseteq Range(FullPlan)
       /\ \A w \in Range(FullPlan) : w.content.managed => w \in Range(plan) \/ Written(w)

(* One write of the plan. *)
LEMMA WrittenNext ==
  ASSUME GeneratedIsApart, NamesApart, BuildTypeOK, FilesInv, GenerateFile,
         Range(plan) \subseteq Range(FullPlan),
         NEW w \in Range(FullPlan), w.content.managed, w \in Range(plan) \/ Written(w)
  PROVE  w \in Range(plan') \/ Written(w)'
<1> DEFINE h == Head(plan)
<1>1. WellPlaced(h) /\ h \in Range(FullPlan) /\ Range(plan) = {h} \cup Range(plan')
  BY HeadTail, WritesOne DEF FilesInv
<1>2. protos \in DOMAIN Projects
  BY DEF BuildTypeOK
<1>3. PlanOk(FullPlan)
  BY <1>2, ProjectPlanOk DEF FullPlan
<1>4. WellPlaced(w)
  BY <1>3 DEF PlanOk, Range
<1>5. w.content.managed = TRUE /\ ~ w.ifMissing /\ w.path.dir = Dir["generated"]
  BY <1>4 DEF WellPlaced
<1>6. CASE w = h
  <2>1. ~ h.ifMissing
    BY <1>5, <1>6
  <2>2. fs' = [p \in DOMAIN fs \cup {h.path} |-> IF p = h.path THEN h.content ELSE fs[p]]
    BY <2>1, WritesOne
  <2> QED BY <1>6, <2>2 DEF Written
<1>7. CASE w # h
  <2> SUFFICES ASSUME w \notin Range(plan') PROVE Written(w)'
    OBVIOUS
  <2>1. Written(w)
    BY <1>1, <1>7
  <2>2. CASE fs' = fs
    BY <2>1, <2>2 DEF Written
  <2>3. CASE ~ h.ifMissing
    <3>1. h.content.managed
      BY <1>1, <2>3 DEF WellPlaced
    <3>2. h.path = w.path => h.content = w.content
      BY <1>1, <1>2, <3>1 DEF NamesApart, FullPlan
    <3> QED BY <2>1, <2>3, <3>2, WritesOne DEF Written
  <2>4. CASE h.ifMissing
    <3>1. h.path # w.path
      BY <1>1, <1>5, <2>4 DEF WellPlaced
    <3> QED BY <2>1, <3>1, WritesOne DEF Written
  <2> QED BY <2>3, <2>4
<1> QED BY <1>6, <1>7

LEMMA CodegenCurrent ==
  ASSUME GeneratedIsApart, NamesApart, BuildTypeOK, FilesInv, CurrentInv, Codegen
  PROVE  CurrentInv'
<1>1. script = "codegen" /\ UNCHANGED <<protos, descriptors, protoJs, protoTs>>
  BY DEF Codegen, exceptArtifacts, artifactVars
<1>2. CASE script' = "idle"
  BY <1>2 DEF CurrentInv
<1>3. CASE GenerateFile /\ script' = "codegen"
  <2>1. FullPlan' = FullPlan
    BY <1>1 DEF FullPlan
  <2>2. Range(plan') \subseteq Range(plan)
    BY <1>3, HeadTail, WritesOne DEF FilesInv
  <2>3. Range(plan) \subseteq Range(FullPlan)
        /\ \A w \in Range(FullPlan) : w.content.managed => w \in Range(plan) \/ Written(w)
    BY <1>1 DEF CurrentInv
  <2>4. \A w \in Range(FullPlan) : w.content.managed => w \in Range(plan') \/ Written(w)'
    BY <1>3, <2>3, WrittenNext
  <2>5. DescriptorIsCurrent' /\ protoJs' = protos' /\ protoTs' = protos'
    BY <1>1 DEF CurrentInv, DescriptorIsCurrent
  <2>6. Range(plan)' \subseteq Range(FullPlan)'
    BY <2>1, <2>2, <2>3
  <2>7. \A w \in Range(FullPlan)' : w.content.managed => w \in Range(plan)' \/ Written(w)'
    BY <2>1, <2>4
  <2> QED BY <2>5, <2>6, <2>7 DEF CurrentInv
<1> QED BY <1>2, <1>3 DEF Codegen, Continue, Succeed, Abort

LEMMA StartCurrent == ASSUME BuildTypeOK, CurrentInv, StartCodegen PROVE CurrentInv'
<1>1. script = "start-codegen" /\ UNCHANGED <<protos, descriptors, protoJs, protoTs>>
  BY DEF StartCodegen, exceptArtifacts, artifactVars
<1>2. CASE script' = "idle"
  BY <1>2 DEF CurrentInv
<1>3. CASE script' # "idle"
  <2>1. script' = "codegen" /\ StartGenerator(Introspect(Projects[descriptors["configured"]]))
    BY <1>3 DEF StartCodegen, UnreadableDescriptor, Continue, Succeed, Abort
  <2>2. plan' = FullPlan /\ FullPlan' = FullPlan
    BY <1>1, <2>1 DEF StartGenerator, CurrentInv, DescriptorIsCurrent, FullPlan
  <2>3. DescriptorIsCurrent' /\ protoJs' = protos' /\ protoTs' = protos'
    BY <1>1 DEF CurrentInv, DescriptorIsCurrent
  <2> QED BY <2>1, <2>2, <2>3 DEF CurrentInv
<1> QED BY <1>2, <1>3

LEMMA ToolsCurrent ==
  ASSUME ~ DescriptorArgument, BuildTypeOK, CurrentInv, CompileDescriptor \/ Pbjs \/ Pbts
  PROVE  CurrentInv'
<1>1. CASE script' = "idle"
  BY <1>1 DEF CurrentInv
<1>2. CASE CompileDescriptor /\ script' # "idle"
  <2>1. script' = "pbjs" /\ descriptors' = [descriptors EXCEPT !["configured"] = protos] /\ protos' = protos
    BY <1>2 DEF CompileDescriptor, DescriptorOut, Continue, Abort, exceptArtifacts
  <2>2. descriptors'["configured"] = protos
    BY <2>1 DEF BuildTypeOK
  <2> QED BY <2>1, <2>2 DEF CurrentInv, DescriptorIsCurrent
<1>3. CASE Pbjs /\ script' # "idle"
  BY <1>3 DEF Pbjs, Continue, Abort, exceptArtifacts, CurrentInv, DescriptorIsCurrent
<1>4. CASE Pbts /\ script' # "idle"
  BY <1>4 DEF Pbts, Continue, Abort, exceptArtifacts, CurrentInv, DescriptorIsCurrent
<1> QED BY <1>1, <1>2, <1>3, <1>4

LEMMA CurrentNext ==
  ASSUME GeneratedIsApart, NamesApart, ~ DescriptorArgument, BuildTypeOK, FilesInv, CurrentInv,
         [BuildNext]_buildVars
  PROVE  CurrentInv'
<1>1. CASE UNCHANGED buildVars
  BY <1>1 DEF CurrentInv, DescriptorIsCurrent, FullPlan, Written, buildVars, artifactVars, generatorVars
<1>2. CASE script' \notin {"pbjs", "pbts", "start-codegen", "codegen"}
  BY <1>2 DEF CurrentInv
<1>3. CASE \/ CreateEntity \/ CopyTemplate \/ RemoveProject \/ Install \/ DownloadProtoc \/ DownloadCodegen
           \/ Build \/ Package \/ DeployProject \/ DockerBuild \/ PushAndDeploy \/ User
  <2>1. script' \notin {"pbjs", "pbts", "start-codegen", "codegen"}
        \/ (RemoveProject /\ script = "idle" /\ script' = "idle")
    BY <1>3 DEF CreateEntity, CopyTemplate, RemoveProject, Install, DownloadProtoc, DownloadCodegen, Build,
                Package, DeployProject, DockerBuild, PushAndDeploy, User, EditProtos, EditSource,
                DeleteFile, BumpVersion, UserActs, Begin, Continue, Succeed, Abort
  <2> QED BY <1>2, <2>1
<1> QED BY <1>1, <1>3, ToolsCurrent, StartCurrent, CodegenCurrent DEF BuildNext, Scripts

(* BuildIsCurrent, for the default place of the descriptor, a directory of *)
(* generated files of its own and components whose managed files do not    *)
(* share a name (EntityServiceSourceGenerator.scala:37 makes it lower      *)
(* case).                                                                  *)
THEOREM CurrentTheorem ==
  ASSUME GeneratedIsApart, NamesApart, ~ DescriptorArgument
  PROVE  BuildSpec => BuildIsCurrent
<1>1. BuildInit => FilesInv /\ CurrentInv
  BY EmptyPlan DEF BuildInit, GeneratorInit, FilesInv, CurrentInv
<1>2. GeneratedIsApart /\ BuildTypeOK /\ FilesInv /\ [BuildNext]_buildVars => FilesInv'
  BY FilesNext
<1>3. GeneratedIsApart /\ NamesApart /\ ~ DescriptorArgument /\ BuildTypeOK /\ FilesInv /\ CurrentInv
        /\ [BuildNext]_buildVars => CurrentInv'
  BY CurrentNext
<1>4. BuildTypeOK /\ CurrentInv /\ [BuildNext]_buildVars =>
        [Ends({"start-codegen", "codegen"}) =>
           /\ descriptors["configured"] = protos /\ protoJs = protos /\ protoTs = protos
           /\ \A write \in Range(GeneratePlan(Introspect(Projects[protos]))) :
                write.content.managed => Exists(write.path) /\ fs[write.path] = write.content]_buildVars
  <2> SUFFICES ASSUME BuildTypeOK, CurrentInv, BuildNext, Ends({"start-codegen", "codegen"})
               PROVE  /\ DescriptorIsCurrent /\ protoJs = protos /\ protoTs = protos
                      /\ \A w \in Range(FullPlan) : w.content.managed => Written(w)
    BY DEF DescriptorIsCurrent, FullPlan, Written, Exists
  <2>1. script \in {"start-codegen", "codegen"} /\ script' = "idle" /\ status' = "ok"
    BY DEF Ends
  <2>2. StartCodegen \/ Codegen
    BY <2>1 DEF BuildNext, Scripts, CreateEntity, CopyTemplate, RemoveProject, Install, DownloadProtoc,
                DownloadCodegen, Build, CompileDescriptor, Pbjs, Pbts, Package, DeployProject, DockerBuild,
                PushAndDeploy, User, EditProtos, EditSource, DeleteFile, BumpVersion, UserActs, Begin
  <2>3. DescriptorIsCurrent /\ protoJs = protos /\ protoTs = protos
    BY <2>1 DEF CurrentInv
  <2>4. ~ StartCodegen
    <3> SUFFICES ASSUME StartCodegen PROVE FALSE
      OBVIOUS
    <3>1. descriptors["configured"] = Nothing
      BY <2>1 DEF StartCodegen, UnreadableDescriptor, Continue, Succeed, Abort
    <3>2. 0 \notin DOMAIN Projects
      BY ProjectBuildAssumption
    <3> QED BY <2>3, <3>1, <3>2 DEF BuildTypeOK, DescriptorIsCurrent, Nothing
  <2>5. script = "codegen" /\ plan = <<>>
    BY <2>1, <2>2, <2>4 DEF Codegen, Continue, Abort
  <2>6. Range(plan) = {}
    BY <2>5 DEF Range
  <2> QED BY <2>3, <2>5, <2>6 DEF CurrentInv
<1>5. GeneratedIsApart /\ NamesApart /\ ~ DescriptorArgument
  OBVIOUS
<1> QED BY <1>1, <1>2, <1>3, <1>4, <1>5, BuildTypeInvariant, PTL DEF BuildSpec, BuildIsCurrent

----------------------------------------------------------------------------
(* The index.  What it imports is among the sources of the plan.           *)

LEMMA Least ==
  ASSUME NEW s \in SUBSET Nat, s # {}
  PROVE  Min(s) \in s /\ \A y \in s : Min(s) <= y
<1> DEFINE S == {n \in Nat : \A t \in SUBSET Nat : (\E m \in t : m <= n) => \E x \in t : \A y \in t : x <= y}
<1>1. 0 \in S
  OBVIOUS
<1>2. ASSUME NEW k \in Nat, k \in S PROVE k + 1 \in S
  <2> SUFFICES ASSUME NEW t \in SUBSET Nat, NEW m \in t, m <= k + 1
               PROVE  \E x \in t : \A y \in t : x <= y
    OBVIOUS
  <2>1. CASE \E j \in t : j <= k
    BY <1>2, <2>1
  <2>2. CASE ~ \E j \in t : j <= k
    BY <2>2
  <2> QED BY <2>1, <2>2
<1>3. Nat \subseteq S
  <2> HIDE DEF S
  <2> QED BY <1>1, <1>2, Induction
<1>4. PICK m \in s : m \in S
  BY <1>3
<1>5. \E x \in s : \A y \in s : x <= y
  BY <1>4
<1> QED BY <1>5 DEF Min

(* Entity, the look-up by name. *)
LEMMA EntityIs ==
  ASSUME NEW model, IsList(model.entities), NEW fqn, Entity(model, fqn) # <<>>
  PROVE  /\ DOMAIN Entity(model, fqn) = {1} /\ Head(Entity(model, fqn)) = Entity(model, fqn)[1]
         /\ Entity(model, fqn)[1].fqn = fqn
<1> DEFINE I == {i \in 1 .. Len(model.entities) : model.entities[i].fqn = fqn}
           known == IF I # {} THEN Min(I) ELSE 0
<1>1. Entity(model, fqn) = IF known = 0 THEN <<>> ELSE <<model.entities[known]>>
  BY DEF Entity, SelectInSeq
<1>2. I \subseteq Nat
  BY DEF IsList
<1>3. I # {} /\ Min(I) \in I
  <2>1. I # {}
    BY <1>1
  <2> HIDE DEF I
  <2> QED BY <1>2, <2>1, Least
<1>4. known # 0 /\ model.entities[known].fqn = fqn
  BY <1>1, <1>3
<1> HIDE DEF known
<1> QED BY <1>1, <1>4

(* Concatenation and flattening keep what is in the sequences. *)
LEMMA RangeOfBoth ==
  ASSUME NEW T, NEW a \in Seq(T), NEW b \in Seq(T)
  PROVE  Range(a \o b) = Range(a) \cup Range(b)
<1> DEFINE c == a \o b
<1>1. /\ Len(a) \in Nat /\ Len(b) \in Nat
      /\ DOMAIN a = 1 .. Len(a) /\ DOMAIN b = 1 .. Len(b) /\ DOMAIN c = 1 .. (Len(a) + Len(b))
      /\ \A i \in DOMAIN c : c[i] = IF i <= Len(a) THEN a[i] ELSE b[i - Len(a)]
  OBVIOUS
<1> HIDE DEF c
<1>2. ASSUME NEW i \in DOMAIN c PROVE c[i] \in Range(a) \cup Range(b)
  <2>1. CASE i <= Len(a)
    <3>1. i \in DOMAIN a
      BY <1>1, <2>1
    <3> QED BY <1>1, <2>1, <3>1 DEF Range
  <2>2. CASE ~ (i <= Len(a))
    <3>1. i - Len(a) \in DOMAIN b
      BY <1>1, <2>2
    <3> QED BY <1>1, <2>2, <3>1 DEF Range
  <2> QED BY <2>1, <2>2
<1>3. ASSUME NEW i \in DOMAIN a PROVE a[i] \in Range(c)
  <2>1. i \in DOMAIN c /\ c[i] = a[i]
    BY <1>1
  <2> QED BY <2>1 DEF Range
<1>4. ASSUME NEW i \in DOMAIN b PROVE b[i] \in Range(c)
  <2>1. i + Len(a) \in DOMAIN c /\ ~ (i + Len(a) <= Len(a)) /\ (i + Len(a)) - Len(a) = i
    BY <1>1
  <2>2. c[i + Len(a)] = b[i]
    BY <1>1, <2>1
  <2> QED BY <2>1, <2>2 DEF Range
<1>5. Range(c) \subseteq Range(a) \cup Range(b)
  BY <1>2 DEF Range
<1>6. Range(a) \subseteq Range(c) /\ Range(b) \subseteq Range(c)
  BY <1>3, <1>4 DEF Range
<1> QED BY <1>5, <1>6 DEF c

LEMMA FlattenRange ==
  ASSUME NEW W, NEW ss \in Seq(Seq(W))
  PROVE  Range(FlattenSeq(ss)) = UNION {Range(ss[i]) : i \in DOMAIN ss}
<1>1. Len(ss) \in Nat /\ DOMAIN ss = 1 .. Len(ss) /\ \A i \in 1 .. Len(ss) : ss[i] \in Seq(W)
  OBVIOUS
<1>2. CASE Len(ss) = 0
  <2>1. ss = <<>> /\ DOMAIN ss = {}
    BY <1>1, <1>2
  <2>2. FlattenSeq(ss) = ss
    BY <1>2 DEF FlattenSeq
  <2> QED BY <2>1, <2>2 DEF Range
<1>3. CASE Len(ss) # 0
  <2> DEFINE g == CHOOSE f : FlattenFcn(ss, Len(ss), f)
  <2>1. FlattenFcn(ss, Len(ss), g)
    BY <1>1, FlattenExists
  <2>2. FlattenSeq(ss) = g[Len(ss)]
    BY <1>3 DEF FlattenSeq, FlattenFcn
  <2> HIDE DEF g
  <2> DEFINE To(n) == UNION {Range(ss[i]) : i \in 1 .. n}
             S == {n \in Nat : n + 1 <= Len(ss) => g[n + 1] \in Seq(W) /\ Range(g[n + 1]) = To(n + 1)}
  <2>3. 0 \in S
    <3>1. 1 \in 1 .. Len(ss)
      BY <1>1, <1>3
    <3>2. g[1] = ss[1]
      BY <2>1, <3>1 DEF FlattenFcn
    <3>3. 1 .. 1 = {1}
      OBVIOUS
    <3>4. To(1) = Range(ss[1])
      BY <3>3
    <3> QED BY <1>1, <3>1, <3>2, <3>4
  <2>4. ASSUME NEW n \in Nat, n \in S PROVE n + 1 \in S
    <3>0. (n + 1) + 1 = n + 2
      OBVIOUS
    <3> SUFFICES ASSUME n + 2 <= Len(ss) PROVE g[n + 2] \in Seq(W) /\ Range(g[n + 2]) = To(n + 2)
      <4> HIDE DEF To
      <4> QED BY <3>0
    <3>1. n + 2 \in 1 .. Len(ss) /\ n + 2 # 1 /\ (n + 2) - 1 = n + 1
      BY <1>1
    <3>2. g[n + 2] = g[n + 1] \o ss[n + 2]
      BY <2>1, <3>1 DEF FlattenFcn
    <3>3. g[n + 1] \in Seq(W) /\ ss[n + 2] \in Seq(W) /\ Range(g[n + 1]) = To(n + 1)
      BY <1>1, <2>4, <3>1
    <3>4. To(n + 2) = To(n + 1) \cup Range(ss[n + 2])
      <4>1. 1 .. n + 2 = (1 .. n + 1) \cup {n + 2}
        OBVIOUS
      <4> QED BY <4>1
    <3>5. Range(g[n + 1] \o ss[n + 2]) = To(n + 1) \cup Range(ss[n + 2])
      BY <3>3, RangeOfBoth
    <3>6. g[n + 1] \o ss[n + 2] \in Seq(W)
      BY <3>3
    <3> HIDE DEF To
    <3> QED BY <3>2, <3>4, <3>5, <3>6
  <2>5. Nat \subseteq S
    <3> HIDE DEF S
    <3> QED BY <2>3, <2>4, Induction
  <2>6. Len(ss) - 1 \in Nat /\ (Len(ss) - 1) + 1 = Len(ss)
    BY <1>1, <1>3
  <2>7. Range(g[Len(ss)]) = To(Len(ss))
    <3>1. Len(ss) - 1 \in S
      BY <2>5, <2>6
    <3> HIDE DEF To
    <3> QED BY <1>1, <2>6, <3>1
  <2> QED BY <1>1, <2>2, <2>7
<1> QED BY <1>2, <1>3

(* What one service adds to the index. *)
ImportsOf(model, service) ==
  LET names == ComponentNames(model, service)
  IN  [j \in DOMAIN names |-> [name |-> ToLowerCase(names[j]), from |-> SourcePath(names[j]),
                               of |-> service.fqn]]

(* A source the plan makes sure of, for a component of the service. *)
SourceFor(write, import) ==
  write.path = import.from /\ "of" \in DOMAIN write.content /\ write.content.of = import.of

LEMMA EntityPlanHas ==
  ASSUME NEW service, NEW entity
  PROVE  IfMissing(SourcePath(entity.fqn.name), EntitySource(service, entity))
           \in Range(EntityPlan(service, entity))
<1> DEFINE name == entity.fqn.name
           types == Always(TypesPath(name), EntityTypes(service, entity))
           test == IfMissing(TestPath(name), EntityTest(service, entity, "Mock" \o entity.type))
           kit == IfMissing(IntegrationTestPath(name), EntityTest(service, entity, "IntegrationTestkit"))
           source == IfMissing(SourcePath(name), EntitySource(service, entity))
           more == IF IntegrationTests THEN <<kit>> ELSE <<>>
           W == {types, test, kit, source}
<1>1. EntityPlan(service, entity) = <<types, test>> \o more \o <<source>>
  BY DEF EntityPlan
<1> HIDE DEF name, types, test, kit, source
<1>2. <<types, test>> \in Seq(W) /\ <<kit>> \in Seq(W) /\ <<>> \in Seq(W) /\ <<source>> \in Seq(W)
  OBVIOUS
<1> HIDE DEF W
<1>3. more \in Seq(W)
  BY <1>2
<1> HIDE DEF more
<1>4. \A a, b \in Seq(W) : a \o b \in Seq(W)
  OBVIOUS
<1>5. <<types, test>> \o more \in Seq(W)
  BY <1>2, <1>3, <1>4
<1>6. Range(EntityPlan(service, entity)) = Range(<<types, test>> \o more) \cup Range(<<source>>)
  BY <1>1, <1>2, <1>5, RangeOfBoth
<1>7. source \in Range(<<source>>)
  BY DEF Range
<1> QED BY <1>6, <1>7 DEF source, name

LEMMA ImportsPlanned ==
  ASSUME NEW model, Listed(model), NEW service, service.type \in {"entity", "action", "view"}
  PROVE  /\ IsList(ImportsOf(model, service))
         /\ \A import \in Range(ImportsOf(model, service)) :
              \E write \in Range(ServicePlan(model, service)) : SourceFor(write, import)
         /\ ComponentNames(model, service) # <<>> =>
              \E import \in Range(ImportsOf(model, service)) : import.of = service.fqn
<1> DEFINE one(name) == [name |-> ToLowerCase(name), from |-> SourcePath(name), of |-> service.fqn]
           names == ComponentNames(model, service)
           imports == ImportsOf(model, service)
<1>1. imports = [j \in DOMAIN names |-> one(names[j])]
  BY DEF ImportsOf
<1>2. ASSUME NEW name, names = <<name>>,
             NEW write \in Range(ServicePlan(model, service)),
             write.path = SourcePath(name), "of" \in DOMAIN write.content, write.content.of = service.fqn
      PROVE  /\ IsList(imports)
             /\ \A import \in Range(imports) :
                  \E w \in Range(ServicePlan(model, service)) : SourceFor(w, import)
             /\ \E import \in Range(imports) : import.of = service.fqn
  <2>1. DOMAIN names = 1 .. 1 /\ names[1] = name
    BY <1>2
  <2>2. imports = [j \in 1 .. 1 |-> one(names[j])]
    BY <1>1, <2>1
  <2>3. one(name).from = SourcePath(name) /\ one(name).of = service.fqn
    OBVIOUS
  <2> DEFINE it == one(name)
  <2>4. SourceFor(write, it)
    BY <1>2, <2>3 DEF SourceFor
  <2>5. DOMAIN imports = 1 .. 1 /\ imports[1] = it
    BY <2>1, <2>2
  <2> HIDE DEF it, imports, one, names
  <2>6. Range(imports) = {it}
    BY <2>5 DEF Range
  <2>7. imports \in Seq({it})
    BY <2>1, <2>2, <2>5 DEF it
  <2>8. IsList(imports)
    BY <2>7 DEF IsList
  <2>9. it.of = service.fqn
    BY <2>3 DEF it
  <2> QED BY <2>4, <2>6, <2>8, <2>9
<1>3. ASSUME names = <<>>
      PROVE  IsList(imports) /\ Range(imports) = {}
  <2>1. imports = [j \in {} |-> one(names[j])]
    BY <1>1, <1>3
  <2>2. imports \in Seq({})
    BY <2>1
  <2>3. DOMAIN imports = {}
    BY <2>1
  <2> HIDE DEF imports, names
  <2> QED BY <2>2, <2>3 DEF IsList, Range
<1>4. CASE service.type = "entity"
  <2> DEFINE found == Entity(model, service.component)
  <2>1. names = [i \in DOMAIN found |-> found[i].fqn.name]
    BY <1>4 DEF ComponentNames
  <2>2. CASE found = <<>>
    <3>1. names = [i \in {} |-> found[i].fqn.name]
      BY <2>1, <2>2
    <3>2. names = <<>>
      BY <3>1
    <3> QED BY <1>3, <3>2
  <2>3. CASE found # <<>>
    <3>1. DOMAIN found = {1} /\ Head(found) = found[1]
      BY <2>3, EntityIs DEF Listed
    <3> DEFINE entity == found[1]
               write == IfMissing(SourcePath(entity.fqn.name), EntitySource(service, entity))
    <3>2. names = [i \in {1} |-> found[i].fqn.name]
      BY <2>1, <3>1
    <3>3. names = <<entity.fqn.name>>
      BY <3>2
    <3>4. ServicePlan(model, service) = EntityPlan(service, entity)
      BY <1>4, <3>1, <3>3 DEF ServicePlan
    <3>5. write \in Range(ServicePlan(model, service))
      BY <3>4, EntityPlanHas
    <3>6. write.path = SourcePath(entity.fqn.name) /\ write.content = EntitySource(service, entity)
      BY DEF IfMissing
    <3>7. "of" \in DOMAIN write.content /\ write.content.of = service.fqn
      BY <3>6 DEF EntitySource
    <3> HIDE DEF write, entity, found, one
    <3> QED BY <1>2, <3>3, <3>5, <3>6, <3>7
  <2> QED BY <2>2, <2>3
<1>5. CASE service.type = "view" /\ service.transformedUpdates = <<>>
  <2>1. names = <<>>
    BY <1>5 DEF ComponentNames
  <2> QED BY <1>3, <2>1
<1>6. CASE service.type = "view" /\ service.transformedUpdates # <<>>
  <2> DEFINE write == IfMissing(SourcePath(service.fqn.name), ViewSource(service))
  <2>1. names = <<service.fqn.name>>
    BY <1>6 DEF ComponentNames
  <2>2. ServicePlan(model, service) = ViewPlan(service)
    BY <1>6, <2>1 DEF ServicePlan
  <2>3. write \in Range(ServicePlan(model, service))
    BY <2>2 DEF ViewPlan, Range
  <2>4. write.path = SourcePath(service.fqn.name) /\ write.content = ViewSource(service)
    BY DEF IfMissing
  <2>5. "of" \in DOMAIN write.content /\ write.content.of = service.fqn
    BY <2>4 DEF ViewSource
  <2> HIDE DEF write, one
  <2> QED BY <1>2, <2>1, <2>3, <2>4, <2>5
<1>7. CASE service.type = "action"
  <2> DEFINE write == IfMissing(SourcePath(service.fqn.name), ActionSource(service))
  <2>1. names = <<service.fqn.name>>
    BY <1>7 DEF ComponentNames
  <2>2. ServicePlan(model, service) = ActionPlan(service)
    BY <1>7, <2>1 DEF ServicePlan
  <2>3. write \in Range(ServicePlan(model, service))
    BY <2>2 DEF ActionPlan, Range
  <2>4. write.path = SourcePath(service.fqn.name) /\ write.content = ActionSource(service)
    BY DEF IfMissing
  <2>5. "of" \in DOMAIN write.content /\ write.content.of = service.fqn
    BY <2>4 DEF ActionSource
  <2> HIDE DEF write, one
  <2> QED BY <1>2, <2>1, <2>3, <2>4, <2>5
<1> QED BY <1>4, <1>5, <1>6, <1>7

LEMMA PlanHas ==
  ASSUME GeneratedIsApart, NEW model, Listed(model), NEW i \in DOMAIN model.services
  PROVE  Range(ServicePlan(model, model.services[i])) \subseteq Range(GeneratePlan(model))
<1> DEFINE services == model.services
           plans == [j \in DOMAIN services |-> ServicePlan(model, services[j])]
           index == Always(GeneratedIndexPath, GeneratedIndex(model))
           main == IfMissing(MainPath, Main)
           last == <<index, main>>
           planned == UNION {Range(plans[j]) : j \in DOMAIN services}
           W == planned \cup Range(last)
<1>1. Len(services) \in Nat /\ DOMAIN services = 1 .. Len(services)
      /\ \A j \in DOMAIN services : services[j].type \in {"entity", "action", "view"}
  BY DEF Listed, ServiceList
<1>2. \A j \in DOMAIN services : PlanOk(plans[j])
  BY <1>1, ServicePlanOk
<1>3. services # <<>>
  BY <1>1
<1>4. GeneratePlan(model) = FlattenSeq(plans) \o last
  BY <1>3 DEF GeneratePlan
<1>5. DOMAIN plans = 1 .. Len(services) /\ plans[i] = ServicePlan(model, services[i])
  BY <1>1
<1> HIDE DEF plans, services
<1>6. ASSUME NEW j \in DOMAIN services PROVE plans[j] \in Seq(W)
  <2>1. plans[j] \in Seq(Range(plans[j])) /\ Range(plans[j]) \subseteq W
    BY <1>2 DEF PlanOk
  <2> HIDE DEF W, planned
  <2> QED BY <2>1
<1>7. last \in Seq(W)
  <2>1. last \in Seq({index, main})
    <3> HIDE DEF index, main, W, planned
    <3> QED OBVIOUS
  <2> HIDE DEF index, main, last, planned
  <2>2. last \in Seq(Range(last))
    BY <2>1, InRange
  <2>3. Range(last) \subseteq W
    OBVIOUS
  <2> HIDE DEF W
  <2> QED BY <2>2, <2>3
<1> HIDE DEF W, last, planned
<1>8. plans \in Seq(Seq(W))
  <2>1. plans = [j \in 1 .. Len(services) |-> plans[j]]
    BY <1>5 DEF plans
  <2> QED BY <1>1, <1>6, <2>1
<1>9. FlattenSeq(plans) \in Seq(W) /\ Range(FlattenSeq(plans)) = UNION {Range(plans[j]) : j \in DOMAIN plans}
  BY <1>8, FlattenType, FlattenRange
<1>10. Range(GeneratePlan(model)) = Range(FlattenSeq(plans)) \cup Range(last)
  BY <1>4, <1>7, <1>9, RangeOfBoth
<1>11. Range(plans[i]) \subseteq Range(FlattenSeq(plans))
  BY <1>1, <1>5, <1>9 DEF services
<1> QED BY <1>5, <1>10, <1>11 DEF services

(* Every import is of a component whose source is planned, and every       *)
(* component is imported.                                                  *)
LEMMA IndexPlanned ==
  ASSUME GeneratedIsApart, NEW model, Listed(model)
  PROVE  /\ \A import \in Range(IndexImports(model)) :
              \E write \in Range(GeneratePlan(model)) : SourceFor(write, import)
         /\ \A service \in Range(model.services) :
              ComponentNames(model, service) # <<>> =>
                \E import \in Range(IndexImports(model)) : import.of = service.fqn
<1> DEFINE services == model.services
           parts == [i \in DOMAIN services |-> ImportsOf(model, services[i])]
           W == UNION {Range(parts[i]) : i \in DOMAIN services}
<1>1. Len(services) \in Nat /\ DOMAIN services = 1 .. Len(services)
      /\ \A i \in DOMAIN services : services[i].type \in {"entity", "action", "view"}
  BY DEF Listed, ServiceList
<1>2. IndexImports(model) = FlattenSeq(parts)
  BY DEF IndexImports, ImportsOf
<1>3. DOMAIN parts = DOMAIN services /\ \A i \in DOMAIN services : parts[i] = ImportsOf(model, services[i])
  OBVIOUS
<1> HIDE DEF parts
<1>4. ASSUME NEW i \in DOMAIN services PROVE parts[i] \in Seq(W)
  <2>1. PICK T : parts[i] \in Seq(T)
    BY <1>1, <1>3, ImportsPlanned DEF IsList
  <2>2. parts[i] \in Seq(Range(parts[i])) /\ Range(parts[i]) \subseteq W
    BY <2>1, InRange
  <2> HIDE DEF W
  <2> QED BY <2>2
<1> HIDE DEF W
<1>5. parts \in Seq(Seq(W))
  <2>1. parts = [i \in 1 .. Len(services) |-> parts[i]]
    BY <1>1 DEF parts
  <2> QED BY <1>1, <1>4, <2>1
<1>6. Range(IndexImports(model)) = UNION {Range(parts[i]) : i \in DOMAIN services}
  BY <1>2, <1>3, <1>5, FlattenRange
<1>7. ASSUME NEW import \in Range(IndexImports(model))
      PROVE  \E write \in Range(GeneratePlan(model)) : SourceFor(write, import)
  <2>1. PICK i \in DOMAIN services : import \in Range(ImportsOf(model, services[i]))
    BY <1>3, <1>6
  <2>2. PICK write \in Range(ServicePlan(model, services[i])) : SourceFor(write, import)
    BY <1>1, <2>1, ImportsPlanned
  <2> QED BY <2>2, PlanHas
<1>8. ASSUME NEW service \in Range(services), ComponentNames(model, service) # <<>>
      PROVE  \E import \in Range(IndexImports(model)) : import.of = service.fqn
  <2>1. PICK i \in DOMAIN services : service = services[i]
    BY DEF Range
  <2>2. PICK import \in Range(ImportsOf(model, service)) : import.of = service.fqn
    BY <1>1, <1>8, <2>1, ImportsPlanned
  <2>3. import \in Range(IndexImports(model))
    BY <1>3, <1>6, <2>1, <2>2
  <2> QED BY <2>2, <2>3
<1> QED BY <1>7, <1>8

----------------------------------------------------------------------------
(* ... and the sources of the plan are there in the end, of the component  *)
(* they were made for, whoever wrote them and whatever was edited since.   *)

PlanAt(p) == GeneratePlan(Introspect(Projects[p]))

\* No two components, of one set of sources or of two that follow each
\* other, have a source or test of the same path.
SourcesApart ==
  \A p, q \in DOMAIN Projects : \A v \in Range(PlanAt(p)), w \in Range(PlanAt(q)) :
    v.path = w.path /\ "of" \in DOMAIN w.content =>
      "of" \in DOMAIN v.content /\ v.content.of = w.content.of

\* A file is still of the component its content was made for.
KeepsOf(content, file) ==
  "of" \in DOMAIN content => "of" \in DOMAIN file /\ file.of = content.of

ServedInv ==
  /\ \A path \in DOMAIN fs : \E p \in DOMAIN Projects : \E w \in Range(PlanAt(p)) :
       w.path = path /\ KeepsOf(w.content, fs[path])
  /\ script = "codegen" => \A w \in Range(FullPlan) : w \in Range(plan) \/ w.path \in DOMAIN fs

(* Files are written from plans. *)
LEMMA ServedWritten ==
  ASSUME BuildTypeOK, FilesInv, CurrentInv, ServedInv, script = "codegen", GenerateFile,
         UNCHANGED protos
  PROVE  ServedInv'
<1> DEFINE h == Head(plan)
<1>1. h \in Range(plan) /\ Range(plan) = {h} \cup Range(plan')
  BY HeadTail, WritesOne DEF FilesInv
<1>2. h \in Range(FullPlan) /\ protos \in DOMAIN Projects /\ FullPlan = PlanAt(protos) /\ FullPlan' = FullPlan
  BY <1>1 DEF CurrentInv, BuildTypeOK, FullPlan, PlanAt
<1>3. /\ h.path \in DOMAIN fs' /\ DOMAIN fs \subseteq DOMAIN fs' /\ DOMAIN fs' = DOMAIN fs \cup {h.path}
      /\ \A path \in DOMAIN fs' : (path \in DOMAIN fs /\ fs'[path] = fs[path])
                                  \/ (path = h.path /\ fs'[path] = h.content)
  BY WritesOne
<1> HIDE DEF h
<1>4. ASSUME NEW path \in DOMAIN fs'
      PROVE  \E p \in DOMAIN Projects : \E w \in Range(PlanAt(p)) :
               w.path = path /\ KeepsOf(w.content, fs'[path])
  <2>1. CASE path \in DOMAIN fs /\ fs'[path] = fs[path]
    BY <2>1 DEF ServedInv
  <2>2. CASE path = h.path /\ fs'[path] = h.content
    <3>1. KeepsOf(h.content, fs'[path])
      BY <2>2 DEF KeepsOf
    <3> QED BY <1>2, <2>2, <3>1
  <2> QED BY <1>3, <2>1, <2>2
<1>5. \A w \in Range(FullPlan) : w \in Range(plan') \/ w.path \in DOMAIN fs'
  BY <1>1, <1>3 DEF ServedInv
<1>6. Range(plan)' = Range(plan')
  BY DEF Range
<1> QED BY <1>2, <1>4, <1>5 DEF ServedInv

LEMMA ServedEdited ==
  ASSUME ServedInv, EditSource \/ DeleteFile
  PROVE  ServedInv'
<1>1. script' # "codegen"
  BY DEF EditSource, DeleteFile, BumpVersion, UserActs
<1>2. ASSUME NEW path \in DOMAIN fs', NEW content, KeepsOf(content, fs[path])
      PROVE  path \in DOMAIN fs /\ KeepsOf(content, fs'[path])
  <2>1. CASE EditSource
    <3>1. PICK p \in DOMAIN fs : fs' = [fs EXCEPT ![p].edited = @ + 1]
      BY <2>1 DEF EditSource
    <3>2. path \in DOMAIN fs
      BY <3>1
    <3>3. CASE p = path
      <4>1. fs'[path] = [fs[path] EXCEPT !.edited = @ + 1]
        BY <3>1, <3>2, <3>3
      <4> QED BY <1>2, <3>2, <4>1 DEF KeepsOf
    <3>4. CASE p # path
      BY <1>2, <3>1, <3>2, <3>4
    <3> QED BY <3>3, <3>4
  <2>2. CASE DeleteFile
    BY <1>2, <2>2 DEF DeleteFile
  <2> QED BY <2>1, <2>2
<1>3. ASSUME NEW path \in DOMAIN fs'
      PROVE  \E p \in DOMAIN Projects : \E w \in Range(PlanAt(p)) :
               w.path = path /\ KeepsOf(w.content, fs'[path])
  <2>1. path \in DOMAIN fs
    <3>1. CASE EditSource
      BY <3>1 DEF EditSource
    <3>2. CASE DeleteFile
      BY <3>2 DEF DeleteFile
    <3> QED BY <3>1, <3>2
  <2>2. PICK p \in DOMAIN Projects : \E w \in Range(PlanAt(p)) : w.path = path /\ KeepsOf(w.content, fs[path])
    BY <2>1 DEF ServedInv
  <2>3. PICK w \in Range(PlanAt(p)) : w.path = path /\ KeepsOf(w.content, fs[path])
    BY <2>2
  <2>4. KeepsOf(w.content, fs'[path])
    BY <1>2, <2>3
  <2> QED BY <2>3, <2>4
<1> QED BY <1>1, <1>3 DEF ServedInv

LEMMA ServedStarted ==
  ASSUME BuildTypeOK, CurrentInv, ServedInv, StartCodegen
  PROVE  ServedInv'
<1>1. fs' = fs /\ script = "start-codegen" /\ UNCHANGED <<protos, descriptors>>
  BY DEF StartCodegen, UnreadableDescriptor, StartGenerator, generatorVars, exceptArtifacts, artifactVars
<1>2. script' = "codegen" => plan' = FullPlan /\ FullPlan' = FullPlan
  BY <1>1 DEF StartCodegen, UnreadableDescriptor, Continue, Succeed, Abort, StartGenerator, CurrentInv,
              DescriptorIsCurrent, FullPlan
<1>3. script' = "codegen" => \A w \in Range(FullPlan)' : w \in Range(plan)'
  BY <1>2 DEF Range
<1>4. \A path \in DOMAIN fs' : \E p \in DOMAIN Projects : \E w \in Range(PlanAt(p)) :
        w.path = path /\ KeepsOf(w.content, fs'[path])
  BY <1>1 DEF ServedInv
<1> QED BY <1>3, <1>4 DEF ServedInv

LEMMA ServedNext ==
  ASSUME BuildTypeOK, FilesInv, CurrentInv, ServedInv, [BuildNext]_buildVars
  PROVE  ServedInv'
<1>1. ASSUME fs' = fs, script' # "codegen" PROVE ServedInv'
  BY <1>1 DEF ServedInv
<1>2. CASE UNCHANGED buildVars
  BY <1>2 DEF ServedInv, FullPlan, buildVars, generatorVars
<1>3. CASE \/ CreateEntity \/ CopyTemplate \/ RemoveProject \/ Install \/ DownloadProtoc \/ DownloadCodegen
           \/ Build \/ CompileDescriptor \/ Pbjs \/ Pbts \/ Package \/ DeployProject \/ DockerBuild
           \/ PushAndDeploy \/ EditProtos \/ BumpVersion
  <2>1. script' # "codegen"
    BY <1>3 DEF CreateEntity, CopyTemplate, RemoveProject, Install, DownloadProtoc, DownloadCodegen, Build,
                CompileDescriptor, Pbjs, Pbts, Package, DeployProject, DockerBuild, PushAndDeploy,
                EditProtos, BumpVersion, UserActs, Begin, Continue, Succeed, Abort
  <2> QED BY <1>1, <1>3, <2>1, Bystanders
<1>4. CASE Codegen
  <2>1. script = "codegen" /\ UNCHANGED protos
    BY <1>4 DEF Codegen, exceptArtifacts
  <2>2. GenerateFile \/ (fs' = fs /\ script' # "codegen")
    BY <1>4 DEF Codegen, GeneratorDies, generatorVars, Continue, Succeed, Abort
  <2> QED BY <1>1, <2>1, <2>2, ServedWritten
<1> QED BY <1>2, <1>3, <1>4, ServedEdited, ServedStarted DEF BuildNext, Scripts, User

(* IndexIsServed, for the default place of the descriptor, a directory of  *)
(* generated files of its own, and names in lower case that are not those  *)
(* of two components: a source, once written, is not written again for the *)
(* component of another service (SourceGenerator.scala:189).               *)
THEOREM IndexTheorem ==
  ASSUME GeneratedIsApart, NamesApart, SourcesApart, ~ DescriptorArgument
  PROVE  BuildSpec => IndexIsServed
<1> DEFINE Served ==
             LET model == Introspect(Projects[protos])
             IN  /\ \A i \in Range(IndexImports(model)) : Exists(i.from) /\ fs[i.from].of = i.of
                 /\ \A service \in Range(model.services) :
                      ComponentNames(model, service) # <<>> =>
                        \E i \in Range(IndexImports(model)) : i.of = service.fqn
           Inv == FilesInv /\ CurrentInv /\ ServedInv
           Given == GeneratedIsApart /\ NamesApart /\ SourcesApart /\ ~ DescriptorArgument
<1>1. BuildInit => Inv
  BY EmptyPlan DEF BuildInit, GeneratorInit, FilesInv, CurrentInv, ServedInv
<1>2. Given /\ BuildTypeOK /\ Inv /\ [BuildNext]_buildVars => Inv'
  BY FilesNext, CurrentNext, ServedNext
<1>3. Given /\ BuildTypeOK /\ Inv /\ [BuildNext]_buildVars => [Ends({"codegen"}) => Served]_buildVars
  <2> SUFFICES ASSUME Given, BuildTypeOK, Inv, BuildNext, Ends({"codegen"}) PROVE Served
    OBVIOUS
  <2>1. script = "codegen" /\ script' = "idle" /\ status' = "ok"
    BY DEF Ends
  <2>2. Codegen
    BY <2>1 DEF BuildNext, Scripts, CreateEntity, CopyTemplate, RemoveProject, Install, DownloadProtoc,
                DownloadCodegen, Build, CompileDescriptor, Pbjs, Pbts, StartCodegen, Package, DeployProject,
                DockerBuild, PushAndDeploy, User, EditProtos, EditSource, DeleteFile, BumpVersion, UserActs, Begin
  <2>3. plan = <<>>
    BY <2>1, <2>2 DEF Codegen, Continue, Abort
  <2>4. Range(plan) = {}
    BY <2>3 DEF Range
  <2>5. protos \in DOMAIN Projects /\ FullPlan = PlanAt(protos)
    BY DEF BuildTypeOK, FullPlan, PlanAt
  <2> DEFINE model == Introspect(Projects[protos])
  <2>6. Listed(model) /\ FullPlan = GeneratePlan(model)
    BY <2>5, ProjectListed DEF FullPlan
  <2> HIDE DEF model
  <2>7. /\ \A import \in Range(IndexImports(model)) : \E write \in Range(FullPlan) : SourceFor(write, import)
        /\ \A service \in Range(model.services) :
             ComponentNames(model, service) # <<>> =>
               \E import \in Range(IndexImports(model)) : import.of = service.fqn
    BY <2>6, IndexPlanned
  <2>8. ASSUME NEW import \in Range(IndexImports(model))
        PROVE  Exists(import.from) /\ fs[import.from].of = import.of
    <3>1. PICK write \in Range(FullPlan) : SourceFor(write, import)
      BY <2>7
    <3>2. write.path \in DOMAIN fs
      BY <2>1, <2>4, <3>1 DEF ServedInv
    <3>3. PICK p \in DOMAIN Projects : \E w \in Range(PlanAt(p)) :
            w.path = write.path /\ KeepsOf(w.content, fs[write.path])
      BY <3>2 DEF ServedInv
    <3>4. PICK w \in Range(PlanAt(p)) : w.path = write.path /\ KeepsOf(w.content, fs[write.path])
      BY <3>3
    <3>5. "of" \in DOMAIN write.content /\ write.content.of = import.of /\ write.path = import.from
      BY <3>1 DEF SourceFor
    <3>6. "of" \in DOMAIN w.content /\ w.content.of = import.of
      BY <2>5, <3>1, <3>4, <3>5 DEF SourcesApart
    <3> QED BY <3>2, <3>4, <3>5, <3>6 DEF KeepsOf, Exists
  <2> QED BY <2>7, <2>8 DEF model
<1>4. Given
  OBVIOUS
<1> HIDE DEF Served, Inv, Given
<1>5. BuildSpec => [][Ends({"codegen"}) => Served]_buildVars
  BY <1>1, <1>2, <1>3, <1>4, BuildTypeInvariant, PTL DEF BuildSpec
<1> QED BY <1>5 DEF IndexIsServed, Served

----------------------------------------------------------------------------
(* The test kit: type correctness. *)

LEMMA TypeInit == Init => TypeOK
<1> SUFFICES ASSUME Init PROVE TypeOK
  OBVIOUS
<1>1. /\ proxies \in [Proxies -> {"new", "running", "serving", "stopping", "gone"}]
      /\ signals \in 0 .. MaxSignals
  BY ServiceAssumption DEF Init, ServiceInit
<1>2. /\ lost \in BOOLEAN
      /\ delayDiscoveryUntilProxyPortSet \in BOOLEAN /\ proxyPort \in BOOLEAN
      /\ discoveryCompleted \in BOOLEAN
      /\ proxySeen \in BOOLEAN /\ proxyHasTerminated \in BOOLEAN
      /\ waitingForProxyTermination \in BOOLEAN /\ devMode \in BOOLEAN
      /\ proxyContainer \in BOOLEAN /\ stopFailed \in BOOLEAN
  BY Zenon DEF Init, ServiceInit
<1>3. /\ process = "up" /\ server = "new" /\ preStarted = "none"
      /\ testkit \in {"absent", "idle"}
  BY Zenon DEF Init, ServiceInit
<1> QED BY <1>1, <1>2, <1>3 DEF TypeOK, ServiceTypeOK

USE ServiceAssumption DEF TypeOK, ServiceTypeOK, environment, flags, discovered, options,
                          serviceVars, kitVars, vars

LEMMA TypeStart ==
  ASSUME TypeOK, Deploy \/ StartKit \/ StartFails \/ Shutdown \/ ContainerStarted
  PROVE  TypeOK'
<1>1. CASE Deploy \/ StartKit
  BY <1>1 DEF Deploy, StartKit, Advances, Start
<1>2. CASE StartFails \/ Shutdown
  BY <1>2 DEF StartFails, Shutdown, Advances, TryShutdown
<1>3. CASE ContainerStarted
  <2>1. proxyPort' \in BOOLEAN /\ proxyContainer' \in BOOLEAN
    BY <1>3, Zenon DEF ContainerStarted, SetProxyPort
  <2> QED BY <1>3, <2>1 DEF ContainerStarted, Advances, SetProxyPort
<1> QED BY <1>1, <1>2, <1>3

LEMMA TypeKit ==
  ASSUME TypeOK,
         \/ ContainerFails \/ ShutdownKit \/ KitStopped
         \/ \E result \in {"ready", "failed"} : PollEnds(result)
         \/ \E failed \in BOOLEAN : ContainerStopped(failed)
  PROVE  TypeOK'
BY DEF ContainerFails, ShutdownKit, KitStopped, PollEnds, ContainerStopped, Advances, TryShutdown

LEMMA TypeProxy ==
  ASSUME TypeOK, NEW p \in Proxies,
         \/ SidecarStarts(p) \/ StartContainer(p)
         \/ (Probe(p) \/ ProxyTerminated(p) \/ ProxyGoes(p)) /\ UNCHANGED kitVars
  PROVE  TypeOK'
<1>1. CASE SidecarStarts(p) \/ StartContainer(p)
  BY <1>1 DEF SidecarStarts, StartContainer, ProxyStarts, Advances
<1>2. CASE Probe(p) /\ UNCHANGED kitVars
  BY <1>2 DEF Probe
<1>3. CASE ProxyTerminated(p) /\ UNCHANGED kitVars
  BY <1>3 DEF ProxyTerminated, Terminate
<1>4. CASE ProxyGoes(p) /\ UNCHANGED kitVars
  <2>1. (lost \/ proxies[p] # "stopping") \in BOOLEAN
    OBVIOUS
  <2> QED BY <1>4, <2>1 DEF ProxyGoes
<1> QED BY <1>1, <1>2, <1>3, <1>4

LEMMA TypeDiscover ==
  ASSUME TypeOK, NEW p \in Proxies, NEW answer, Discover(p, answer), UNCHANGED kitVars
  PROVE  TypeOK'
<1>1. /\ proxySeen' \in BOOLEAN /\ devMode' \in BOOLEAN /\ proxyHasTerminated' \in BOOLEAN
      /\ discoveryCompleted' \in BOOLEAN
  <2>1. proxySeen' = TRUE /\ proxyHasTerminated' = FALSE /\ discoveryCompleted' = TRUE
    BY DEF Discover
  <2>2. devMode' = TRUE \/ devMode' = FALSE
    <3>1. CASE p \in DevProxies
      BY <3>1 DEF Discover, Mode
    <3>2. CASE p \notin DevProxies
      BY <3>2 DEF Discover, Mode
    <3> QED BY <3>1, <3>2
  <2> QED BY <2>1, <2>2, Zenon
<1>2. proxies' \in [Proxies -> {"new", "running", "serving", "stopping", "gone"}]
      /\ preStarted' \in {"none", "set", "told"}
  BY DEF Discover
<1>3. UNCHANGED <<lost, signals, process, server, options, waitingForProxyTermination, kitVars>>
  BY DEF Discover
<1> QED BY <1>1, <1>2, <1>3

LEMMA TypeService ==
  ASSUME TypeOK, UNCHANGED kitVars,
         Drained \/ SigTerm \/ \E result \in {"serving", "failed"} : Bind(result)
  PROVE  TypeOK'
<1>1. CASE Drained \/ \E result \in {"serving", "failed"} : Bind(result)
  BY <1>1 DEF Drained, Bind
<1>2. CASE SigTerm
  <2>1. signals' \in 0 .. MaxSignals
    BY <1>2 DEF SigTerm
  <2>2. UNCHANGED <<proxies, lost, options, discovered, kitVars, proxySeen, proxyHasTerminated,
                    devMode>>
    BY <1>2 DEF SigTerm
  <2>3. waitingForProxyTermination' \in BOOLEAN
    BY <1>2, Zenon DEF SigTerm
  <2>4. process' \in {"up", "exited"} /\ server' \in {server, "closed"}
    BY <1>2 DEF SigTerm, Terminate
  <2> QED BY <2>1, <2>2, <2>3, <2>4
<1> QED BY <1>1, <1>2

(* Every variable of the service and the test kit keeps its type. *)
THEOREM TypeCorrect == Spec => []TypeOK
<1>1. TypeOK /\ [Next]_vars => TypeOK'
  <2> SUFFICES ASSUME TypeOK, [Next]_vars PROVE TypeOK'
    OBVIOUS
  <2>1. CASE UNCHANGED vars
    BY <2>1
  <2> QED BY <2>1, TypeStart, TypeKit, TypeProxy, TypeDiscover, TypeService DEF Next
<1> QED BY TypeInit, <1>1, PTL DEF Spec

----------------------------------------------------------------------------
(* The flags of the service are about the proxy that serves.               *)

(* A proxy that runs is the only one, and when it serves, the service has  *)
(* seen it, knows its mode, has not heard of its termination, and handles  *)
(* SIGTERM.                                                                *)
FlagsInv ==
  /\ \A p \in Proxies, q \in Proxies : Live(p) /\ Live(q) => p = q
  /\ \A p \in Proxies :
       proxies[p] = "serving" =>
         /\ proxySeen /\ ~ proxyHasTerminated /\ devMode = Mode(p)
         /\ server \notin {"new", "binding", "failed"}

LEMMA FlagsInit == Init => FlagsInv
BY DEF Init, ServiceInit, FlagsInv, Live

(* The service goes on without a change to the proxies and the flags. *)
LEMMA FlagsServer ==
  ASSUME TypeOK, FlagsInv,
         UNCHANGED <<proxies, proxySeen, proxyHasTerminated, devMode>>,
         server' # server => server' \notin {"new", "failed"},
         server' = "binding" => server \in {"new", "binding"}
  PROVE  FlagsInv'
BY DEF FlagsInv, Live, Mode

LEMMA FlagsStep ==
  ASSUME TypeOK, FlagsInv, Next
  PROVE  FlagsInv'
<1>1. CASE Deploy \/ StartKit
  BY <1>1, FlagsServer DEF Deploy, StartKit, Start
<1>2. CASE \/ StartFails \/ ContainerFails \/ ShutdownKit \/ KitStopped \/ ContainerStarted
           \/ \E result \in {"ready", "failed"} : PollEnds(result)
  BY <1>2, FlagsServer
     DEF StartFails, ContainerFails, ShutdownKit, KitStopped, ContainerStarted, PollEnds,
         SetProxyPort
<1>3. CASE Shutdown \/ \E failed \in BOOLEAN : ContainerStopped(failed)
  BY <1>3, FlagsServer DEF Shutdown, ContainerStopped, TryShutdown
<1>4. CASE \E p \in Proxies : SidecarStarts(p) \/ StartContainer(p)
  BY <1>4 DEF SidecarStarts, StartContainer, ProxyStarts, FlagsInv, Live, Mode
<1>5. CASE \E result \in {"serving", "failed"} : Bind(result)
  BY <1>5 DEF Bind, FlagsInv, Live, Mode
<1>6. CASE Drained \/ SigTerm
  BY <1>6, FlagsServer DEF Drained, SigTerm, Terminate
<1>7. CASE \E p \in Proxies : Probe(p)
  BY <1>7, FlagsServer DEF Probe
<1>8. CASE \E p \in Proxies : ProxyTerminated(p)
  BY <1>8 DEF ProxyTerminated, Terminate, Calls, FlagsInv, Live, Mode
<1>9. CASE \E p \in Proxies : ProxyGoes(p)
  BY <1>9 DEF ProxyGoes, FlagsInv, Live, Mode
<1>10. CASE \E p \in Proxies, answer \in {"running", "serving"} : Discover(p, answer)
  <2> PICK p \in Proxies, answer \in {"running", "serving"} : Discover(p, answer)
    BY <1>10
  <2>1. Live(p) /\ \A q \in Proxies : Live(q) => q = p
    BY DEF Discover, Calls, Live, FlagsInv
  <2>2. \A q \in Proxies : Live(q)' => q = p
    BY <2>1 DEF Discover, Live
  <2>3. proxySeen' /\ ~ proxyHasTerminated' /\ devMode' = Mode(p) /\ server' = "serving"
    BY DEF Discover, Calls, Serves
  <2> QED BY <2>2, <2>3 DEF FlagsInv, Live, Mode
<1> QED BY <1>1, <1>2, <1>3, <1>4, <1>5, <1>6, <1>7, <1>8, <1>9, <1>10 DEF Next

(* Only SIGTERM and ProxyTerminated end the process. *)
LEMMA ExitStep ==
  ASSUME TypeOK, FlagsInv, [Next]_vars, process' # process
  PROVE  \A p \in Proxies \ DevProxies : proxies'[p] # "serving"
<1>1. CASE SigTerm
  <2>1. StopsNow /\ proxies' = proxies
    BY <1>1 DEF SigTerm
  <2> QED BY <2>1 DEF StopsNow, Handled, FlagsInv, Mode
<1>2. CASE \E p \in Proxies : ProxyTerminated(p)
  BY <1>2 DEF ProxyTerminated, Calls, FlagsInv, Live
<1>3. CASE ~ SigTerm /\ \A p \in Proxies : ~ ProxyTerminated(p)
  BY <1>3
     DEF Next, Deploy, Start, Shutdown, TryShutdown, StartKit, StartFails, ContainerStarted,
         SetProxyPort, ContainerFails, PollEnds, ShutdownKit, ContainerStopped, KitStopped,
         SidecarStarts, StartContainer, ProxyStarts, Bind, Drained, Probe, ProxyGoes, Discover
<1> QED BY <1>1, <1>2, <1>3

(* The process never stops under a proxy that serves. *)
THEOREM NeverLeavesProxyTheorem == Spec => NeverLeavesProxy
<1>1. TypeOK /\ FlagsInv /\ [Next]_vars => FlagsInv'
  <2> SUFFICES ASSUME TypeOK, FlagsInv, [Next]_vars PROVE FlagsInv'
    OBVIOUS
  <2>1. CASE UNCHANGED vars
    BY <2>1, FlagsServer
  <2> QED BY <2>1, FlagsStep
<1>2. TypeOK /\ FlagsInv /\ [Next]_vars
        => [process' # process => \A p \in Proxies \ DevProxies : proxies'[p] # "serving"]_serviceVars
  BY ExitStep
<1> QED BY FlagsInit, TypeCorrect, <1>1, <1>2, PTL DEF Spec, NeverLeavesProxy

----------------------------------------------------------------------------
(* The test kit. *)

(* Before the kit knows its container's port discovery is refused; and a   *)
(* kit that does not know a container has none running, but while it waits *)
(* for one to start.                                                       *)
KitInv ==
  /\ ComponentsKnowPort
  /\ ShutdownAfterProxy
  /\ testkit # "absent" => delayDiscoveryUntilProxyPortSet
  /\ testkit \notin {"absent", "container"} /\ ~ proxyContainer
       => \A p \in Proxies : ~ Live(p)
  /\ testkit \in {"idle", "starting", "container"} => ~ proxyContainer

LEMMA KitInit == Init => KitInv
BY DEF Init, ServiceInit, KitInv, ComponentsKnowPort, ShutdownAfterProxy, Live

LEMMA KitStep ==
  ASSUME TypeOK, KitInv, Next
  PROVE  KitInv'
<1> USE DEF KitInv, ComponentsKnowPort, ShutdownAfterProxy, Live
<1>1. CASE Deploy \/ Shutdown \/ \E p \in Proxies : SidecarStarts(p)
  BY <1>1 DEF Deploy, Start, Shutdown, TryShutdown, SidecarStarts, ProxyStarts
<1>2. CASE StartKit \/ StartFails \/ ContainerStarted \/ ContainerFails
  BY <1>2 DEF StartKit, Start, StartFails, ContainerStarted, SetProxyPort, ContainerFails, Advances
<1>3. CASE \E p \in Proxies : StartContainer(p)
  BY <1>3 DEF StartContainer, ProxyStarts, Advances
<1>4. CASE ShutdownKit \/ KitStopped \/ \E result \in {"ready", "failed"} : PollEnds(result)
  BY <1>4 DEF ShutdownKit, KitStopped, PollEnds, Advances
<1>5. CASE \E failed \in BOOLEAN : ContainerStopped(failed)
  BY <1>5 DEF ContainerStopped, TryShutdown, Advances
<1>6. CASE /\ Drained \/ SigTerm \/ \E result \in {"serving", "failed"} : Bind(result)
           /\ UNCHANGED kitVars
  BY <1>6 DEF Drained, SigTerm, Terminate, Bind
<1>7. CASE /\ \E p \in Proxies : Probe(p) \/ ProxyTerminated(p) \/ ProxyGoes(p)
           /\ UNCHANGED kitVars
  BY <1>7 DEF Probe, ProxyTerminated, Terminate, Calls, ProxyGoes
<1>8. CASE /\ \E p \in Proxies, answer \in {"running", "serving"} : Discover(p, answer)
           /\ UNCHANGED kitVars
  BY <1>8 DEF Discover, Delayed, Calls
<1> QED BY <1>1, <1>2, <1>3, <1>4, <1>5, <1>6, <1>7, <1>8 DEF Next

LEMMA KitInvariant == Spec => []KitInv
<1>1. TypeOK /\ KitInv /\ [Next]_vars => KitInv'
  <2> SUFFICES ASSUME TypeOK, KitInv, [Next]_vars PROVE KitInv'
    OBVIOUS
  <2>1. CASE UNCHANGED vars
    BY <2>1 DEF KitInv, ComponentsKnowPort, ShutdownAfterProxy, Live
  <2> QED BY <2>1, KitStep
<1> QED BY KitInit, TypeCorrect, <1>1, PTL DEF Spec

(* In a test the components are only ever given the port of the container. *)
THEOREM PortTheorem == Spec => []ComponentsKnowPort
BY KitInvariant, PTL DEF KitInv

(* A test's server is only shut down when no proxy is left. *)
THEOREM ShutdownTheorem == Spec => []ShutdownAfterProxy
BY KitInvariant, PTL DEF KitInv
=============================================================================
