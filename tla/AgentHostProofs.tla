-------------------------- MODULE AgentHostProofs --------------------------
(***************************************************************************)
(* Proofs about AgentHost, for every set of deployments.                   *)
(*                                                                         *)
(* Five invariants carry the properties.  Deployed says what the build,    *)
(* the load and the admission established and that nothing changes it      *)
(* afterwards.  Served says of every invocation which call it may be       *)
(* making, how many attempts it made and what is known to be withdrawn.    *)
(* Rated says that the table of rate windows never had to forget one.      *)
(* Remembered says that the idempotency responses are counted exactly and  *)
(* fit, Recorded that each live one was produced by a guest.               *)
(***************************************************************************)
EXTENDS AgentHost, Arithmetic, FiniteSetTheorems, TLAPS

-----------------------------------------------------------------------------
(* What a manifest grants                                                  *)

\* A permission is in the plan when its capability's list has its resource:
\* grants_permission and permission_plan of krit-package agree.
LEMMA PlanGrants ==
  ASSUME NEW m, NEW capability, NEW resource
  PROVE  <<capability, resource>> \in PermissionPlan(m) <=> GrantsPermission(m, capability, resource)
  BY DEF PermissionPlan, GrantsPermission, When, Each, SecretNames

\* The runtime's GrantSet::from_manifest requests the plan of krit-package.
LEMMA PlanRequested == ASSUME NEW m PROVE PermissionPlan(m) = RequestedPermissions(m)
  BY DEF PermissionPlan, RequestedPermissions, SecretBindings, SecretNames

\* So the runtime grants what the manifest grants (GrantSet::grants).
LEMMA RuntimeGrants ==
  ASSUME NEW m, NEW capability, NEW resource
  PROVE  Grants(GrantSet(m), capability, resource) <=> GrantsPermission(m, capability, resource)
  BY PlanGrants, PlanRequested DEF Grants, GrantSet

\* A permission is a pair.
LEMMA PlanPairs == ASSUME NEW m, NEW p \in PermissionPlan(m) PROVE p = <<p[1], p[2]>>
  BY DEF PermissionPlan, When, Each

\* GrantSet::permits_bearer decides as Manifest::permits_bearer does.
LEMMA BearersAgree ==
  ASSUME NEW m, NEW secret, NEW origin
  PROVE  ManifestPermitsBearer(m, secret, origin) <=> PermitsBearer(GrantSet(m), secret, origin)
<1>1. Grants(GrantSet(m), "http.request", origin) <=> GrantsPermission(m, "http.request", origin)
  BY RuntimeGrants
<1>2. GrantsPermission(m, "secret.read", secret) <=> secret \in SecretNames(m)
  BY DEF GrantsPermission, SecretNames
<1>3. GrantSet(m).bindings = SecretBindings(m)
  BY DEF GrantSet
<1> QED
  BY <1>1, <1>2, <1>3 DEF ManifestPermitsBearer, PermitsBearer, SecretBindings

\* What is granted has an effect that is granted (permissions.rs: effects and
\* requested permissions come from the same lists).
LEMMA GrantedHasEffect ==
  ASSUME NEW m, NEW capability, NEW resource, GrantsPermission(m, capability, resource)
  PROVE  capability \in GrantSet(m).effects
  BY DEF GrantsPermission, GrantSet, When, SecretBindings, SecretNames

\* build_command and GrantSet::from_manifest derive the same effects.
LEMMA EffectsAgree == ASSUME NEW m PROVE GrantedEffects(m) = GrantSet(m).effects
  BY DEF GrantedEffects, GrantSet, When, SecretBindings, SecretNames

-----------------------------------------------------------------------------
(* From the package to a serving host                                      *)

HostLoad == LoadHost(C, D.manifest, D.fs, D.limits)

\* What each stage established.
Deployed ==
  /\ D \in Deployments
  /\ stage \in {"package", "unbuilt", "artifact", "unloaded", "host", "serving", "unfit"}
  /\ stage \notin {"package", "unbuilt"} =>
       build = BuildPackage(D.built, D.program, D.fs) /\ build.status = 0
  /\ stage \in {"host", "serving", "unfit"} =>
       LoadManifest(D.manifest, D.fs) /\ HostLoad.ok /\ grants = GrantSet(D.manifest)
  /\ stage = "serving" => Admits(grants, build.artifact, C, D.limits)
  /\ stage = "unloaded" => files = {} \/ (~HostLoad.ok /\ files = HostLoad.created)

\* Every other action leaves the deployment alone.
LEMMA OthersKeepDeployment ==
  ASSUME Next, ~Build, ~Load, ~Admit
  PROVE  UNCHANGED deploymentVars
  BY DEF Next, RuntimeStep, Environment, AnswerDirectly, GuestFails, Attempt, Charge, Dispatch,
         ResolveStops, TransferStops, BackoffEnds, Arrive, GuestReturns, AcquireSecret, SendHttp,
         InvokeAi, Search, HostCall, Resolved, WorkerExits, Answer, Cancel, Revoke, Tick

\* The stages keep what they established (build_command, load_for_platform,
\* Runtime::validate_agent_host).
LEMMA DeploymentKept == ASSUME Deployed, [Next]_vars PROVE Deployed'
<1>1. CASE Build
  BY <1>1 DEF Build, Deployed
<1>2. CASE Load
  BY <1>2 DEF Load, Deployed, HostLoad, C
<1>3. CASE Admit
  BY <1>3 DEF Admit, Deployed, HostLoad, C
<1>4. CASE ~Build /\ ~Load /\ ~Admit
  <2>1. UNCHANGED deploymentVars
    BY <1>4, OthersKeepDeployment DEF vars
  <2> QED
    BY <2>1 DEF deploymentVars, Deployed, HostLoad, C
<1> QED
  BY <1>1, <1>2, <1>3, <1>4

\* What a stage established holds as long as the host runs.
THEOREM DeploymentHolds == Spec => []Deployed
<1>1. Init => Deployed
  BY DEF Init, Deployed
<1> QED
  BY <1>1, DeploymentKept, PTL DEF Spec

\* The permission plan, grants_permission and the runtime's grant set agree on
\* every permission, and both decisions about a bearer on every origin.
THEOREM GrantsAgree == Spec => []GrantViewsAgree
<1>1. GrantViewsAgree
  <2> DEFINE probes == UNION {PermissionPlan(n) \cup GrantSet(n).requested : n \in {D.built, D.manifest}}
  <2>1. PermissionPlan(D.manifest) = GrantSet(D.manifest).requested
    BY PlanRequested DEF GrantSet
  <2>2. ASSUME NEW p \in probes
        PROVE  GrantsPermission(D.manifest, p[1], p[2]) <=> p \in PermissionPlan(D.manifest)
    <3>1. PICK n \in {D.built, D.manifest} : p \in PermissionPlan(n)
      BY <2>2, PlanRequested DEF GrantSet
    <3>2. p = <<p[1], p[2]>>
      BY <3>1, PlanPairs
    <3> QED
      BY <3>2, PlanGrants
  <2>3. \A s \in SecretNames(D.manifest), o \in D.manifest.http :
           ManifestPermitsBearer(D.manifest, s, o) <=> PermitsBearer(GrantSet(D.manifest), s, o)
    BY BearersAgree
  <2> QED
    BY <2>1, <2>2, <2>3 DEF GrantViewsAgree
<1> QED
  BY <1>1, PTL

\* A load that created a file and failed met a store whose file cannot be
\* created or does not open: every other check of load_for_platform precedes
\* open_durable_state or repeats one that does.
THEOREM RefusedLoads == Spec => []OnlyStoresLeaveFiles
<1>1. ASSUME Deployed PROVE OnlyStoresLeaveFiles
  <2> SUFFICES ASSUME stage = "unloaded", files # {}
               PROVE  \E p \in StoreFiles(C) : CannotCreate(D.fs, p) \/ ~Opens(D.fs, p)
    BY DEF OnlyStoresLeaveFiles
  <2>1. ~HostLoad.ok /\ HostLoad.created # {}
    BY <1>1 DEF Deployed
  <2>2. ConfigurationValid(C, D.manifest, D.fs, D.limits)
    BY <2>1 DEF HostLoad, LoadHost
  <2>3. ValidatePolicy(C) /\ CacheOpens(C) /\ SearchCatalogOpens(C) /\ ValidateConfiguration(C)
    BY <2>2 DEF ConfigurationValid, PolicyLoads, ValidateCache, ValidateSearch, SearchCatalogOpens,
                ConnectorValid
  <2>4. ~OpenDurableState(C, D.fs).ok
    BY <2>1, <2>3 DEF HostLoad, LoadHost
  <2> QED
    BY <2>3, <2>4 DEF OpenDurableState, StoreFiles
<1> QED
  BY <1>1, DeploymentHolds, PTL

\* A configuration that loads passes every check of validate_agent_host that
\* does not depend on the artifact.
THEOREM LoadedHostsAdmitted == Spec => []LoadedHostAdmitted
<1>1. ASSUME Deployed PROVE LoadedHostAdmitted
  <2> DEFINE nothing == [facts |-> [requirements |-> {}]]
  <2> SUFFICES ASSUME stage = "host"
               PROVE  /\ ValidateForRuntime(C, D.limits) /\ ConfiguredGranted(grants, C)
                      /\ DatabasesAdmitted(grants, nothing, C) /\ CacheAdmitted(grants, nothing, C)
                      /\ SearchAdmitted(grants, nothing, C) /\ DurableAdmitted(grants, nothing, C)
    BY DEF LoadedHostAdmitted
  <2>1. HostLoad.ok /\ grants = GrantSet(D.manifest) /\ D \in Deployments
    BY <1>1 DEF Deployed
  <2>2. nothing.facts.requirements = {}
    OBVIOUS
  <2> HIDE DEF nothing
  <2>3. CASE C.schema = 0
    <3>1. /\ C.config = {} /\ C.secrets = {}
          /\ DOMAIN C.state = {} /\ DOMAIN C.queues = {} /\ DOMAIN C.schedules = {} /\ DOMAIN C.buckets = {}
          /\ DOMAIN C.databases = {} /\ DOMAIN C.caches = {} /\ DOMAIN C.search = {} /\ DOMAIN C.ai = {}
          /\ DOMAIN C.httpRetries = {} /\ DOMAIN C.aiRetries = {} /\ DOMAIN C.httpRates = {}
          /\ DOMAIN C.aiRates = {}
      BY <2>1, <2>3, DeploymentAssumption DEF C
    <3> QED
      BY <2>2, <3>1 DEF ValidateForRuntime, ConfiguredGranted, DatabasesAdmitted, CacheAdmitted,
                        SearchAdmitted, DurableAdmitted
  <2>4. CASE C.schema # 0
    <3>1. ConfigurationValid(C, D.manifest, D.fs, D.limits)
      BY <2>1, <2>4 DEF HostLoad, LoadHost
    <3>2. \A capability, resource :
            Grants(grants, capability, resource) <=> GrantsPermission(D.manifest, capability, resource)
      BY <2>1, RuntimeGrants
    <3>3. \A secret, origin :
            PermitsBearer(grants, secret, origin) <=> ManifestPermitsBearer(D.manifest, secret, origin)
      BY <2>1, BearersAgree
    <3>4. \A name : /\ RequireManifestAi(D.manifest, name) => Grants(grants, "ai.invoke", name)
                    /\ RequireManifestHttp(D.manifest, name) => Grants(grants, "http.request", name)
                    /\ RequireManifestState(D.manifest, name) => Grants(grants, "state.transaction", name)
                    /\ name \in D.manifest.config => Grants(grants, "config.read", name)
      BY <3>2 DEF GrantsPermission, RequireManifestAi, RequireManifestHttp, RequireManifestState
    <3>5. \A secret, origin : RequireManifestBearer(D.manifest, secret, origin) =>
            Grants(grants, "secret.read", secret) /\ PermitsBearer(grants, secret, origin)
      BY <3>2, <3>3 DEF RequireManifestBearer, RequireManifestSecret
    <3>6. ValidateForRuntime(C, D.limits)
      BY <3>1 DEF ConfigurationValid
    <3>7. ConfiguredGranted(grants, C)
      <4>1. \A k \in C.config : Grants(grants, "config.read", k)
        BY <3>1, <3>4 DEF ConfigurationValid, LoadInputs
      <4>2. \A secret \in C.secrets : Grants(grants, "secret.read", secret)
        BY <3>1, <3>2 DEF ConfigurationValid, LoadInputs, RequireManifestSecret
      <4>3. PolicyLoads(C, D.manifest)
        BY <3>1 DEF ConfigurationValid
      <4> QED
        BY <3>4, <3>5, <4>1, <4>2, <4>3 DEF ConfiguredGranted, PolicyLoads
    <3>8. DatabasesAdmitted(grants, nothing, C)
      BY <2>2, <3>1, <3>2 DEF ConfigurationValid, ValidateDatabases, DatabasesAdmitted
    <3>9. CacheAdmitted(grants, nothing, C)
      BY <2>2, <3>1, <3>2 DEF ConfigurationValid, ValidateCache, CacheAdmitted
    <3>10. SearchAdmitted(grants, nothing, C)
      BY <2>2, <3>1, <3>2, <3>4, <3>5 DEF ConfigurationValid, ValidateSearch, SearchAdmitted
    <3>11. DurableAdmitted(grants, nothing, C)
      BY <2>2, <3>1, <3>2, <3>4 DEF ConfigurationValid, ValidateJobs, ResolveDurableState, DurableAdmitted
    <3> QED
      BY <3>6, <3>7, <3>8, <3>9, <3>10, <3>11
  <2> QED
    BY <2>3, <2>4
<1> QED
  BY <1>1, DeploymentHolds, PTL

\* What a build that succeeds decided, and what it wrote.
LEMMA BuiltArtifact ==
  ASSUME NEW m, NEW p, NEW fs, BuildPackage(m, p, fs).status = 0
  PROVE  LET checked == CheckedModule(p)
             d == BuildPackage(m, p, fs).artifact.metadata
             world == SelectWorld(checked.kind, checked.effects)
         IN /\ MissingRequirements(m, p) = {}
            /\ checked.effects \subseteq GrantedEffects(m)
            /\ world.ok
            /\ ValidateArtifact(BuildPackage(m, p, fs).artifact)
            /\ d.facts.requirements = checked.requirements /\ d.facts.effects = checked.effects
            /\ d.facts.world = world /\ d.imports = world.imports /\ d.identity = m.identity
<1> DEFINE checked == CheckedModule(p)
           built == BuildPackage(m, p, fs)
           assembled == AssembleComponent(m, checked)
<1>1. MissingRequirements(m, p) = {} /\ checked.effects \subseteq GrantedEffects(m) /\ built = assembled
  BY DEF BuildPackage, EmitComponent
<1> HIDE DEF checked
<1>2. SelectWorld(checked.kind, checked.effects).ok /\ ValidateArtifact(assembled.artifact)
  BY <1>1 DEF AssembleComponent
<1>3. LET d == assembled.artifact.metadata
          world == SelectWorld(checked.kind, checked.effects)
      IN /\ d.facts.requirements = checked.requirements /\ d.facts.effects = checked.effects
         /\ d.facts.world = world /\ d.imports = world.imports /\ d.identity = m.identity
  BY DEF AssembleComponent
<1> HIDE DEF built, assembled
<1>4. /\ MissingRequirements(m, p) = {} /\ checked.effects \subseteq GrantedEffects(m)
      /\ SelectWorld(checked.kind, checked.effects).ok /\ ValidateArtifact(built.artifact)
  BY <1>1, <1>2
<1>5. LET d == built.artifact.metadata
          world == SelectWorld(checked.kind, checked.effects)
      IN /\ d.facts.requirements = checked.requirements /\ d.facts.effects = checked.effects
         /\ d.facts.world = world /\ d.imports = world.imports /\ d.identity = m.identity
  BY <1>1, <1>3
<1> QED
  BY <1>4, <1>5 DEF built, checked

CallsRequire(p) == UNION {CallRequirements(c) : c \in p.calls}

\* check_module collects the requirements of the calls and the declaration.
LEMMA CheckedRequirements ==
  ASSUME NEW p
  PROVE  CheckedModule(p).requirements = CallsRequire(p) \cup DeclaredRequirement(p)
  BY DEF CheckedModule, CallsRequire

\* Nothing is denied exactly when every requirement, and every effect without
\* one, is granted (GrantSet::evaluate).
LEMMA NothingDenied ==
  ASSUME NEW m, NEW d
  PROVE  DeniedPermissions(GrantSet(m), d) = {} <=>
           /\ \A f \in d.facts.requirements : GrantsPermission(m, f[1], f[2])
           /\ \A e \in d.facts.effects :
                (\E f \in d.facts.requirements : f[1] = e) \/ GrantsPermission(m, e, None)
<1>1. \A capability, resource :
        capability \notin GrantSet(m).effects \/ ~Grants(GrantSet(m), capability, resource)
          <=> ~GrantsPermission(m, capability, resource)
  BY RuntimeGrants, GrantedHasEffect
<1> DEFINE required == d.facts.requirements \cup
                         {<<e, None>> : e \in {e \in d.facts.effects : ~\E r \in d.facts.requirements : r[1] = e}}
<1>2. DeniedPermissions(GrantSet(m), d) = {f \in required : ~GrantsPermission(m, f[1], f[2])}
  BY <1>1 DEF DeniedPermissions
<1>3. (\A f \in required : GrantsPermission(m, f[1], f[2])) <=>
         /\ \A f \in d.facts.requirements : GrantsPermission(m, f[1], f[2])
         /\ \A e \in d.facts.effects :
              (\E f \in d.facts.requirements : f[1] = e) \/ GrantsPermission(m, e, None)
  <2>1. \A f \in required : \/ f \in d.facts.requirements
                            \/ \E e \in d.facts.effects : /\ f[1] = e /\ f[2] = None
                                                          /\ ~\E r \in d.facts.requirements : r[1] = e
    OBVIOUS
  <2>2. \A e \in d.facts.effects : (~\E r \in d.facts.requirements : r[1] = e) =>
          \E f \in required : f[1] = e /\ f[2] = None
    <3> SUFFICES ASSUME NEW e \in d.facts.effects, ~\E r \in d.facts.requirements : r[1] = e
                 PROVE  \E f \in required : f[1] = e /\ f[2] = None
      OBVIOUS
    <3> WITNESS <<e, None>> \in required
    <3> QED
      OBVIOUS
  <2>3. d.facts.requirements \subseteq required
    OBVIOUS
  <2> HIDE DEF required
  <2> QED
    BY <2>1, <2>2, <2>3
<1> QED
  BY <1>2, <1>3

\* A served artifact makes only calls, and is only entered for a queue or a
\* schedule, that the manifest in force grants (permissions.rs: authorize).
THEOREM ServedCallsGranted == Spec => []AdmittedCallsGranted
<1>1. ASSUME Deployed PROVE AdmittedCallsGranted
  <2> DEFINE required == (UNION {CallRequirements(c) : c \in D.program.calls}) \cup DeclaredRequirement(D.program)
             d == build.artifact.metadata
  <2> SUFFICES ASSUME stage = "serving", NEW q \in required
               PROVE  GrantsPermission(D.manifest, q[1], q[2])
    BY DEF AdmittedCallsGranted
  <2>1. DeniedPermissions(GrantSet(D.manifest), d) = {}
    BY <1>1 DEF Deployed, Admits, Authorize
  <2>2. d.facts.requirements = CheckedModule(D.program).requirements
    BY <1>1, BuiltArtifact DEF Deployed
  <2>3. q \in d.facts.requirements
    BY <2>2 DEF CheckedModule
  <2> QED
    BY <2>1, <2>3, NothingDenied
<1> QED
  BY <1>1, DeploymentHolds, PTL

Effects ==
  {"io.stdout", "observe.log", "config.read", "http.request", "secret.read", "ai.invoke",
   "state.transaction", "queue.publish", "queue.consume", "schedule.trigger", "object.read",
   "object.write", "database.read", "database.write", "cache.read", "cache.write", "search.query",
   "search.vector"}

\* The world krit-wasm selects is one that krit-runtime's valid_policy_world
\* accepts, and its imports are those of its effects.
LEMMA SelectedWorldValid ==
  ASSUME NEW kind \in {"module", "webhook", "job", "schedule"}, NEW effects \in SUBSET Effects, NEW d,
         d.facts.effects = effects, d.facts.world = SelectWorld(kind, effects),
         d.imports = SelectWorld(kind, effects).imports, SelectWorld(kind, effects).ok
  PROVE  ValidPolicyWorld(d)
<1> DEFINE world == SelectWorld(kind, effects)
           imported == effects \ ExportEffect(kind)
           imports == Surfaces(imported)
           expected(e) == CASE e = "http.request" -> {IF "secret.read" \in effects THEN "http" ELSE "http-anonymous"}
                            [] e \in {"database.read", "database.write"} -> {"database"}
                            [] e \in {"queue.consume", "schedule.trigger"} -> {}
                            [] OTHER -> {e}
<1>1. imported \subseteq DOMAIN ImportSurface
  BY DEF SelectWorld, ImportSurface, ExportEffect
<1>2. world.imports = imports /\ world.kind = kind
  BY <1>1 DEF SelectWorld
<1>3. imports = UNION {expected(e) : e \in effects}
  <2>1. \A e \in imported : ImportSurface[e] = CASE e = "http.request" -> "http-anonymous"
                                                 [] e \in {"database.read", "database.write"} -> "database"
                                                 [] OTHER -> e
    BY <1>1 DEF ImportSurface
  <2>2. \A e \in effects : e \notin imported => expected(e) = {}
    BY DEF ExportEffect
  <2>3. \A e \in imported : e \notin {"queue.consume", "schedule.trigger"}
    BY <1>1 DEF ImportSurface
  <2>4. \A e : e \in {"secret.read", "http.request"} => (e \in imported <=> e \in effects)
    BY DEF ExportEffect
  <2> HIDE DEF imported
  <2>5. CASE {"http.request", "secret.read"} \subseteq imported
    <3>1. \A e \in imported : e # "http.request" => expected(e) = {ImportSurface[e]} /\ ImportSurface[e] # "http-anonymous"
      BY <2>1, <2>3, <1>1 DEF Effects, ImportSurface
    <3>2. expected("http.request") = {"http"} /\ ImportSurface["http.request"] = "http-anonymous"
      BY <2>1, <2>4, <2>5
    <3> HIDE DEF expected
    <3>3. UNION {expected(e) : e \in effects} = UNION {expected(e) : e \in imported}
      BY <2>2 DEF imported
    <3>4. Surfaces(imported) = ({ImportSurface[e] : e \in imported} \ {"http-anonymous"}) \cup {"http"}
      BY <2>5 DEF Surfaces
    <3> QED
      BY <2>5, <3>1, <3>2, <3>3, <3>4
  <2>6. CASE ~({"http.request", "secret.read"} \subseteq imported)
    <3>1. \A e \in imported : expected(e) = {ImportSurface[e]}
      BY <2>1, <2>3, <2>4, <2>6
    <3> HIDE DEF expected
    <3>2. UNION {expected(e) : e \in effects} = UNION {expected(e) : e \in imported}
      BY <2>2 DEF imported
    <3>3. Surfaces(imported) = {ImportSurface[e] : e \in imported}
      BY <2>6 DEF Surfaces
    <3> QED
      BY <3>1, <3>2, <3>3
  <2> QED
    BY <2>5, <2>6
<1>4. kind = "module" => effects = IF imports = {} THEN {} ELSE {"io.stdout"}
  <2>1. kind = "module" => effects \in {{}, {"io.stdout"}}
    BY DEF SelectWorld
  <2>2. effects = {} => imports = {}
    BY <1>3
  <2>3. effects = {"io.stdout"} => imports # {}
    BY <1>3
  <2> QED
    BY <2>1, <2>2, <2>3
<1>5. kind = "webhook" /\ imports = {} => effects = {}
  <2>1. kind = "webhook" => effects \subseteq DOMAIN ImportSurface
    BY <1>1 DEF ExportEffect
  <2>2. \A e \in DOMAIN ImportSurface : expected(e) # {}
    BY DEF ImportSurface
  <2> HIDE DEF expected, imports
  <2> QED
    BY <1>3, <2>1, <2>2
<1>6. kind # "module" /\ ~(kind = "webhook" /\ imports = {}) => effects # {}
  <2>1. kind \in {"job", "schedule"} => effects # {}
    BY DEF SelectWorld, ExportEffect
  <2>2. imports # {} => effects # {}
    BY <1>3
  <2> QED
    BY <2>1, <2>2
<1> HIDE DEF imports
<1>7. UNION {expected(e) : e \in d.facts.effects} = d.imports /\ d.facts.world.kind = kind /\ d.facts.world.imports = imports
  BY <1>2, <1>3
<1> QED
  BY <1>4, <1>5, <1>6, <1>7 DEF ValidPolicyWorld

\* The interfaces of effects a manifest grants are interfaces it grants
\* (GrantSet::from_manifest adds both at once).
LEMMA ImportsGranted ==
  ASSUME NEW m, NEW d, ValidPolicyWorld(d), d.facts.effects \subseteq GrantedEffects(m)
  PROVE  d.imports \subseteq GrantSet(m).imports
<1> DEFINE expected(e) == CASE e = "http.request" -> {IF "secret.read" \in d.facts.effects THEN "http" ELSE "http-anonymous"}
                            [] e \in {"database.read", "database.write"} -> {"database"}
                            [] e \in {"queue.consume", "schedule.trigger"} -> {}
                            [] OTHER -> {e}
<1>1. d.imports = UNION {expected(e) : e \in d.facts.effects}
  BY DEF ValidPolicyWorld
<1>2. ASSUME NEW e \in GrantedEffects(m) PROVE expected(e) \subseteq GrantSet(m).imports
  BY DEF GrantedEffects, GrantSet, When, SecretBindings, SecretNames
<1> HIDE DEF expected
<1> QED
  BY <1>1, <1>2

\* krit build, the validation of artifacts and the runtime agree: a built
\* artifact validates, and its manifest denies it nothing but the queue or the
\* schedule its entrypoint declares, which first_missing_requirement leaves out.
THEOREM BuiltArtifactsAgree == Spec => []BuiltCallsAuthorized
<1>1. ASSUME Deployed PROVE BuiltCallsAuthorized
  <2> SUFFICES ASSUME stage = "artifact"
               PROVE  /\ ValidateArtifact(build.artifact)
                      /\ ~IdentityDenied(GrantSet(D.built), build.artifact.metadata)
                      /\ ValidPolicyWorld(build.artifact.metadata)
                      /\ build.artifact.metadata.imports \subseteq GrantSet(D.built).imports
                      /\ DeniedPermissions(GrantSet(D.built), build.artifact.metadata)
                           \subseteq DeclaredRequirement(D.program)
    BY DEF BuiltCallsAuthorized
  <2> DEFINE m == D.built
             p == D.program
             d == build.artifact.metadata
             checked == CheckedModule(p)
             kind == p.kind
             effects == checked.effects
             world == SelectWorld(kind, effects)
             calls == CallsRequire(p)
  <2>1. build = BuildPackage(m, p, D.fs) /\ build.status = 0 /\ kind \in {"module", "webhook", "job", "schedule"}
    BY <1>1, DeploymentAssumption DEF Deployed
  <2>2. checked.kind = kind /\ checked.requirements = calls \cup DeclaredRequirement(p)
    BY CheckedRequirements DEF CheckedModule
  <2> HIDE DEF checked
  <2>3. /\ MissingRequirements(m, p) = {} /\ effects \subseteq GrantedEffects(m)
        /\ world.ok /\ ValidateArtifact(build.artifact)
        /\ d.facts.requirements = checked.requirements /\ d.facts.effects = effects
        /\ d.facts.world = world /\ d.imports = world.imports /\ d.identity = m.identity
    BY <2>1, <2>2, BuiltArtifact DEF checked
  <2> HIDE DEF m, p, d, kind, effects, world
  <2>4. ValidPolicyWorld(d)
    <3>1. effects \subseteq Effects
      BY <2>3 DEF GrantedEffects, When, Effects
    <3> QED
      BY <2>1, <2>3, <3>1, SelectedWorldValid DEF world
  <2>5. d.imports \subseteq GrantSet(m).imports
    BY <2>3, <2>4, ImportsGranted
  <2>6. ~IdentityDenied(GrantSet(m), d)
    BY <2>3 DEF IdentityDenied, GrantSet
  <2>7. \A f \in calls : GrantsPermission(m, f[1], f[2])
    BY <2>3 DEF MissingRequirements, CallsRequire
  <2>8. ASSUME NEW e \in d.facts.effects
        PROVE  (\E f \in d.facts.requirements : f[1] = e) \/ GrantsPermission(m, e, None)
    <3>1. e \in Resourceless \/ \E f \in d.facts.requirements : f[1] = e
      BY <2>3, <2>8 DEF ValidateArtifact, ValidRequirements, d
    <3>2. ASSUME e \in Resourceless PROVE GrantsPermission(m, e, None)
      <4>1. e \in GrantedEffects(m)
        BY <2>3, <2>8
      <4>2. CASE e = "io.stdout"
        <5>1. m.stdout
          BY <4>1, <4>2 DEF GrantedEffects, When
        <5> QED
          BY <4>2, <5>1 DEF GrantsPermission
      <4>3. CASE e = "observe.log"
        <5>1. m.logs
          BY <4>1, <4>3 DEF GrantedEffects, When
        <5> QED
          BY <4>3, <5>1 DEF GrantsPermission
      <4> QED
        BY <3>2, <4>2, <4>3 DEF Resourceless
    <3> QED
      BY <3>1, <3>2
  <2>9. DeniedPermissions(GrantSet(m), d) \subseteq DeclaredRequirement(p)
    <3>1. d.facts.requirements = calls \cup DeclaredRequirement(p)
      BY <2>2, <2>3
    <3> HIDE DEF calls
    <3>2. ASSUME NEW f \in DeniedPermissions(GrantSet(m), d) PROVE ~GrantsPermission(m, f[1], f[2])
      BY <3>2, RuntimeGrants, GrantedHasEffect DEF DeniedPermissions
    <3>3. ASSUME NEW f \in DeniedPermissions(GrantSet(m), d)
          PROVE  \/ f \in d.facts.requirements
                 \/ /\ f[1] \in d.facts.effects /\ f[2] = None
                    /\ ~\E q \in d.facts.requirements : q[1] = f[1]
      BY <3>3 DEF DeniedPermissions
    <3> QED
      BY <2>7, <2>8, <3>1, <3>2, <3>3
  <2> QED
    BY <2>3, <2>4, <2>5, <2>6, <2>9 DEF m, p, d
<1> QED
  BY <1>1, DeploymentHolds, PTL

-----------------------------------------------------------------------------
(* Invocations                                                             *)

\* The fields of an invocation whose guest runs, and of one that makes a call.
GuestFields(i) ==
  i = [phase |-> i.phase, request |-> i.request, ends |-> i.ends, cancelled |-> i.cancelled,
       calls |-> i.calls, http |-> i.http, ai |-> i.ai, handles |-> i.handles]
CallFields(i) ==
  i = [phase |-> i.phase, request |-> i.request, ends |-> i.ends, cancelled |-> i.cancelled,
       calls |-> i.calls, http |-> i.http, ai |-> i.ai, handles |-> i.handles,
       call |-> i.call, attempt |-> i.attempt, sent |-> i.sent, late |-> i.late, until |-> i.until]

\* The rate of a bucket under the configuration c (RateResource).
BucketRate(bucket, c) ==
  IF bucket[1] = "ai.invoke" THEN Override(c.aiRates, bucket[2], c.defaultRate)
  ELSE Override(c.httpRates, bucket[2], c.defaultRate)

\* A call that grants g, build b and deployment d let the host make.
CallAllowed(call, d, g, b) ==
  /\ call.secret # None => PermitsBearer(g, call.secret, call.origin)
  /\ call.retry.attempts \in Nat
  /\ call.bucket \in RateResources(b.artifact.metadata, d.config)
  /\ call.rate = BucketRate(call.bucket, d.config)

\* An attempt under way is the first or a retry the policy allows, and before
\* it reaches the wire fewer requests were sent than attempts made.
MaySendAgain(i) == i.call.eligible /\ i.attempt < i.call.retry.attempts
AttemptsCounted(i) ==
  /\ i.attempt \in Nat /\ i.sent \in Nat /\ i.sent =< i.attempt
  /\ i.phase = "attempt" => i.attempt = 0 \/ MaySendAgain(i)
  /\ i.phase = "backoff" => MaySendAgain(i)
  /\ i.phase \in {"charge", "send", "resolve"} => i.sent < i.attempt
  /\ i.phase \in {"charge", "send", "resolve", "transfer"} =>
       i.attempt =< 1 \/ (i.call.eligible /\ i.attempt =< i.call.retry.attempts)

\* A request was sent late only in an attempt begun before the withdrawal,
\* which is still in force, so no later attempt passes the checks.
Withdrawn(i, ok) == i.cancelled \/ (i.call.approval # <<>> /\ i.call.approval \notin ok)
LateOnce(i, ok) ==
  \/ i.late = 0
  \/ i.late = 1 /\ i.attempt > 0 /\ Withdrawn(i, ok) /\ i.phase \in {"attempt", "transfer", "backoff"}

\* A trap for a reason HostAuthorityHolds allows.
TrapAllowed(i, d) ==
  \/ i.reason = "calls"
  \/ /\ i.reason = "unbound"
     /\ \E c \in d.program.calls : c.bearer # None /\ ~ManifestPermitsBearer(d.manifest, c.bearer, c.resource)

CallSound(i, d, g, b, ok) ==
  /\ CallFields(i) /\ CallAllowed(i.call, d, g, b) /\ AttemptsCounted(i) /\ LateOnce(i, ok)
  /\ i.phase = "resolve" /\ i.call.secret # None => i.call.origin \notin PlainOrigins

InvocationSound(i, d, g, b, ok) ==
  \/ i.phase \in {"idle", "conflict", "reject"}
  \/ i.phase = "trapped" /\ TrapAllowed(i, d)
  \/ i.phase = "guest" /\ GuestFields(i)
  \/ i.phase \in Calling /\ CallSound(i, d, g, b, ok)

SoundNow(i) == InvocationSound(i, D, grants, build, approved)
ReplayingOrSound(i) == i.phase = "replay" \/ SoundNow(i)

\* Nothing happens before the host serves, every invocation is sound, and a
\* bearer on the wire is one the manifest binds to its origin.
Served ==
  /\ Deployed
  /\ inv = [r \in Runtimes |-> inv[r]]
  /\ stage # "serving" => \A r \in Runtimes : inv[r] = Idle
  /\ \A r \in Runtimes : ReplayingOrSound(inv[r])
  /\ SecretsReachBoundOrigins

\* What admission established for the calls of a served program.
LEMMA ServedProgram ==
  ASSUME Deployed, stage = "serving"
  PROVE  /\ grants = GrantSet(D.manifest)
         /\ \A c \in D.program.calls : \A q \in CallRequirements(c) :
              q \in GuestRequirements /\ Grants(grants, q[1], q[2])
         /\ ConfiguredGranted(grants, C)
         /\ SearchAdmitted(grants, build.artifact.metadata, C)
         /\ Cardinality(RateResources(build.artifact.metadata, C)) =< C.maxTracked
         /\ GuestRequirements = CheckedModule(D.program).requirements
<1>1. /\ build = BuildPackage(D.built, D.program, D.fs) /\ build.status = 0
      /\ grants = GrantSet(D.manifest) /\ Admits(grants, build.artifact, C, D.limits)
  BY DEF Deployed
<1>2. GuestRequirements = CheckedModule(D.program).requirements
  BY <1>1, BuiltArtifact DEF GuestRequirements
<1>3. DeniedPermissions(GrantSet(D.manifest), build.artifact.metadata) = {}
  BY <1>1 DEF Admits, Authorize
<1>4. ASSUME NEW c \in D.program.calls, NEW q \in CallRequirements(c)
      PROVE  q \in GuestRequirements /\ Grants(grants, q[1], q[2])
  <2>1. q \in GuestRequirements
    BY <1>2, <1>4, CheckedRequirements DEF CallsRequire
  <2>2. GrantsPermission(D.manifest, q[1], q[2])
    BY <1>3, <2>1, NothingDenied DEF GuestRequirements
  <2> QED
    BY <1>1, <2>1, <2>2, RuntimeGrants
<1>5. ValidateAgentHost(grants, build.artifact.metadata, C, D.limits)
  BY <1>1 DEF Admits
<1> QED
  BY <1>1, <1>2, <1>4, <1>5 DEF ValidateAgentHost

\* A runtime that takes a step to a sound invocation keeps all of them sound;
\* approvals may be withdrawn meanwhile (ApprovalPolicy::approve).
LEMMA StepKeepsSound ==
  ASSUME UNCHANGED deploymentVars, approved' \subseteq approved, NEW r \in Runtimes, NEW j,
         ReplayingOrSound(j), \A s \in Runtimes : ReplayingOrSound(inv[s]),
         inv = [s \in Runtimes |-> inv[s]], inv' = [inv EXCEPT ![r] = j]
  PROVE  inv' = [s \in Runtimes |-> inv'[s]] /\ \A s \in Runtimes : ReplayingOrSound(inv[s])'
<1>1. \A i : SoundNow(i) => InvocationSound(i, D', grants', build', approved')
  BY DEF SoundNow, InvocationSound, CallSound, LateOnce, Withdrawn, deploymentVars
<1>2. \A s \in Runtimes : ReplayingOrSound(inv'[s])
  OBVIOUS
<1> QED
  BY <1>1, <1>2 DEF SoundNow, ReplayingOrSound

-----------------------------------------------------------------------------
(* Host calls                                                              *)

\* A call that gives its guest control again.
LEMMA ReturnedSound == ASSUME NEW i PROVE SoundNow(Returned(i)) /\ Returned(i).phase = "guest"
  BY DEF Returned, SoundNow, InvocationSound, GuestFields

\* Counting a call leaves a guest a guest.
LEMMA CountedFields ==
  ASSUME NEW i, GuestFields(i), i.phase = "guest"
  PROVE  /\ GuestFields(RecordHostCall(i)) /\ RecordHostCall(i).phase = "guest"
         /\ GuestFields([i EXCEPT !.http = @ + 1]) /\ [i EXCEPT !.http = @ + 1].phase = "guest"
         /\ GuestFields([i EXCEPT !.ai = @ + 1]) /\ [i EXCEPT !.ai = @ + 1].phase = "guest"
         /\ \A h : GuestFields([i EXCEPT !.handles = h]) /\ [i EXCEPT !.handles = h].phase = "guest"
  BY DEF GuestFields, RecordHostCall

\* A guest, a trap over the number of calls and a call about to start are sound.
LEMMA GuestSound == ASSUME NEW i, GuestFields(i), i.phase = "guest" PROVE SoundNow(i)
  BY DEF SoundNow, InvocationSound
LEMMA CallsTrapSound == SoundNow(Trapped("calls"))
  BY DEF SoundNow, InvocationSound, Trapped, TrapAllowed
LEMMA StartSound ==
  ASSUME NEW i, NEW call, CallAllowed(call, D, grants, build)
  PROVE  SoundNow(Start(i, call))
<1> DEFINE j == Start(i, call)
<1>1. /\ j.phase = "attempt" /\ j.call = call /\ j.attempt = 0 /\ j.sent = 0 /\ j.late = 0
      /\ CallFields(j)
  BY DEF Start, CallFields
<1> HIDE DEF j
<1>2. AttemptsCounted(j) /\ LateOnce(j, approved)
  BY <1>1 DEF AttemptsCounted, LateOnce
<1>3. CallSound(j, D, grants, build, approved)
  BY <1>1, <1>2 DEF CallSound
<1> QED
  BY <1>1, <1>3 DEF SoundNow, InvocationSound, Calling, j

\* The policies a call can be given are retry policies with a number of attempts.
LEMMA OverridesTyped ==
  ASSUME Deployed, NEW k
  PROVE  /\ Override(C.httpRetries, k, C.defaultRetry).attempts \in Nat
         /\ Override(C.aiRetries, k, C.defaultRetry).attempts \in Nat
         /\ Override(C.httpRates, k, C.defaultRate).capacity \in Nat
         /\ Override(C.aiRates, k, C.defaultRate).capacity \in Nat
  BY DeploymentAssumption DEF Deployed, Override, C, RetryTyped, RateTyped

\* A requirement for HTTP or AI is a bucket of its own (validate_agent_host).
LEMMA OwnBucket ==
  ASSUME NEW d, NEW c, NEW q \in d.facts.requirements, q[1] \in {"ai.invoke", "http.request"}
  PROVE  q \in RateResources(d, c)
  BY DEF RateResources

\* A connector with an origin counts under that origin.
LEMMA ConnectorBucket ==
  ASSUME NEW d, NEW c, NEW q \in d.facts.requirements, q[1] \in {"search.query", "search.vector"},
         q[2] \in DOMAIN c.search, c.search[q[2]].origin # None
  PROVE  <<"http.request", c.search[q[2]].origin>> \in RateResources(d, c)
  BY DEF RateResources, When

\* perform_http: a granted request starts or traps over a misdirected bearer.
LEMMA PerformHttpSound ==
  ASSUME Deployed, stage = "serving", NEW i, GuestFields(i), i.phase = "guest",
         NEW c \in D.program.calls, c.capability = "http.request"
  PROVE  SoundNow(PerformHttp(i, c))
<1> DEFINE q == <<"http.request", c.resource>>
           counted == [i EXCEPT !.http = @ + 1]
           approval == <<"http.bearer", c.resource>>
           call == [capability |-> "http.request", origin |-> c.resource, secret |-> c.bearer,
                    bucket |-> q, rate |-> Override(C.httpRates, c.resource, C.defaultRate),
                    retry |-> Override(C.httpRetries, c.resource, C.defaultRetry),
                    approval |-> IF c.bearer # None THEN approval ELSE <<>>, prechecked |-> c.bearer # None,
                    eligible |-> c.safe, deadline |-> i.ends]
<1>1. q \in CallRequirements(c)
  BY DEF CallRequirements, When, Resourceless
<1>2. RequireGrant("http.request", c.resource)
  BY <1>1, ServedProgram DEF RequireGrant
<1>3. ASSUME c.bearer # None, ~AuthorizeBearer(c.bearer, c.resource) PROVE SoundNow(Trapped("unbound"))
  <2>1. ~ManifestPermitsBearer(D.manifest, c.bearer, c.resource)
    BY <1>3, ServedProgram, BearersAgree DEF AuthorizeBearer
  <2> QED
    BY <1>3, <2>1 DEF SoundNow, InvocationSound, Trapped, TrapAllowed
<1>4. SoundNow(counted)
  BY CountedFields, GuestSound
<1>5. ASSUME c.bearer # None => AuthorizeBearer(c.bearer, c.resource) PROVE SoundNow(Start(counted, call))
  <2>1. q \in RateResources(build.artifact.metadata, C)
    BY <1>1, ServedProgram, OwnBucket DEF GuestRequirements
  <2>2. call.rate = BucketRate(call.bucket, C)
    BY DEF BucketRate
  <2>3. call.retry.attempts \in Nat
    BY OverridesTyped
  <2>4. call.secret # None => PermitsBearer(grants, call.secret, call.origin)
    BY <1>5 DEF AuthorizeBearer
  <2>5. CallAllowed(call, D, grants, build)
    BY <2>1, <2>2, <2>3, <2>4 DEF CallAllowed, C
  <2> HIDE DEF call, counted
  <2> QED
    BY <2>5, StartSound
<1> HIDE DEF counted, call
<1> QED
  BY <1>2, <1>3, <1>4, <1>5, CallsTrapSound DEF PerformHttp, counted, call

\* perform_ai: an adapter the host was admitted with never traps for authority.
LEMMA PerformAiSound ==
  ASSUME Deployed, stage = "serving", NEW i, GuestFields(i), i.phase = "guest",
         NEW c \in D.program.calls, c.capability = "ai.invoke"
  PROVE  SoundNow(PerformAi(i, c))
<1> DEFINE q == <<"ai.invoke", c.resource>>
           counted == [i EXCEPT !.ai = @ + 1]
           adapter == C.ai[c.resource]
           call == [capability |-> "ai.invoke", origin |-> adapter.origin, secret |-> adapter.secret,
                    bucket |-> q, rate |-> Override(C.aiRates, c.resource, C.defaultRate),
                    retry |-> Override(C.aiRetries, c.resource, C.defaultRetry),
                    approval |-> q, prechecked |-> TRUE, eligible |-> TRUE,
                    deadline |-> Lesser(now + adapter.timeout, i.ends)]
<1>1. q \in CallRequirements(c)
  BY DEF CallRequirements, When, Resourceless
<1>2. RequireGrant("ai.invoke", c.resource)
  BY <1>1, ServedProgram DEF RequireGrant
<1>3. c.resource \in DOMAIN C.ai /\ adapter.secret # None => AuthorizeBearer(adapter.secret, adapter.origin)
  BY ServedProgram DEF ConfiguredGranted, AuthorizeBearer
<1>4. SoundNow(counted)
  BY CountedFields, GuestSound
<1>5. ASSUME c.resource \in DOMAIN C.ai PROVE SoundNow(Start(counted, call))
  <2>1. q \in RateResources(build.artifact.metadata, C)
    BY <1>1, ServedProgram, OwnBucket DEF GuestRequirements
  <2>2. call.rate = BucketRate(call.bucket, C)
    BY DEF BucketRate
  <2>3. call.retry.attempts \in Nat
    BY OverridesTyped
  <2>4. call.secret # None => PermitsBearer(grants, call.secret, call.origin)
    BY <1>3, <1>5 DEF AuthorizeBearer
  <2>5. CallAllowed(call, D, grants, build)
    BY <2>1, <2>2, <2>3, <2>4 DEF CallAllowed, C
  <2> HIDE DEF call, counted
  <2> QED
    BY <2>5, StartSound
<1> HIDE DEF counted, call
<1> QED
  BY <1>2, <1>3, <1>4, <1>5, CallsTrapSound DEF PerformAi, counted, call

\* perform_search: nor does a connector, local or remote.
LEMMA PerformSearchSound ==
  ASSUME Deployed, stage = "serving", NEW i, GuestFields(i), i.phase = "guest",
         NEW c \in D.program.calls, c.capability \in {"search.query", "search.vector"}
  PROVE  SoundNow(PerformSearch(i, c))
<1> DEFINE q == <<c.capability, c.resource>>
           counted == [i EXCEPT !.http = @ + 1]
           connector == C.search[c.resource]
           bearer == connector.secret # None
           bucket == <<"http.request", connector.origin>>
           call == [capability |-> c.capability, origin |-> connector.origin, secret |-> connector.secret,
                    bucket |-> bucket,
                    rate |-> Override(C.httpRates, connector.origin, C.defaultRate),
                    retry |-> Override(C.httpRetries, connector.origin, C.defaultRetry),
                    approval |-> IF bearer THEN <<"http.bearer", connector.origin>> ELSE <<>>,
                    prechecked |-> FALSE, eligible |-> TRUE,
                    deadline |-> Lesser(now + connector.timeout, i.ends)]
<1>1. q \in CallRequirements(c)
  BY DEF CallRequirements, When, Resourceless
<1>2. RequireGrant(c.capability, c.resource) /\ q \in GuestRequirements
  BY <1>1, ServedProgram DEF RequireGrant
<1>3. SoundNow(i) /\ SoundNow(counted)
  BY CountedFields, GuestSound
<1>4. ASSUME c.resource \in DOMAIN C.search, connector.origin # None
      PROVE  SoundNow(PerformHttpSearch(i, c))
  <2>1. /\ Grants(grants, "http.request", connector.origin)
        /\ bearer => /\ Grants(grants, "secret.read", connector.secret)
                     /\ AuthorizeBearer(connector.secret, connector.origin)
    BY <1>4, ServedProgram DEF SearchAdmitted, AuthorizeBearer
  <2>2. bucket \in RateResources(build.artifact.metadata, C)
    <3>1. q[1] \in {"search.query", "search.vector"} /\ q[2] = c.resource
      OBVIOUS
    <3> QED
      BY <1>2, <1>4, <3>1, ConnectorBucket DEF GuestRequirements
  <2>3. call.rate = BucketRate(call.bucket, C)
    BY DEF BucketRate
  <2>4. call.retry.attempts \in Nat
    BY OverridesTyped
  <2>5. call.secret # None => PermitsBearer(grants, call.secret, call.origin)
    BY <2>1 DEF AuthorizeBearer
  <2>6. CallAllowed(call, D, grants, build)
    BY <2>2, <2>3, <2>4, <2>5 DEF CallAllowed, C
  <2>7. SoundNow(Start(counted, call))
    <3> HIDE DEF call, counted
    <3> QED
      BY <2>6, StartSound
  <2> HIDE DEF counted, call
  <2> QED
    BY <1>3, <2>1, <2>7, CallsTrapSound DEF PerformHttpSearch, counted, call
<1> QED
  BY <1>2, <1>3, <1>4 DEF PerformSearch

\* secrets::acquire: a secret of the program's calls is granted.
LEMMA AcquireSound ==
  ASSUME Deployed, stage = "serving", NEW i, GuestFields(i), i.phase = "guest",
         NEW c \in D.program.calls, c.bearer # None
  PROVE  SoundNow(Acquire(i, c.bearer))
<1>1. <<"secret.read", c.bearer>> \in CallRequirements(c)
  BY DEF CallRequirements, When
<1>2. RequireGrant("secret.read", c.bearer)
  BY <1>1, ServedProgram DEF RequireGrant
<1>3. SoundNow(i) /\ SoundNow([i EXCEPT !.handles = @ \cup {c.bearer}])
  BY CountedFields, GuestSound
<1> QED
  BY <1>2, <1>3 DEF Acquire

\* A host call leaves a sound invocation when what it performs does.
LEMMA HostCallSound ==
  ASSUME NEW r \in Runtimes, GuestFields(inv[r]), inv[r].phase = "guest", NEW perform, SoundNow(perform)
  PROVE  SoundNow(IF inv[r].calls >= D.limits.hostCalls THEN Trapped("calls")
                  ELSE IF inv[r].cancelled THEN RecordHostCall(inv[r]) ELSE perform)
  BY CallsTrapSound, CountedFields, GuestSound

-----------------------------------------------------------------------------
(* Attempts                                                                *)

CallSoundNow(i) == CallSound(i, D, grants, build, approved)

\* j is the call of i, in another phase or after another attempt.
SameCall(i, j) ==
  CallFields(j) /\ j.call = i.call /\ j.cancelled = i.cancelled /\ j.late = i.late

\* A call in any of its phases.
LEMMA CallingSound == ASSUME NEW i, CallSoundNow(i), i.phase \in Calling PROVE SoundNow(i)
  BY DEF CallSoundNow, SoundNow, InvocationSound

\* wait_for_retry, for a call that may be sent again.
LEMMA WaitSound ==
  ASSUME NEW i, CallSoundNow(i), i.phase \in {"resolve", "transfer"}, MaySendAgain(i), NEW delay
  PROVE  SoundNow(WaitForRetry(i, delay))
<1> DEFINE j == [i EXCEPT !.phase = "backoff", !.until = now + delay]
<1>1. SameCall(i, j) /\ j.phase = "backoff" /\ j.attempt = i.attempt /\ j.sent = i.sent
  <2>1. j = [i EXCEPT !.phase = "backoff", !.until = now + delay] /\ CallFields(i)
    BY DEF CallSoundNow, CallSound
  <2> HIDE DEF j
  <2> QED
    BY <2>1 DEF CallFields, SameCall
<1> HIDE DEF j
<1>2. AttemptsCounted(j) /\ LateOnce(j, approved)
  BY <1>1 DEF SameCall, CallSoundNow, CallSound, AttemptsCounted, MaySendAgain, LateOnce, Withdrawn
<1>3. CallSoundNow(j)
  BY <1>1, <1>2 DEF SameCall, CallSoundNow, CallSound
<1>4. SoundNow(j)
  BY <1>1, <1>3, CallingSound DEF Calling
<1> QED
  BY <1>4, ReturnedSound DEF WaitForRetry, j

\* The outcomes of an attempt: retried when MayRetry, or given to the guest.
LEMMA RetrySound ==
  ASSUME NEW i, CallSoundNow(i), i.phase \in {"resolve", "transfer"}, NEW after
  PROVE  SoundNow(RetryFailure(i)) /\ SoundNow(RetryStatus(i, after))
<1>1. MayRetry(i) => MaySendAgain(i)
  BY DEF MayRetry, MaySendAgain
<1> QED
  BY <1>1, WaitSound, ReturnedSound DEF RetryFailure, RetryStatus

\* The top of send_with_retry: an attempt begins only when nothing is
\* withdrawn, unless it is the first of a call whose approval was just checked.
LEMMA AttemptSound ==
  ASSUME NEW i, CallSoundNow(i), i.phase = "attempt"
  PROVE  SoundNow(AttemptCall(i))
<1> DEFINE j == [i EXCEPT !.phase = "charge", !.attempt = @ + 1]
           denied == i.call.approval # <<>> /\ (i.attempt > 0 \/ ~i.call.prechecked) /\ ~Approve(i.call.approval)
<1>1. ASSUME ~i.cancelled, ~denied PROVE SoundNow(j)
  <2>1. SameCall(i, j) /\ j.phase = "charge" /\ j.attempt = i.attempt + 1 /\ j.sent = i.sent
    <3>1. j = [i EXCEPT !.phase = "charge", !.attempt = @ + 1] /\ CallFields(i)
      BY DEF CallSoundNow, CallSound
    <3> HIDE DEF j
    <3> QED
      BY <3>1 DEF CallFields, SameCall
  <2> HIDE DEF j
  <2>2. i.late = 0
    BY <1>1 DEF CallSoundNow, CallSound, LateOnce, Withdrawn, Approve
  <2>3. AttemptsCounted(j)
    BY <2>1 DEF SameCall, CallSoundNow, CallSound, CallAllowed, AttemptsCounted, MaySendAgain
  <2>4. CallSoundNow(j)
    BY <2>1, <2>2, <2>3 DEF SameCall, CallSoundNow, CallSound, LateOnce
  <2> QED
    BY <2>1, <2>4, CallingSound DEF Calling
<1> QED
  BY <1>1, ReturnedSound DEF AttemptCall

\* A charged attempt may be sent, and one that resolves has no bearer for a
\* plain origin (network::send).
LEMMA SendSound ==
  ASSUME NEW i, CallSoundNow(i), NEW until
  PROVE  /\ i.phase = "charge" => SoundNow([i EXCEPT !.phase = "send"])
         /\ i.phase = "send" /\ ~(i.call.secret # None /\ i.call.origin \in PlainOrigins) =>
              SoundNow([i EXCEPT !.phase = "resolve", !.until = until])
<1>1. ASSUME i.phase = "charge" PROVE SoundNow([i EXCEPT !.phase = "send"])
  <2> DEFINE j == [i EXCEPT !.phase = "send"]
  <2>1. SameCall(i, j) /\ j.phase = "send" /\ j.attempt = i.attempt /\ j.sent = i.sent
    <3>1. j = [i EXCEPT !.phase = "send"] /\ CallFields(i)
      BY DEF CallSoundNow, CallSound
    <3> HIDE DEF j
    <3> QED
      BY <3>1 DEF CallFields, SameCall
  <2> HIDE DEF j
  <2>2. AttemptsCounted(j) /\ LateOnce(j, approved)
    BY <1>1, <2>1 DEF SameCall, CallSoundNow, CallSound, AttemptsCounted, LateOnce
  <2>3. CallSoundNow(j)
    BY <2>1, <2>2 DEF SameCall, CallSoundNow, CallSound
  <2> QED
    BY <2>1, <2>3, CallingSound DEF Calling, j
<1>2. ASSUME i.phase = "send", ~(i.call.secret # None /\ i.call.origin \in PlainOrigins)
      PROVE  SoundNow([i EXCEPT !.phase = "resolve", !.until = until])
  <2> DEFINE j == [i EXCEPT !.phase = "resolve", !.until = until]
  <2>1. SameCall(i, j) /\ j.phase = "resolve" /\ j.attempt = i.attempt /\ j.sent = i.sent
    <3>1. j = [i EXCEPT !.phase = "resolve", !.until = until] /\ CallFields(i)
      BY DEF CallSoundNow, CallSound
    <3> HIDE DEF j
    <3> QED
      BY <3>1 DEF CallFields, SameCall
  <2> HIDE DEF j
  <2>2. AttemptsCounted(j) /\ LateOnce(j, approved)
    BY <1>2, <2>1 DEF SameCall, CallSoundNow, CallSound, AttemptsCounted, LateOnce
  <2>3. CallSoundNow(j)
    BY <1>2, <2>1, <2>2 DEF SameCall, CallSoundNow, CallSound
  <2> QED
    BY <2>1, <2>3, CallingSound DEF Calling, j
<1> QED
  BY <1>1, <1>2

\* The request leaves: it is late only in an attempt that was not late before.
LEMMA TransmitSound ==
  ASSUME NEW i, CallSoundNow(i), i.phase = "resolve", NEW j,
         LET late == i.cancelled \/ (i.call.approval # <<>> /\ ~Approve(i.call.approval))
         IN j = [i EXCEPT !.phase = "transfer", !.sent = @ + 1, !.late = IF late THEN @ + 1 ELSE @]
  PROVE  SoundNow(j)
<1>1. CallFields(i)
  BY DEF CallSoundNow, CallSound
<1>2. /\ CallFields(j) /\ j.phase = "transfer" /\ j.attempt = i.attempt /\ j.sent = i.sent + 1
      /\ j.call = i.call /\ j.cancelled = i.cancelled
      /\ j.late = IF Withdrawn(i, approved) THEN i.late + 1 ELSE i.late
  BY <1>1 DEF CallFields, Withdrawn, Approve
<1>3. i.late = 0 /\ i.attempt \in Nat /\ i.attempt > 0
  BY DEF CallSoundNow, CallSound, LateOnce, AttemptsCounted
<1>4. AttemptsCounted(j)
  BY <1>2 DEF CallSoundNow, CallSound, AttemptsCounted
<1>5. LateOnce(j, approved)
  BY <1>2, <1>3 DEF LateOnce, Withdrawn
<1>6. CallSoundNow(j)
  BY <1>2, <1>4, <1>5 DEF CallSoundNow, CallSound
<1> QED
  BY <1>2, <1>6, CallingSound DEF Calling

\* A backoff that ends begins another attempt.
LEMMA BackoffEndsSound ==
  ASSUME NEW i, CallSoundNow(i), i.phase = "backoff", NEW j, j = [i EXCEPT !.phase = "attempt"]
  PROVE  SoundNow(j)
<1>1. CallFields(i)
  BY DEF CallSoundNow, CallSound
<1>2. SameCall(i, j) /\ j.phase = "attempt" /\ j.attempt = i.attempt /\ j.sent = i.sent
  BY <1>1 DEF CallFields, SameCall
<1>3. AttemptsCounted(j) /\ LateOnce(j, approved)
  BY <1>2 DEF SameCall, CallSoundNow, CallSound, AttemptsCounted, MaySendAgain, LateOnce, Withdrawn
<1>4. CallSoundNow(j)
  BY <1>2, <1>3 DEF SameCall, CallSoundNow, CallSound
<1> QED
  BY <1>2, <1>4, CallingSound DEF Calling

\* A cancelled invocation.
LEMMA CancelSound ==
  ASSUME NEW i, SoundNow(i), i.phase \in Running, NEW j, j = [i EXCEPT !.cancelled = TRUE]
  PROVE  SoundNow(j)
<1>1. CASE i.phase = "guest"
  <2>1. GuestFields(i)
    BY <1>1 DEF SoundNow, InvocationSound, Calling
  <2>2. GuestFields(j) /\ j.phase = "guest"
    BY <1>1, <2>1 DEF GuestFields
  <2> QED
    BY <2>2, GuestSound
<1>2. CASE i.phase \in Calling
  <2>1. CallSoundNow(i) /\ CallFields(i)
    BY <1>2 DEF SoundNow, InvocationSound, Calling, CallSoundNow, CallSound
  <2>2. /\ CallFields(j) /\ j.phase = i.phase /\ j.attempt = i.attempt /\ j.sent = i.sent
        /\ j.call = i.call /\ j.cancelled = TRUE /\ j.late = i.late
    BY <2>1 DEF CallFields
  <2>3. AttemptsCounted(j) /\ LateOnce(j, approved)
    BY <2>1, <2>2 DEF CallSoundNow, CallSound, AttemptsCounted, MaySendAgain, LateOnce, Withdrawn
  <2>4. CallSoundNow(j)
    BY <2>1, <2>2, <2>3 DEF CallSoundNow, CallSound
  <2> QED
    BY <1>2, <2>2, <2>4, CallingSound
<1> QED
  BY <1>1, <1>2 DEF Running

\* A calling or running invocation that is sound.
LEMMA SoundCases ==
  ASSUME NEW i, ReplayingOrSound(i)
  PROVE  /\ i.phase = "guest" => GuestFields(i)
         /\ i.phase \in Calling => CallSoundNow(i)
  BY DEF ReplayingOrSound, SoundNow, InvocationSound, Calling, CallSoundNow
LEMMA NoReplay == ASSUME NEW i, SoundNow(i) PROVE i.phase # "replay"
  BY DEF SoundNow, InvocationSound, Calling

-----------------------------------------------------------------------------
(* Every step of a runtime                                                 *)

\* Runtime r moves on to a sound invocation and sends nothing with a bearer
\* that its manifest does not bind to the origin.
StepSound(r) ==
  /\ UNCHANGED deploymentVars /\ approved' = approved
  /\ \E j : /\ inv' = [inv EXCEPT ![r] = j]
            /\ SoundNow(j) \/ (j.phase = "replay" /\ (j = inv[r] \/ Arrive(r)))
  /\ \A w \in wire' : ManifestPermitsBearer(D.manifest, w[1], w[2]) /\ w[2] \notin PlainOrigins

\* Only a serving host has invocations.
LEMMA OnlyServing ==
  ASSUME Served, NEW r \in Runtimes, inv[r].phase # "idle"
  PROVE  stage = "serving"
  BY DEF Served, Idle

\* The steps that begin and end an invocation.
LEMMA EndsSound ==
  ASSUME Served, NEW r \in Runtimes, Arrive(r) \/ AnswerDirectly(r) \/ GuestReturns(r) \/ GuestFails(r)
  PROVE  StepSound(r)
<1>1. SoundNow(Idle)
  BY DEF Idle, SoundNow, InvocationSound
<1>2. CASE Arrive(r)
  <2>1. PICK request \in D.requests :
          inv' = [inv EXCEPT ![r] =
                    CASE IdempotencyDecision(request).kind = "execute" ->
                           [phase |-> "guest", request |-> request, ends |-> now + D.limits.deadline,
                            cancelled |-> FALSE, calls |-> 0, http |-> 0, ai |-> 0, handles |-> {}]
                      [] IdempotencyDecision(request).kind = "replay" ->
                           [phase |-> "replay", request |-> request, at |-> now,
                            response |-> memo[request.key].response]
                      [] OTHER -> [phase |-> IdempotencyDecision(request).kind]]
    BY <1>2 DEF Arrive
  <2> DEFINE kind == IdempotencyDecision(request).kind
             guest == [phase |-> "guest", request |-> request, ends |-> now + D.limits.deadline,
                       cancelled |-> FALSE, calls |-> 0, http |-> 0, ai |-> 0, handles |-> {}]
             replay == [phase |-> "replay", request |-> request, at |-> now,
                        response |-> memo[request.key].response]
  <2>2. kind \in {"execute", "reject", "replay", "conflict"}
    BY DEF IdempotencyDecision
  <2>3. SoundNow(guest) /\ replay.phase = "replay" /\ SoundNow([phase |-> "reject"]) /\ SoundNow([phase |-> "conflict"])
    BY DEF SoundNow, InvocationSound, GuestFields
  <2> HIDE DEF kind, guest, replay
  <2>4. \E j : (SoundNow(j) \/ j.phase = "replay") /\ inv' = [inv EXCEPT ![r] = j]
    <3>1. CASE kind = "execute"
      BY <2>1, <2>3, <3>1 DEF kind, guest
    <3>2. CASE kind = "replay"
      BY <2>1, <2>3, <3>2 DEF kind, replay
    <3>3. CASE kind \in {"reject", "conflict"}
      BY <2>1, <2>3, <3>3 DEF kind
    <3> QED
      BY <2>2, <3>1, <3>2, <3>3
  <2> QED
    BY <1>2, <2>4 DEF Arrive, StepSound, Served, SecretsReachBoundOrigins
<1>3. CASE AnswerDirectly(r) \/ GuestReturns(r) \/ GuestFails(r)
  BY <1>1, <1>3 DEF AnswerDirectly, GuestReturns, GuestFails, StepSound, Served, SecretsReachBoundOrigins
<1> QED
  BY <1>2, <1>3

\* The host calls.
LEMMA CallsSound ==
  ASSUME Served, NEW r \in Runtimes, AcquireSecret(r) \/ SendHttp(r) \/ InvokeAi(r) \/ Search(r)
  PROVE  StepSound(r)
<1>1. PICK perform : \E c \in D.program.calls :
        /\ HostCall(r, perform)
        /\ \/ c.bearer # None /\ perform = Acquire(RecordHostCall(inv[r]), c.bearer)
           \/ c.capability = "http.request" /\ perform = PerformHttp(RecordHostCall(inv[r]), c)
           \/ c.capability = "ai.invoke" /\ perform = PerformAi(RecordHostCall(inv[r]), c)
           \/ /\ c.capability \in {"search.query", "search.vector"}
              /\ perform = PerformSearch(RecordHostCall(inv[r]), c)
  BY DEF AcquireSecret, SendHttp, InvokeAi, Search
<1>2. inv[r].phase = "guest" /\ GuestFields(inv[r]) /\ Deployed /\ stage = "serving"
  BY <1>1, OnlyServing, SoundCases DEF HostCall, Served
<1>3. GuestFields(RecordHostCall(inv[r])) /\ RecordHostCall(inv[r]).phase = "guest"
  BY <1>2, CountedFields
<1>4. SoundNow(perform)
  BY <1>1, <1>2, <1>3, AcquireSound, PerformHttpSound, PerformAiSound, PerformSearchSound
<1>5. SoundNow(IF inv[r].calls >= D.limits.hostCalls THEN Trapped("calls")
               ELSE IF inv[r].cancelled THEN RecordHostCall(inv[r]) ELSE perform)
  BY <1>2, <1>4, HostCallSound
<1> QED
  BY <1>1, <1>5 DEF HostCall, StepSound, Served, SecretsReachBoundOrigins

\* The steps of send_with_retry and of network::send.
LEMMA AttemptsSound ==
  ASSUME Served, NEW r \in Runtimes,
         \/ Attempt(r) \/ Charge(r) \/ Dispatch(r) \/ Resolved(r) \/ ResolveStops(r) \/ WorkerExits(r)
         \/ Answer(r) \/ TransferStops(r) \/ BackoffEnds(r) \/ Cancel(r)
  PROVE  StepSound(r)
<1> DEFINE i == inv[r]
<1>1. ReplayingOrSound(i) /\ (i.phase \in Calling => CallSoundNow(i))
  BY SoundCases DEF Served
<1>2. SoundNow(Returned(i))
  BY ReturnedSound
<1>3. i.phase \in {"resolve", "transfer"} =>
        SoundNow(RetryFailure(i)) /\ \A after : SoundNow(RetryStatus(i, after))
  BY <1>1, RetrySound DEF Calling
<1>4. SecretsReachBoundOrigins
  BY DEF Served
<1>5. CASE Attempt(r)
  BY <1>1, <1>4, <1>5, AttemptSound DEF Attempt, StepSound, SecretsReachBoundOrigins, Calling
<1>6. CASE Charge(r)
  <2>1. i.phase = "charge" /\ SoundNow([i EXCEPT !.phase = "send"])
    BY <1>1, <1>6, SendSound DEF Charge, Calling
  <2> QED
    BY <1>2, <1>4, <1>6, <2>1 DEF Charge, StepSound, SecretsReachBoundOrigins
<1>7. CASE Dispatch(r)
  <2> DEFINE until == Lesser(now + D.limits.connect, i.call.deadline)
             sent == [i EXCEPT !.phase = "resolve", !.until = until]
             plain == i.call.secret # None /\ i.call.origin \in PlainOrigins
  <2>1. inv' = [inv EXCEPT ![r] = Returned(i)] \/ (~plain /\ inv' = [inv EXCEPT ![r] = sent])
    BY <1>7 DEF Dispatch
  <2>2. i.phase = "send" /\ CallSoundNow(i)
    BY <1>1, <1>7 DEF Dispatch, Calling
  <2>3. ~plain => SoundNow(sent)
    <3> HIDE DEF until
    <3> QED
      BY <2>2, SendSound
  <2> HIDE DEF sent, plain
  <2>4. \E j : SoundNow(j) /\ inv' = [inv EXCEPT ![r] = j]
    BY <1>2, <2>1, <2>3
  <2> QED
    BY <1>4, <1>7, <2>4 DEF Dispatch, StepSound, SecretsReachBoundOrigins
<1>8. CASE Resolved(r)
  <2>1. i.phase = "resolve" /\ CallSoundNow(i)
    BY <1>1, <1>8 DEF Resolved, Calling
  <2>2. CASE Transmit(r)
    <3> DEFINE late == i.cancelled \/ (i.call.approval # <<>> /\ ~Approve(i.call.approval))
               sent == [i EXCEPT !.phase = "transfer", !.sent = @ + 1, !.late = IF late THEN @ + 1 ELSE @]
    <3>1. SoundNow(sent)
      BY <2>1, TransmitSound
    <3>2. inv' = [inv EXCEPT ![r] = sent]
      BY <2>2 DEF Transmit
    <3>3. ASSUME i.call.secret # None
          PROVE  /\ ManifestPermitsBearer(D.manifest, i.call.secret, i.call.origin)
                 /\ i.call.origin \notin PlainOrigins
      <4>1. PermitsBearer(grants, i.call.secret, i.call.origin) /\ i.call.origin \notin PlainOrigins
        BY <2>1, <3>3 DEF CallSoundNow, CallSound, CallAllowed
      <4>2. grants = GrantSet(D.manifest)
        BY <2>1, OnlyServing, ServedProgram DEF Served
      <4> QED
        BY <4>1, <4>2, BearersAgree
    <3>4. \A w \in wire' : w \in wire \/ (i.call.secret # None /\ w = <<i.call.secret, i.call.origin>>)
      BY <2>2 DEF Transmit, When
    <3>5. \A w \in wire' : ManifestPermitsBearer(D.manifest, w[1], w[2]) /\ w[2] \notin PlainOrigins
      BY <1>4, <3>3, <3>4 DEF SecretsReachBoundOrigins
    <3> HIDE DEF sent
    <3> QED
      BY <1>8, <3>1, <3>2, <3>5 DEF Resolved, StepSound
  <2>3. CASE ~Transmit(r)
    BY <1>2, <1>3, <1>4, <1>8, <2>1, <2>3 DEF Resolved, StepSound, SecretsReachBoundOrigins
  <2> QED
    BY <2>2, <2>3
<1>9. CASE ResolveStops(r)
  BY <1>2, <1>3, <1>4, <1>9 DEF ResolveStops, StepSound, SecretsReachBoundOrigins
<1>10. CASE WorkerExits(r)
  <2>1. inv' = [inv EXCEPT ![r] = i]
    BY <1>10 DEF WorkerExits, Served
  <2> QED
    BY <1>1, <1>4, <1>10, <2>1 DEF WorkerExits, StepSound, ReplayingOrSound, SecretsReachBoundOrigins
<1>11. CASE Answer(r)
  <2>1. \E j : SoundNow(j) /\ inv' = [inv EXCEPT ![r] = j]
    BY <1>2, <1>3, <1>11 DEF Answer
  <2> QED
    BY <1>4, <1>11, <2>1 DEF Answer, StepSound, SecretsReachBoundOrigins
<1>12. CASE TransferStops(r)
  BY <1>2, <1>4, <1>12 DEF TransferStops, StepSound, SecretsReachBoundOrigins
<1>13. CASE BackoffEnds(r)
  <2>1. i.phase = "backoff" /\ CallSoundNow(i)
    BY <1>1, <1>13 DEF BackoffEnds, Calling
  <2>2. SoundNow([i EXCEPT !.phase = "attempt"])
    BY <2>1, BackoffEndsSound
  <2>3. inv' \in {[inv EXCEPT ![r] = [i EXCEPT !.phase = "attempt"]], [inv EXCEPT ![r] = Returned(i)]}
    BY <1>13 DEF BackoffEnds
  <2> QED
    BY <1>2, <1>4, <1>13, <2>2, <2>3 DEF BackoffEnds, StepSound, SecretsReachBoundOrigins
<1>14. CASE Cancel(r)
  <2>1. SoundNow([i EXCEPT !.cancelled = TRUE])
    BY <1>1, <1>14, CancelSound DEF Cancel, ReplayingOrSound, Running, Calling
  <2>2. inv' = [inv EXCEPT ![r] = [i EXCEPT !.cancelled = TRUE]]
    BY <1>14 DEF Cancel
  <2> QED
    BY <1>4, <1>14, <2>1, <2>2 DEF Cancel, StepSound, SecretsReachBoundOrigins
<1> QED
  BY <1>5, <1>6, <1>7, <1>8, <1>9, <1>10, <1>11, <1>12, <1>13, <1>14

\* Every step keeps every invocation sound.
LEMMA ServedKept == ASSUME Served, [Next]_vars PROVE Served'
<1>1. Deployed'
  BY DeploymentKept DEF Served
<1>2. CASE UNCHANGED <<stage, inv, wire, D>> /\ UNCHANGED <<grants, build, approved>>
  BY <1>1, <1>2 DEF Served, ReplayingOrSound, SoundNow, SecretsReachBoundOrigins
<1>3. CASE Build \/ Load \/ Admit
  <2>1. stage # "serving" /\ \A r \in Runtimes : inv[r] = Idle
    BY <1>3 DEF Build, Load, Admit, Served
  <2>2. UNCHANGED <<inv, wire, D>>
    BY <1>3 DEF Build, Load, Admit
  <2>3. \A r \in Runtimes : ReplayingOrSound(inv[r])'
    BY <2>1, <2>2 DEF ReplayingOrSound, SoundNow, InvocationSound, Idle
  <2> QED
    BY <1>1, <2>1, <2>2, <2>3 DEF Served, SecretsReachBoundOrigins
<1>4. CASE Revoke
  <2>1. UNCHANGED deploymentVars /\ approved' \subseteq approved /\ UNCHANGED <<inv, wire>> /\ stage = "serving"
    BY <1>4 DEF Revoke
  <2>2. \A i : SoundNow(i) => InvocationSound(i, D', grants', build', approved')
    BY <2>1 DEF SoundNow, InvocationSound, CallSound, LateOnce, Withdrawn, deploymentVars
  <2> QED
    BY <1>1, <2>1, <2>2 DEF Served, ReplayingOrSound, SoundNow, SecretsReachBoundOrigins, deploymentVars
<1>5. ASSUME NEW r \in Runtimes, RuntimeStep(r) \/ Environment(r) PROVE Served'
  <2>1. StepSound(r)
    BY <1>5, EndsSound, CallsSound, AttemptsSound DEF RuntimeStep, Environment
  <2>2. stage' # "serving" => \A s \in Runtimes : inv'[s] = Idle
    <3>1. inv[r].phase # "idle" \/ stage = "serving" \/ WorkerExits(r)
      BY <1>5 DEF RuntimeStep, Environment, AnswerDirectly, GuestFails, Attempt, Charge, Dispatch,
                  ResolveStops, TransferStops, BackoffEnds, Arrive, GuestReturns, AcquireSecret,
                  SendHttp, InvokeAi, Search, HostCall, Resolved, Answer, Cancel, Running, Calling
    <3>2. stage' = stage
      BY <2>1 DEF StepSound, deploymentVars
    <3>3. stage # "serving" => inv' = inv
      BY <3>1, OnlyServing DEF WorkerExits
    <3> QED
      BY <3>2, <3>3 DEF Served
  <2>3. inv' = [s \in Runtimes |-> inv'[s]] /\ \A s \in Runtimes : ReplayingOrSound(inv[s])'
    <3>1. PICK j : inv' = [inv EXCEPT ![r] = j] /\ ReplayingOrSound(j)
      BY <2>1 DEF StepSound, ReplayingOrSound
    <3>2. UNCHANGED deploymentVars /\ approved' = approved
      BY <2>1 DEF StepSound
    <3> QED
      BY <3>1, <3>2, StepKeepsSound DEF Served
  <2> QED
    BY <1>1, <2>1, <2>2, <2>3 DEF Served, StepSound, SecretsReachBoundOrigins, deploymentVars
<1>6. CASE Tick
  BY <1>2, <1>6 DEF Tick, deploymentVars
<1>7. CASE UNCHANGED vars
  BY <1>2, <1>7 DEF vars, deploymentVars
<1> QED
  BY <1>3, <1>4, <1>5, <1>6, <1>7 DEF Next

\* What the host's calls rest on: each is one the manifest and the admission
\* allow, its attempts are counted and at most one was late.
THEOREM InvocationsSound == Spec => []Served
<1>1. Init => Served
  <2> SUFFICES ASSUME Init PROVE Served
    OBVIOUS
  <2>1. \A r \in Runtimes : inv[r] = Idle /\ ReplayingOrSound(inv[r])
    BY DEF Init, Idle, ReplayingOrSound, SoundNow, InvocationSound
  <2> QED
    BY <2>1 DEF Init, Served, Deployed, SecretsReachBoundOrigins
<1> QED
  BY <1>1, ServedKept, PTL DEF Spec

\* A bearer leaves the host only over TLS and only for an origin the manifest
\* binds it to: perform_http, perform_ai and perform_http_search authorize it,
\* network::send refuses a plain origin, and nothing changes either afterwards.
THEOREM SecretsStayBound == Spec => []SecretsReachBoundOrigins
<1>1. Served => SecretsReachBoundOrigins
  BY DEF Served
<1> QED
  BY <1>1, InvocationsSound, PTL

\* A call the guest may make never traps for the host's own authority: the
\* checks of perform_* repeat what admission established.
THEOREM HostAuthoritySuffices == Spec => []HostAuthorityHolds
<1>1. Served => HostAuthorityHolds
  BY DEF Served, ReplayingOrSound, SoundNow, InvocationSound, TrapAllowed, Calling, HostAuthorityHolds
<1> QED
  BY <1>1, InvocationsSound, PTL

\* Admission is enough: what validate_agent_host let through neither makes a
\* call the manifest does not grant nor needs authority the host lacks later.
THEOREM AdmissionIsEnough == Spec => []AdmissionSuffices
<1>1. AdmittedCallsGranted /\ HostAuthorityHolds => AdmissionSuffices
  BY DEF AdmissionSuffices
<1> QED
  BY <1>1, ServedCallsGranted, HostAuthoritySuffices, PTL

\* After a cancellation or a withdrawn approval at most the attempt under way
\* still reaches the wire (send_with_retry asks before every other attempt).
THEOREM WithdrawalTakesEffect == Spec => []WithdrawnAtMostOneMore
<1>1. Served => WithdrawnAtMostOneMore
  BY DEF Served, ReplayingOrSound, SoundNow, InvocationSound, CallSound, LateOnce, Calling, WithdrawnAtMostOneMore
<1> QED
  BY <1>1, InvocationsSound, PTL

\* A call is sent again only when that is safe and within its policy
\* (RetrySafety, RetryPolicy::attempts).
THEOREM ResendsAreSafe == Spec => []ResendOnlyWhenSafe
<1>1. ASSUME Served, NEW r \in Runtimes, inv[r].phase \in Calling, inv[r].sent > 1
      PROVE  inv[r].call.eligible /\ inv[r].sent =< inv[r].call.retry.attempts
  <2>1. /\ AttemptsCounted(inv[r]) /\ inv[r].call.retry.attempts \in Nat
    BY <1>1, SoundCases DEF Served, CallSoundNow, CallSound, CallAllowed
  <2> QED
    BY <1>1, <2>1 DEF AttemptsCounted, MaySendAgain, Calling
<1>2. Served => ResendOnlyWhenSafe
  BY <1>1 DEF ResendOnlyWhenSafe
<1> QED
  BY <1>2, InvocationsSound, PTL

\* The attempts of a call stay within its policy and its approval, on every
\* path around the loop of send_with_retry.
THEOREM AttemptsStayWithinPolicy == Spec => []AttemptsWithinPolicy
<1>1. WithdrawnAtMostOneMore /\ ResendOnlyWhenSafe => AttemptsWithinPolicy
  BY DEF AttemptsWithinPolicy
<1> QED
  BY <1>1, WithdrawalTakesEffect, ResendsAreSafe, PTL

-----------------------------------------------------------------------------
(* Rate windows                                                            *)

\* The image of a finite set is finite.
LEMMA ImageFinite ==
  ASSUME NEW S, IsFiniteSet(S), NEW f, DOMAIN f = S
  PROVE  IsFiniteSet({f[x] : x \in S})
<1> DEFINE T == {f[x] : x \in S}
           g == [x \in S |-> f[x]]
<1>1. g \in Surjection(S, T)
  BY DEF Surjection
<1> QED
  BY <1>1, FS_Surjection DEF ExistsSurjection

\* An artifact touches finitely many buckets.
LEMMA BucketsFinite ==
  ASSUME Deployed, stage = "serving"
  PROVE  IsFiniteSet(RateResources(build.artifact.metadata, C))
<1> DEFINE p == D.program
           f == [c \in p.calls |-> CallRequirements(c)]
<1>1. IsFiniteSet(p.calls)
  BY DeploymentAssumption DEF Deployed
<1>2. \A c \in p.calls : IsFiniteSet(f[c])
  <2> SUFFICES ASSUME NEW c \in p.calls PROVE IsFiniteSet(CallRequirements(c))
    OBVIOUS
  <2> DEFINE S == (({} \cup {<<c.capability, c.resource>>}) \cup {<<"state.transaction", c.store>>})
                     \cup {<<"secret.read", c.bearer>>}
  <2>1. IsFiniteSet(S)
    BY FS_EmptySet, FS_AddElement
  <2>2. CallRequirements(c) \subseteq S
    BY DEF CallRequirements, When
  <2> QED
    BY <2>1, <2>2, FS_Subset
<1>3. IsFiniteSet(CallsRequire(p))
  <2>1. IsFiniteSet({f[c] : c \in p.calls})
    <3>1. DOMAIN f = p.calls
      OBVIOUS
    <3> HIDE DEF f
    <3> QED
      BY <1>1, <3>1, ImageFinite
  <2>2. CallsRequire(p) = UNION {f[c] : c \in p.calls}
    BY DEF CallsRequire
  <2>3. \A T \in {f[c] : c \in p.calls} : IsFiniteSet(T)
    BY <1>2
  <2> HIDE DEF f
  <2> QED
    BY <2>1, <2>2, <2>3, FS_UNION
<1>4. IsFiniteSet(DeclaredRequirement(p))
  BY FS_EmptySet, FS_Singleton DEF DeclaredRequirement
<1>5. IsFiniteSet(GuestRequirements)
  <2>1. GuestRequirements = CallsRequire(p) \cup DeclaredRequirement(p)
    BY ServedProgram, CheckedRequirements
  <2>2. IsFiniteSet(CallsRequire(p) \cup DeclaredRequirement(p))
    BY <1>3, <1>4, FS_Union
  <2> QED
    BY <2>1, <2>2
<1> DEFINE b(q) == CASE q[1] \in {"ai.invoke", "http.request"} -> {q}
                     [] q[1] \in {"search.query", "search.vector"} /\ q[2] \in DOMAIN C.search ->
                          When(C.search[q[2]].origin # None, {<<"http.request", C.search[q[2]].origin>>})
                     [] OTHER -> {}
           g == [q \in GuestRequirements |-> b(q)]
<1>6. \A q : IsFiniteSet(b(q))
  BY FS_EmptySet, FS_Singleton DEF When
<1>7. RateResources(build.artifact.metadata, C) = UNION {g[q] : q \in GuestRequirements}
  BY DEF RateResources, GuestRequirements
<1>8. \A T \in {g[q] : q \in GuestRequirements} : IsFiniteSet(T)
  BY <1>6
<1>9. DOMAIN g = GuestRequirements
  OBVIOUS
<1> HIDE DEF g
<1>10. IsFiniteSet({g[q] : q \in GuestRequirements})
  BY <1>5, <1>9, ImageFinite
<1> QED
  BY <1>7, <1>8, <1>10, FS_UNION

\* A window of a bucket: its count is within the bucket's capacity.
WindowSound(w, capacity) == w = [started |-> w.started, count |-> w.count] /\ w.count \in 0 .. capacity

\* The table holds the windows of buckets the artifact can touch and lost none.
Rated ==
  /\ rates = [b \in DOMAIN rates |-> rates[b]] /\ windows = rates
  /\ stage # "serving" => DOMAIN rates = {}
  /\ DOMAIN rates \subseteq RateResources(build.artifact.metadata, C)
  /\ \A b \in DOMAIN rates : WindowSound(rates[b], BucketRate(b, C).capacity)

\* A table with room for every bucket evicts none (check_rate, and the bound
\* validate_agent_host puts on the buckets).
LEMMA NothingEvicted ==
  ASSUME Deployed, stage = "serving", DOMAIN rates \subseteq RateResources(build.artifact.metadata, C),
         NEW bucket \in RateResources(build.artifact.metadata, C)
  PROVE  Tracked(bucket) = DOMAIN rates
<1> DEFINE R == RateResources(build.artifact.metadata, C)
           S == DOMAIN rates
<1>1. IsFiniteSet(R) /\ Cardinality(R) =< C.maxTracked /\ C.maxTracked \in Nat
  BY BucketsFinite, ServedProgram, DeploymentAssumption DEF Deployed, C
<1>2. ASSUME bucket \notin S PROVE Cardinality(S) < C.maxTracked
  <2> HIDE DEF R, S
  <2>1. S \subseteq R /\ bucket \in R
    BY DEF R, S
  <2>2. IsFiniteSet(S) /\ Cardinality(S) \in Nat /\ Cardinality(R) \in Nat
    BY <1>1, <2>1, FS_Subset, FS_CardinalityType
  <2>3. Cardinality(S \cup {bucket}) = Cardinality(S) + 1
    BY <1>2, <2>2, FS_AddElement
  <2>4. Cardinality(S \cup {bucket}) =< Cardinality(R)
    BY <1>1, <2>1, FS_Subset
  <2> QED
    BY <1>1, <2>2, <2>3, <2>4
<1>3. ASSUME bucket \notin S PROVE ~(Cardinality(S) >= C.maxTracked)
  <2>1. Cardinality(S) \in Nat
    BY <1>1, FS_Subset, FS_CardinalityType
  <2> HIDE DEF S
  <2> QED
    BY <1>1, <1>2, <1>3, <2>1
<1> QED
  BY <1>3 DEF Tracked

\* A charge keeps the windows within their capacities.
LEMMA ChargeRated ==
  ASSUME Served, Rated, NEW r \in Runtimes, Charge(r)
  PROVE  Rated'
<1> DEFINE call == inv[r].call
           bucket == call.bucket
           R == RateResources(build.artifact.metadata, C)
           before == Window(rates, bucket, call.rate)
           after == IF before.count < call.rate.capacity THEN [before EXCEPT !.count = @ + 1] ELSE before
<1>1. stage = "serving" /\ Deployed /\ CallSoundNow(inv[r])
  BY OnlyServing, SoundCases DEF Charge, Served, Calling
<1>2. bucket \in R /\ call.rate = BucketRate(bucket, C) /\ call.rate.capacity \in Nat
  BY <1>1, OverridesTyped DEF CallSoundNow, CallSound, CallAllowed, BucketRate, C
<1>3. Tracked(bucket) = DOMAIN rates
  BY <1>1, <1>2, NothingEvicted DEF Rated
<1>4. rates' = With(Keep(rates, DOMAIN rates), bucket, after) /\ windows' = With(windows, bucket, after)
  BY <1>3 DEF Charge, CheckRate, Rated
<1>5. WindowSound(after, call.rate.capacity)
  <2>1. WindowSound(before, call.rate.capacity)
    BY <1>2 DEF Rated, Window, WindowSound
  <2> HIDE DEF before, call
  <2> QED
    BY <1>2, <2>1 DEF WindowSound
<1> HIDE DEF after
<1>6. /\ DOMAIN rates' = DOMAIN rates \cup {bucket}
      /\ \A b \in DOMAIN rates' : rates'[b] = IF b = bucket THEN after ELSE rates[b]
      /\ rates' = [b \in DOMAIN rates' |-> rates'[b]] /\ windows' = rates'
  BY <1>4 DEF With, Keep, Rated
<1>7. UNCHANGED <<build, D, stage>>
  BY DEF Charge, deploymentVars
<1>8. \A b \in DOMAIN rates' : WindowSound(rates'[b], BucketRate(b, C).capacity)
  BY <1>2, <1>5, <1>6 DEF Rated
<1> QED
  BY <1>1, <1>2, <1>6, <1>7, <1>8 DEF Rated, C

\* Nothing else touches them.
LEMMA RatedKept == ASSUME Served, Rated, [Next]_vars PROVE Rated'
<1>1. CASE \E r \in Runtimes : Charge(r)
  BY <1>1, ChargeRated
<1>2. CASE Build \/ Load \/ Admit
  <2>1. DOMAIN rates = {} /\ UNCHANGED rateVars
    BY <1>2 DEF Build, Load, Admit, Rated
  <2> QED
    BY <2>1 DEF Rated, rateVars
<1>3. CASE ~(\E r \in Runtimes : Charge(r)) /\ ~Build /\ ~Load /\ ~Admit
  <2>1. UNCHANGED deploymentVars
    BY <1>3, OthersKeepDeployment DEF vars
  <2>2. UNCHANGED rateVars
    BY <1>3 DEF Next, RuntimeStep, Environment, AnswerDirectly, GuestFails, Attempt, Dispatch,
                ResolveStops, TransferStops, BackoffEnds, Arrive, GuestReturns, AcquireSecret, SendHttp,
                InvokeAi, Search, HostCall, Resolved, WorkerExits, Answer, Cancel, Revoke, Tick, vars
  <2> QED
    BY <2>1, <2>2 DEF Rated, deploymentVars, rateVars, C
<1> QED
  BY <1>1, <1>2, <1>3

\* The attempts let through in one window never exceed the capacity of its
\* bucket, on every host that admission lets an artifact run on.
THEOREM RatesStayCapped == Spec => []RateCapHolds
<1>1. Init => Rated
  BY DEF Init, Rated
<1>2. Served /\ Rated => RateCapHolds
  BY OverridesTyped DEF Served, Rated, WindowSound, BucketRate, RateCapHolds
<1>3. Served /\ Rated /\ [Next]_vars => Rated'
  BY RatedKept
<1> QED
  BY <1>1, <1>2, <1>3, InvocationsSound, PTL DEF Spec

-----------------------------------------------------------------------------
(* Idempotency responses                                                   *)

\* The responses m are counted exactly, in order of use and within the bounds c.
MemoSound(m, older, bytes, c) ==
  /\ m = [k \in DOMAIN m |-> m[k]] /\ IsFiniteSet(DOMAIN m)
  /\ \A k \in DOMAIN m : m[k].response \in Nat /\ m[k].expires \in Nat
  /\ bytes = Sizes(m) /\ OrdersStrictly(older, DOMAIN m)
  /\ Cardinality(DOMAIN m) =< c.entries /\ bytes =< c.bytes

\* The sizes of the responses m, as a function to sum (cached_response_size).
Responses(m) == [k \in DOMAIN m |-> m[k].response]

LEMMA SizesIsSum == ASSUME NEW m PROVE Sizes(m) = SumOver(Responses(m), DOMAIN m)
  BY DEF Sizes, SumOver, Responses

\* The bytes of a part of the responses.
LEMMA SizesOfPart ==
  ASSUME NEW m, IsFiniteSet(DOMAIN m), \A k \in DOMAIN m : m[k].response \in Nat, NEW S \in SUBSET DOMAIN m
  PROVE  /\ DOMAIN Keep(m, S) = S
         /\ Sizes(Keep(m, S)) = SumOver(Responses(m), S)
         /\ Sizes(Keep(m, S)) \in Nat
<1>1. DOMAIN Keep(m, S) = S /\ IsFiniteSet(S)
  BY FS_Subset DEF Keep
<1>2. \A k \in S : Responses(Keep(m, S))[k] = Responses(m)[k] /\ Responses(m)[k] \in Nat
  BY <1>1 DEF Responses, Keep
<1>3. SumOver(Responses(Keep(m, S)), S) = SumOver(Responses(m), S)
  BY <1>1, <1>2, SumSame
<1>4. SumOver(Responses(m), S) \in Nat
  BY <1>1, <1>2, SumNat
<1> QED
  BY <1>1, <1>3, <1>4, SizesIsSum

\* A part of sound responses is sound (idempotency_decision drops the expired).
LEMMA PartSound ==
  ASSUME NEW m, NEW older, NEW bytes, NEW c, c.entries \in Nat, c.bytes \in Nat,
         MemoSound(m, older, bytes, c), NEW S \in SUBSET DOMAIN m
  PROVE  /\ MemoSound(Keep(m, S), Among(older, S), Sizes(Keep(m, S)), c)
         /\ \A k \in S : MemoSound(Keep(m, S), UsedNow(older, S, k), Sizes(Keep(m, S)), c)
<1> DEFINE f == Responses(m)
           n == Keep(m, S)
<1>1. IsFiniteSet(DOMAIN m) /\ (\A k \in DOMAIN m : m[k].response \in Nat) /\ OrdersStrictly(older, DOMAIN m)
  BY DEF MemoSound
<1>2. DOMAIN n = S /\ Sizes(n) = SumOver(f, S) /\ Sizes(n) \in Nat
  BY <1>1, SizesOfPart
<1>3. n = [k \in DOMAIN n |-> n[k]] /\ \A k \in S : n[k] = m[k]
  BY DEF Keep
<1>4. Sizes(n) =< c.bytes
  <2>1. \A k \in DOMAIN m : f[k] \in Nat
    BY <1>1 DEF Responses
  <2>2. SumOver(f, S) =< SumOver(f, DOMAIN m)
    BY <1>1, <2>1, SumMonotone
  <2>3. SumOver(f, DOMAIN m) \in Nat
    BY <1>1, <2>1, SumNat
  <2>4. bytes = SumOver(f, DOMAIN m) /\ bytes =< c.bytes
    BY SizesIsSum DEF MemoSound
  <2> HIDE DEF f, n
  <2> QED
    BY <1>2, <2>2, <2>3, <2>4
<1>5. IsFiniteSet(S) /\ Cardinality(S) =< c.entries
  <2>1. IsFiniteSet(S) /\ Cardinality(S) =< Cardinality(DOMAIN m)
    BY <1>1, FS_Subset
  <2>2. Cardinality(S) \in Nat /\ Cardinality(DOMAIN m) \in Nat
    BY <1>1, <2>1, FS_CardinalityType
  <2> QED
    BY <2>1, <2>2 DEF MemoSound
<1>6. OrdersStrictly(Among(older, S), S)
  BY <1>1, PartOrdered
<1>7. ASSUME NEW k \in S PROVE OrdersStrictly(UsedNow(older, S, k), S)
  <2>1. UsedNow(older, S, k) = UsedNow(Among(older, S), S, k) /\ S \cup {k} = S
    BY DEF UsedNow, Among
  <2>2. OrdersStrictly(UsedNow(Among(older, S), S, k), S \cup {k})
    BY <1>6, UsedNowOrdered
  <2> QED
    BY <2>1, <2>2
<1> HIDE DEF n
<1> QED
  BY <1>1, <1>2, <1>3, <1>4, <1>5, <1>6, <1>7 DEF MemoSound, n

\* A response added to a part that leaves room for it (complete_idempotency).
LEMMA AddedSound ==
  ASSUME NEW m, NEW older, NEW bytes, NEW c, c.entries \in Nat, c.bytes \in Nat,
         MemoSound(m, older, bytes, c), NEW key, NEW T \in SUBSET (DOMAIN m \ {key}),
         NEW v, v.response \in Nat, v.expires \in Nat,
         Cardinality(T) < c.entries, SumOver(Responses(m), T) + v.response =< c.bytes
  PROVE  MemoSound(With(Keep(m, T), key, v), UsedNow(older, T, key), SumOver(Responses(m), T) + v.response, c)
<1> DEFINE n == With(Keep(m, T), key, v)
           f == Responses(m)
           g == Responses(n)
<1>1. /\ IsFiniteSet(DOMAIN m) /\ OrdersStrictly(older, DOMAIN m)
      /\ \A k \in DOMAIN m : m[k].response \in Nat /\ m[k].expires \in Nat
  BY DEF MemoSound
<1>2. T \in SUBSET DOMAIN m /\ key \notin T /\ IsFiniteSet(T)
  BY <1>1, FS_Subset
<1>3. /\ DOMAIN n = T \cup {key} /\ n = [k \in DOMAIN n |-> n[k]]
      /\ n[key] = v /\ \A k \in T : n[k] = m[k]
  BY <1>2 DEF With, Keep
<1>4. IsFiniteSet(T \cup {key}) /\ Cardinality(T \cup {key}) =< c.entries
  <2>1. Cardinality(T) \in Nat
    BY <1>2, FS_CardinalityType
  <2>2. IsFiniteSet(T \cup {key}) /\ Cardinality(T \cup {key}) = Cardinality(T) + 1
    BY <1>2, FS_AddElement
  <2> QED
    BY <2>1, <2>2
<1>5. Sizes(n) = SumOver(f, T) + v.response
  <2> HIDE DEF n
  <2>1. g[key] = v.response /\ \A k \in T : g[k] = f[k] /\ g[k] \in Nat
    BY <1>1, <1>2, <1>3 DEF Responses
  <2> HIDE DEF f, g
  <2>2. SumOver(g, T \cup {key}) = SumOver(g, T) + g[key]
    BY <1>2, <2>1, SumAdd
  <2>3. SumOver(g, T) = SumOver(f, T)
    BY <1>2, <2>1, SumSame
  <2>4. Sizes(n) = SumOver(g, T \cup {key})
    BY <1>3, SizesIsSum DEF g
  <2> QED
    BY <2>1, <2>2, <2>3, <2>4
<1>6. OrdersStrictly(UsedNow(older, T, key), T \cup {key})
  <2>1. UsedNow(older, T, key) = UsedNow(Among(older, T), T, key)
    BY <1>2 DEF UsedNow, Among
  <2>2. OrdersStrictly(Among(older, T), T)
    BY <1>1, <1>2, PartOrdered
  <2> QED
    BY <2>1, <2>2, UsedNowOrdered
<1> HIDE DEF n, f
<1>7. \A k \in DOMAIN n : n[k].response \in Nat /\ n[k].expires \in Nat
  BY <1>1, <1>2, <1>3
<1> QED
  BY <1>3, <1>4, <1>5, <1>6, <1>7 DEF MemoSound, n, f

\* What complete_idempotency counts once it dropped S and a response it replaces.
LEMMA CountedAfter ==
  ASSUME NEW m, IsFiniteSet(DOMAIN m), \A k \in DOMAIN m : m[k].response \in Nat,
         NEW key, NEW S \in SUBSET (DOMAIN m \ {key})
  PROVE  /\ Sizes(m) - (IF key \in DOMAIN m THEN m[key].response ELSE 0) - Sizes(Keep(m, S))
              = SumOver(Responses(m), (DOMAIN m \ {key}) \ S)
         /\ SumOver(Responses(m), (DOMAIN m \ {key}) \ S) \in Nat
<1> DEFINE f == Responses(m)
           others == DOMAIN m \ {key}
<1>1. \A k \in DOMAIN m : f[k] = m[k].response /\ f[k] \in Nat
  BY DEF Responses
<1>2. Sizes(m) = SumOver(f, DOMAIN m) /\ Sizes(Keep(m, S)) = SumOver(f, S)
  BY SizesIsSum, SizesOfPart
<1>3. IsFiniteSet(others)
  BY FS_Subset
<1> HIDE DEF f
<1>4. SumOver(f, others) = SumOver(f, S) + SumOver(f, others \ S)
  BY <1>1, <1>3, SumSplit
<1>5. SumOver(f, S) \in Nat /\ SumOver(f, others \ S) \in Nat
  <2>1. IsFiniteSet(S) /\ IsFiniteSet(others \ S)
    BY <1>3, FS_Subset
  <2> QED
    BY <1>1, <2>1, SumNat
<1>6. SumOver(f, DOMAIN m) = (IF key \in DOMAIN m THEN m[key].response ELSE 0) + SumOver(f, others)
  <2>1. CASE key \in DOMAIN m
    <3>1. SumOver(f, DOMAIN m) = f[key] + SumOver(f, others)
      BY <1>1, <2>1, SumRemove
    <3> QED
      BY <1>1, <2>1, <3>1
  <2>2. CASE key \notin DOMAIN m
    <3>1. others = DOMAIN m
      BY <2>2
    <3>2. SumOver(f, others) \in Nat
      BY <1>4, <1>5
    <3> HIDE DEF others
    <3> QED
      BY <2>2, <3>1, <3>2
  <2> QED
    BY <2>1, <2>2
<1>7. (IF key \in DOMAIN m THEN m[key].response ELSE 0) \in Nat
  OBVIOUS
<1> DEFINE replaced == IF key \in DOMAIN m THEN m[key].response ELSE 0
<1>8. SumOver(f, DOMAIN m) - replaced - SumOver(f, S) = SumOver(f, others \ S)
  <2> HIDE DEF replaced, others
  <2> QED
    BY <1>4, <1>5, <1>6, <1>7 DEF replaced
<1> QED
  BY <1>2, <1>5, <1>8 DEF f

\* The deployment's bounds on the responses are numbers.
LEMMA MemoTyped ==
  ASSUME Deployed
  PROVE  /\ C.memo.entries \in Nat /\ C.memo.bytes \in Nat /\ C.memo.ttl \in Nat
         /\ D.responses \subseteq Nat
  BY DeploymentAssumption DEF Deployed, C

\* The responses in memory, and the clock that dates them.
Remembered ==
  /\ now \in Nat
  /\ MemoSound(memo, memoOlder, memoBytes, C.memo)

\* A completion keeps the responses sound: what it evicts makes room, because
\* an empty table has room for every response that is kept at all.
LEMMA CompletionSound ==
  ASSUME Deployed, Remembered, NEW request, NEW response \in Nat,
         CompleteIdempotency(request, response)
  PROVE  MemoSound(memo', memoOlder', memoBytes', C.memo)
<1> DEFINE others == DOMAIN memo \ {request.key}
           f == Responses(memo)
           after(S) == memoBytes - ReplacedBytes(request) - Sizes(Keep(memo, S))
           fits(S) == Cardinality(others \ S) < C.memo.entries /\ after(S) + response =< C.memo.bytes
           enough == {k \in others : fits(UpTo(memoOlder, others, k))}
           evicted == IF fits({}) THEN {} ELSE Victims(memoOlder, others, enough)
           v == [digest |-> request.digest, response |-> response, expires |-> now + C.memo.ttl]
           refused == \/ request.key = None
                      \/ C.memo.entries = 0 \/ C.memo.bytes = 0
                      \/ response > C.memo.bytes
<1>1. CASE refused
  <2>1. UNCHANGED <<memo, memoOlder, memoBytes>>
    BY <1>1 DEF CompleteIdempotency
  <2> QED
    BY <2>1 DEF Remembered
<1>2. CASE ~refused
  <2>1. /\ memo' = With(Keep(memo, others \ evicted), request.key, v)
        /\ memoOlder' = UsedNow(memoOlder, others \ evicted, request.key)
        /\ memoBytes' = after(evicted) + response
    BY <1>2 DEF CompleteIdempotency
  <2>2. /\ IsFiniteSet(DOMAIN memo) /\ OrdersStrictly(memoOlder, DOMAIN memo) /\ memoBytes = Sizes(memo)
        /\ \A k \in DOMAIN memo : memo[k].response \in Nat
    BY DEF Remembered, MemoSound
  <2>3. ASSUME NEW S \in SUBSET others
        PROVE  after(S) = SumOver(f, others \ S) /\ after(S) \in Nat
    <3>1. /\ Sizes(memo) - ReplacedBytes(request) - Sizes(Keep(memo, S)) = SumOver(Responses(memo), others \ S)
          /\ SumOver(Responses(memo), others \ S) \in Nat
      BY <2>2, CountedAfter, Zenon DEF ReplacedBytes
    <3> QED
      BY <2>2, <3>1
  <2>4. /\ C.memo.entries \in Nat /\ C.memo.entries > 0 /\ C.memo.bytes \in Nat
        /\ response =< C.memo.bytes /\ now + C.memo.ttl \in Nat
    BY <1>2, MemoTyped DEF Remembered
  <2>5. fits(others)
    <3>1. others \ others = {} /\ Cardinality(others \ others) = 0
      BY FS_EmptySet
    <3>2. after(others) = 0
      BY <2>3, <3>1, SumEmpty
    <3> HIDE DEF after, others
    <3> QED
      BY <2>4, <3>1, <3>2
  <2>6. evicted \in SUBSET others /\ fits(evicted)
    <3>1. CASE fits({})
      <4> HIDE DEF fits
      <4> QED
        BY <3>1
    <3>2. CASE ~fits({})
      <4>1. evicted = Victims(memoOlder, others, enough)
        <5> HIDE DEF fits
        <5> QED
          BY <3>2
      <4>2. enough \in SUBSET others /\ \A t \in enough : fits(UpTo(memoOlder, others, t))
        <5> HIDE DEF fits
        <5> QED
          OBVIOUS
      <4>3. \/ Victims(memoOlder, others, enough) = others
            \/ \E t \in enough : Victims(memoOlder, others, enough) = UpTo(memoOlder, others, t)
        <5> HIDE DEF enough
        <5> QED
          BY <2>2, <4>2, VictimsStop
      <4>4. Victims(memoOlder, others, enough) \in SUBSET others
        BY DEF Victims
      <4> HIDE DEF fits, enough, others, evicted
      <4> QED
        BY <2>5, <4>1, <4>2, <4>3, <4>4
    <3> QED
      BY <3>1, <3>2
  <2> HIDE DEF evicted
  <2> DEFINE T == others \ evicted
  <2>7. T \in SUBSET others
    OBVIOUS
  <2>8. /\ Cardinality(T) < C.memo.entries
        /\ memoBytes' = SumOver(f, T) + response /\ SumOver(f, T) + response =< C.memo.bytes
    BY <2>1, <2>3, <2>6
  <2>9. v.response = response /\ v.expires \in Nat
    BY <2>4
  <2> HIDE DEF T, v
  <2>10. MemoSound(With(Keep(memo, T), request.key, v), UsedNow(memoOlder, T, request.key),
                   SumOver(Responses(memo), T) + v.response, C.memo)
    BY <2>4, <2>7, <2>8, <2>9, AddedSound DEF Remembered
  <2> QED
    BY <2>1, <2>8, <2>9, <2>10 DEF T
<1> QED
  BY <1>1, <1>2

\* An arrival drops what has expired, or leaves the responses alone.
LEMMA ArrivalSound ==
  ASSUME Deployed, Remembered, NEW r \in Runtimes, Arrive(r)
  PROVE  MemoSound(memo', memoOlder', memoBytes', C.memo)
<1>1. PICK request \in D.requests :
        LET decision == IdempotencyDecision(request)
        IN memo' = decision.memo /\ memoOlder' = decision.older /\ memoBytes' = decision.bytes
  BY DEF Arrive
<1> DEFINE live == {k \in DOMAIN memo : memo[k].expires > now}
<1>2. CASE request.key \in {None, "invalid"}
  BY <1>1, <1>2 DEF IdempotencyDecision, Remembered
<1>3. CASE request.key \notin {None, "invalid"}
  <2>1. /\ memo' = Keep(memo, live) /\ memoBytes' = Sizes(Keep(memo, live))
        /\ memoOlder' = IF request.key \in live THEN UsedNow(memoOlder, live, request.key)
                        ELSE Among(memoOlder, live)
    BY <1>1, <1>3 DEF IdempotencyDecision
  <2>2. live \in SUBSET DOMAIN memo
    OBVIOUS
  <2> HIDE DEF live
  <2> QED
    BY <2>1, <2>2, MemoTyped, PartSound DEF Remembered
<1> QED
  BY <1>2, <1>3

\* Only arrivals and completions touch the responses.
LEMMA RememberedKept == ASSUME Deployed, Remembered, [Next]_vars PROVE Remembered'
<1>1. D' = D /\ C' = C
  BY DEF Next, RuntimeStep, Environment, AnswerDirectly, GuestFails, Attempt, Charge, Dispatch,
         ResolveStops, TransferStops, BackoffEnds, Arrive, GuestReturns, AcquireSecret, SendHttp,
         InvokeAi, Search, HostCall, Resolved, WorkerExits, Answer, Cancel, Revoke, Tick, Build, Load, Admit,
         vars, deploymentVars, C
<1>2. now' \in Nat
  <2>1. CASE Tick
    BY <2>1 DEF Tick, Remembered
  <2>2. CASE ~Tick
    <3>1. now' = now
      BY <2>2 DEF Next, RuntimeStep, Environment, AnswerDirectly, GuestFails, Attempt, Charge, Dispatch,
         ResolveStops, TransferStops, BackoffEnds, Arrive, GuestReturns, AcquireSecret, SendHttp,
         InvokeAi, Search, HostCall, Resolved, WorkerExits, Answer, Cancel, Revoke, Build, Load, Admit, vars
    <3> QED
      BY <3>1 DEF Remembered
  <2> QED
    BY <2>1, <2>2
<1>3. CASE \E r \in Runtimes : Arrive(r)
  BY <1>1, <1>2, <1>3, ArrivalSound DEF Remembered
<1>4. CASE \E r \in Runtimes : GuestReturns(r)
  <2>1. PICK r \in Runtimes : GuestReturns(r)
    BY <1>4
  <2>2. PICK response \in D.responses : CompleteIdempotency(inv[r].request, response)
    BY <2>1 DEF GuestReturns
  <2> QED
    BY <1>1, <1>2, <2>2, CompletionSound, MemoTyped DEF Remembered
<1>5. CASE ~(\E r \in Runtimes : Arrive(r)) /\ ~(\E r \in Runtimes : GuestReturns(r))
  <2>1. UNCHANGED <<memo, memoOlder, memoBytes>>
    BY <1>5 DEF Next, RuntimeStep, Environment, AnswerDirectly, GuestFails, Attempt, Charge, Dispatch,
         ResolveStops, TransferStops, BackoffEnds, AcquireSecret, SendHttp,
         InvokeAi, Search, HostCall, Resolved, WorkerExits, Answer, Cancel, Revoke, Tick, Build, Load, Admit,
         vars, memoVars
  <2> QED
    BY <1>1, <1>2, <2>1 DEF Remembered
<1> QED
  BY <1>3, <1>4, <1>5

\* The table of responses starts empty.
LEMMA InitRemembered == Init => Remembered
<1> SUFFICES ASSUME Init PROVE Remembered
  OBVIOUS
<1>1. Deployed
  BY DEF Init, Deployed
<1>2. DOMAIN memo = {} /\ Sizes(memo) = 0
  BY SizesIsSum, SumEmpty DEF Init
<1>3. OrdersStrictly(memoOlder, DOMAIN memo)
  BY <1>2 DEF Init, OrdersStrictly
<1> QED
  BY <1>1, <1>2, <1>3, MemoTyped, FS_EmptySet DEF Init, Remembered, MemoSound

\* The idempotency responses stay within their bounds and exactly counted,
\* however the runtimes that share the host interleave (InMemoryIdempotency).
THEOREM ResponsesStayBounded == Spec => []MemoWithinBounds
<1>1. Init => Remembered
  BY InitRemembered
<1>2. Remembered => MemoWithinBounds
  BY DEF Remembered, MemoSound, MemoWithinBounds
<1>3. Deployed /\ Remembered /\ [Next]_vars => Remembered'
  BY RememberedKept
<1> QED
  BY <1>1, <1>2, <1>3, DeploymentHolds, PTL DEF Spec

\* An answer to this key and request that is still within the time to live.
Matches(a, key, digest, response) == a.key = key /\ a.digest = digest /\ a.response = response
Stands(key, digest, response) ==
  \E a \in answers : Matches(a, key, digest, response) /\ now < a.at + C.memo.ttl

\* A live response in memory expires a time to live after a guest produced it,
\* and what is being replayed was live when its request arrived.
Recorded ==
  /\ \A a \in answers : a.at \in Nat
  /\ \A k \in DOMAIN memo : memo[k].expires > now =>
       \E a \in answers : /\ Matches(a, k, memo[k].digest, memo[k].response)
                          /\ memo[k].expires = a.at + C.memo.ttl
  /\ \A r \in Runtimes : inv[r].phase = "replay" =>
       /\ inv[r].at \in Nat /\ inv[r].at =< now
       /\ inv[r].at = now => Stands(inv[r].request.key, inv[r].request.digest, inv[r].response)

\* A replay answers with a live response of the same request.
LEMMA ArrivalRecorded ==
  ASSUME Served, Remembered, Recorded, NEW r \in Runtimes, Arrive(r)
  PROVE  Recorded'
<1>1. PICK request \in D.requests :
        /\ memo' = IdempotencyDecision(request).memo
        /\ inv' = [inv EXCEPT ![r] =
             CASE IdempotencyDecision(request).kind = "execute" ->
                    [phase |-> "guest", request |-> request, ends |-> now + D.limits.deadline,
                     cancelled |-> FALSE, calls |-> 0, http |-> 0, ai |-> 0, handles |-> {}]
               [] IdempotencyDecision(request).kind = "replay" ->
                    [phase |-> "replay", request |-> request, at |-> now,
                     response |-> memo[request.key].response]
               [] OTHER -> [phase |-> IdempotencyDecision(request).kind]]
  BY DEF Arrive
<1>2. UNCHANGED <<now, answers, D>>
  BY DEF Arrive, deploymentVars
<1>3. \A k \in DOMAIN memo' : k \in DOMAIN memo /\ memo'[k] = memo[k]
  BY <1>1 DEF IdempotencyDecision, Keep
<1>4. \A k \in DOMAIN memo' : memo'[k].expires > now' =>
        \E a \in answers' : /\ Matches(a, k, memo'[k].digest, memo'[k].response)
                            /\ memo'[k].expires = a.at + C'.memo.ttl
  BY <1>2, <1>3 DEF Recorded, C
<1>5. CASE IdempotencyDecision(request).kind = "replay"
  <2>1. /\ request.key \in DOMAIN memo /\ memo[request.key].expires > now
        /\ memo[request.key].digest = request.digest
    BY <1>5 DEF IdempotencyDecision, SameRequest
  <2>2. Stands(request.key, request.digest, memo[request.key].response)
    BY <2>1 DEF Recorded, Stands, Matches, Remembered
  <2>3. inv' = [inv EXCEPT ![r] = [phase |-> "replay", request |-> request, at |-> now,
                                   response |-> memo[request.key].response]]
    BY <1>1, <1>5
  <2>4. /\ inv'[r].at = now /\ inv'[r].request = request /\ inv'[r].response = memo[request.key].response
        /\ \A s \in Runtimes : s # r => inv'[s] = inv[s]
    BY <2>3 DEF Served
  <2> QED
    BY <1>2, <1>4, <2>2, <2>4 DEF Recorded, Remembered, Stands, C
<1>6. CASE IdempotencyDecision(request).kind # "replay"
  <2>1. inv'[r].phase # "replay" /\ \A s \in Runtimes : s # r => inv'[s] = inv[s]
    BY <1>1, <1>6 DEF Served
  <2> QED
    BY <1>2, <1>4, <2>1 DEF Recorded, Stands, C
<1> QED
  BY <1>5, <1>6

\* A completion forgets only the answers whose time to live is over.
LEMMA CompletionRecorded ==
  ASSUME Served, Remembered, Recorded, NEW r \in Runtimes, GuestReturns(r)
  PROVE  Recorded'
<1> DEFINE request == inv[r].request
<1>1. PICK response \in D.responses :
        /\ CompleteIdempotency(request, response)
        /\ answers' = {a \in answers : a.at + C.memo.ttl > now} \cup
             When(request.key # None, {[key |-> request.key, digest |-> request.digest,
                                        response |-> response, at |-> now]})
  BY DEF GuestReturns
<1>2. UNCHANGED <<now, D>> /\ inv' = [inv EXCEPT ![r] = Idle] /\ now \in Nat
  BY DEF GuestReturns, deploymentVars, Remembered
<1>3. C.memo.ttl \in Nat /\ \A a \in answers : a.at \in Nat
  BY MemoTyped DEF Served, Recorded
<1>4. \A a \in answers' : a.at \in Nat
  BY <1>1, <1>2, <1>3 DEF When
<1>5. \A a \in answers : now < a.at + C.memo.ttl => a \in answers'
  BY <1>1, <1>2, <1>3
<1>6. \A k \in DOMAIN memo' :
        \/ k \in DOMAIN memo /\ memo'[k] = memo[k]
        \/ /\ k = request.key /\ k # None
           /\ memo'[k] = [digest |-> request.digest, response |-> response, expires |-> now + C.memo.ttl]
  <2> DEFINE v == [digest |-> request.digest, response |-> response, expires |-> now + C.memo.ttl]
  <2>1. \/ memo' = memo
        \/ request.key # None /\ \E T : T \subseteq DOMAIN memo /\ memo' = With(Keep(memo, T), request.key, v)
    <3>1. CompleteIdempotency(request, response)
      BY <1>1
    <3> HIDE DEF request
    <3> QED
      BY <3>1 DEF CompleteIdempotency
  <2> HIDE DEF v, request
  <2>2. ASSUME NEW T \in SUBSET DOMAIN memo, memo' = With(Keep(memo, T), request.key, v), NEW k \in DOMAIN memo'
        PROVE  (k \in DOMAIN memo /\ memo'[k] = memo[k]) \/ (k = request.key /\ memo'[k] = v)
    BY <2>2 DEF With, Keep
  <2> QED
    BY <2>1, <2>2 DEF v
<1>7. ASSUME NEW k \in DOMAIN memo', memo'[k].expires > now
      PROVE  \E a \in answers' : /\ Matches(a, k, memo'[k].digest, memo'[k].response)
                                 /\ memo'[k].expires = a.at + C.memo.ttl
  <2>1. CASE k \in DOMAIN memo /\ memo'[k] = memo[k]
    <3>1. PICK a \in answers : /\ Matches(a, k, memo'[k].digest, memo'[k].response)
                               /\ memo'[k].expires = a.at + C.memo.ttl
      BY <1>7, <2>1 DEF Recorded
    <3>2. now < a.at + C.memo.ttl
      BY <1>2, <1>3, <1>7, <3>1
    <3> QED
      BY <1>5, <3>1, <3>2
  <2>2. CASE /\ k = request.key /\ k # None
             /\ memo'[k] = [digest |-> request.digest, response |-> response, expires |-> now + C.memo.ttl]
    <3> DEFINE a == [key |-> request.key, digest |-> request.digest, response |-> response, at |-> now]
    <3>1. a \in answers'
      BY <1>1, <2>2 DEF When
    <3>2. Matches(a, k, memo'[k].digest, memo'[k].response) /\ memo'[k].expires = a.at + C.memo.ttl
      BY <2>2 DEF Matches
    <3> QED
      BY <3>1, <3>2
  <2> QED
    BY <1>6, <2>1, <2>2
<1>8. inv'[r].phase # "replay" /\ \A s \in Runtimes : s # r => inv'[s] = inv[s]
  BY <1>2 DEF Served, Idle
<1>9. \A k, d, x : Stands(k, d, x) => Stands(k, d, x)'
  BY <1>2, <1>5 DEF Stands, C
<1> QED
  BY <1>2, <1>4, <1>7, <1>8, <1>9 DEF Recorded, C

\* Every other step of a runtime starts no replay and changes no response.
LEMMA OtherStepRecorded ==
  ASSUME Served, Remembered, Recorded, NEW r \in Runtimes, RuntimeStep(r) \/ Environment(r),
         ~Arrive(r), ~GuestReturns(r)
  PROVE  Recorded'
<1>1. StepSound(r)
  BY EndsSound, CallsSound, AttemptsSound DEF RuntimeStep, Environment
<1>2. UNCHANGED <<memo, answers, now>>
  BY DEF RuntimeStep, Environment, AnswerDirectly, GuestFails, Attempt, Charge, Dispatch, ResolveStops,
         TransferStops, BackoffEnds, AcquireSecret, SendHttp, InvokeAi, Search, HostCall, Resolved,
         WorkerExits, Answer, Cancel, memoVars
<1>3. D' = D
  BY <1>1 DEF StepSound, deploymentVars
<1>4. PICK j : inv' = [inv EXCEPT ![r] = j] /\ (j = inv[r] \/ j.phase # "replay")
  BY <1>1, NoReplay DEF StepSound
<1>5. \A s \in Runtimes : inv'[s] = inv[s] \/ inv'[s].phase # "replay"
  BY <1>4 DEF Served
<1> QED
  BY <1>2, <1>3, <1>5 DEF Recorded, Stands, C

\* Every step keeps the replays recorded.
LEMMA RecordedKept == ASSUME Served, Remembered, Recorded, [Next]_vars PROVE Recorded'
<1>1. ASSUME NEW r \in Runtimes, RuntimeStep(r) \/ Environment(r) PROVE Recorded'
  BY <1>1, ArrivalRecorded, CompletionRecorded, OtherStepRecorded
<1>2. CASE Tick
  <2>1. UNCHANGED <<memo, answers, D, inv>> /\ now' = now + 1
    BY <1>2 DEF Tick, memoVars, deploymentVars
  <2>2. \A k \in DOMAIN memo : memo[k].expires > now + 1 => memo[k].expires > now
    BY DEF Remembered, MemoSound
  <2>3. \A s \in Runtimes : inv[s].phase = "replay" =>
          inv[s].at \in Nat /\ inv[s].at =< now + 1 /\ inv[s].at # now + 1
    BY DEF Recorded, Remembered
  <2> QED
    BY <2>1, <2>2, <2>3 DEF Recorded, C
<1>3. CASE Build \/ Load \/ Admit \/ Revoke \/ UNCHANGED vars
  <2>1. UNCHANGED <<memo, answers, D, inv, now>>
    BY <1>3 DEF Build, Load, Admit, Revoke, vars, memoVars, deploymentVars
  <2> QED
    BY <2>1 DEF Recorded, Stands, C
<1> QED
  BY <1>1, <1>2, <1>3 DEF Next

\* A replayed response is one a guest produced for the same key and request no
\* longer ago than the time to live: eviction, expiry and completions of other
\* runtimes between the arrival and the first response change nothing of it.
THEOREM ReplaysAreRecorded == Spec => []ReplayIsRecorded
<1>1. Init => Remembered /\ Recorded
  <2> SUFFICES ASSUME Init PROVE Remembered /\ Recorded
    OBVIOUS
  <2>1. Remembered
    BY InitRemembered
  <2> QED
    BY <2>1 DEF Init, Recorded, Idle
<1>2. Recorded => ReplayIsRecorded
  BY DEF Recorded, Stands, Matches, ReplayIsRecorded
<1>3. Served /\ Remembered /\ [Next]_vars => Remembered'
  BY RememberedKept DEF Served
<1>4. Served /\ Remembered /\ Recorded /\ [Next]_vars => Recorded'
  BY RecordedKept
<1> QED
  BY <1>1, <1>2, <1>3, <1>4, InvocationsSound, PTL DEF Spec

\* The responses kept in memory stay within their bounds and answer only the
\* requests they were produced for (idempotency_decision, complete_idempotency).
THEOREM ResponsesStayReliable == Spec => []ResponsesReliable
<1>1. MemoWithinBounds /\ ReplayIsRecorded => ResponsesReliable
  BY DEF ResponsesReliable
<1> QED
  BY <1>1, ResponsesStayBounded, ReplaysAreRecorded, PTL
=============================================================================
