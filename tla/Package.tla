------------------------------ MODULE Package ------------------------------
(***************************************************************************)
(* What a package may do, in the four places the code decides it: the      *)
(* manifest (krit-package), the build of a component from a checked        *)
(* program (krit-cli, krit-wasm), the validation of an artifact            *)
(* (krit-wasm) and the grant set a runtime derives from the manifest       *)
(* (krit-runtime).                                                         *)
(*                                                                         *)
(* A manifest is a record with one set of names per capability list; the   *)
(* order of the lists and the spelling of names are its format and are     *)
(* left out.  m.bound maps the secrets of the [secrets.<name>] tables to   *)
(* their origins.  A permission is a pair <<capability, resource>>; a      *)
(* capability that takes no resource has None.                             *)
(***************************************************************************)
EXTENDS Naturals, FiniteSets

CONSTANT MaxCapabilities      \* the bound on every capability list (256)

ASSUME MaxCapabilitiesAssumption == MaxCapabilities \in Nat

None == "none"
When(b, S) == IF b THEN S ELSE {}
Each(capability, names) == {<<capability, n>> : n \in names}

-----------------------------------------------------------------------------
(* The manifest, krit-package/src/lib.rs.                                  *)

SecretNames(m) == m.secrets \cup DOMAIN m.bound

(* A binding narrows where a granted origin's secret goes; it adds none.   *)
ValidateSecretBindings(m) ==
  /\ Cardinality(SecretNames(m)) =< MaxCapabilities
  /\ \A s \in DOMAIN m.bound : m.bound[s] # {} /\ m.bound[s] \subseteq m.http

ValidateCapabilityCount(names) == Cardinality(names) =< MaxCapabilities

CapabilityLists(m) ==
  {m.config, m.http, m.secrets, m.ai, m.state, m.queues, m.consumes, m.schedules, m.buckets,
   m.roBuckets, m.databases, m.roDatabases, m.caches, m.roCaches, m.indexes, m.vectors}

(* m.header: schema, names, version, edition, target, license and the      *)
(* entry's spelling are acceptable.                                        *)
Validate(m) ==
  /\ m.header
  /\ ~m.dependencies
  /\ \A names \in CapabilityLists(m) : ValidateCapabilityCount(names)
  /\ ValidateSecretBindings(m)
  /\ m.roBuckets \cap m.buckets = {}
  /\ m.roDatabases \cap m.databases = {}
  /\ m.roCaches \cap m.caches = {}

(* The entry is a file inside the package when it is read.                 *)
ResolveEntry(m, fs) == m.entry \in fs.entries

(* Manifest::load: the manifest parses, validates and its entry resolves.  *)
LoadManifest(m, fs) == Validate(m) /\ ResolveEntry(m, fs)

(* Faulty variant: a secret listed by name as well loses its table's binding.      *)
SecretBindingsListed(m) ==
  [s \in SecretNames(m) |-> IF s \in m.secrets THEN [kind |-> "unbound", origins |-> {}]
                                               ELSE [kind |-> "bound", origins |-> m.bound[s]]]

(* Every granted secret with the origins of its table, or unbound.         *)
SecretBindings(m) ==
  [s \in SecretNames(m) |-> IF s \in DOMAIN m.bound THEN [kind |-> "bound", origins |-> m.bound[s]]
                                                    ELSE [kind |-> "unbound", origins |-> {}]]

PermissionPlan(m) ==
  UNION {When(m.stdout, {<<"io.stdout", None>>}), When(m.logs, {<<"observe.log", None>>}),
         Each("config.read", m.config), Each("http.request", m.http),
         Each("secret.read", SecretNames(m)), Each("ai.invoke", m.ai),
         Each("state.transaction", m.state), Each("queue.publish", m.queues),
         Each("queue.consume", m.consumes), Each("schedule.trigger", m.schedules),
         Each("object.write", m.buckets), Each("database.write", m.databases),
         Each("cache.write", m.caches), Each("search.query", m.indexes),
         Each("search.vector", m.vectors), Each("object.read", m.buckets \cup m.roBuckets),
         Each("database.read", m.databases \cup m.roDatabases),
         Each("cache.read", m.caches \cup m.roCaches)}

GrantsPermission(m, capability, resource) ==
  CASE capability = "io.stdout" -> resource = None /\ m.stdout
    [] capability = "observe.log" -> resource = None /\ m.logs
    [] capability = "config.read" -> resource \in m.config
    [] capability = "http.request" -> resource \in m.http
    [] capability = "secret.read" -> resource \in m.secrets \/ resource \in DOMAIN m.bound
    [] capability = "ai.invoke" -> resource \in m.ai
    [] capability = "state.transaction" -> resource \in m.state
    [] capability = "queue.publish" -> resource \in m.queues
    [] capability = "queue.consume" -> resource \in m.consumes
    [] capability = "schedule.trigger" -> resource \in m.schedules
    [] capability = "object.write" -> resource \in m.buckets
    [] capability = "object.read" -> resource \in m.buckets \cup m.roBuckets
    [] capability = "database.write" -> resource \in m.databases
    [] capability = "database.read" -> resource \in m.databases \cup m.roDatabases
    [] capability = "cache.write" -> resource \in m.caches
    [] capability = "cache.read" -> resource \in m.caches \cup m.roCaches
    [] capability = "search.query" -> resource \in m.indexes
    [] capability = "search.vector" -> resource \in m.vectors
    [] OTHER -> FALSE

ManifestPermitsBearer(m, secret, origin) ==
  /\ GrantsPermission(m, "secret.read", secret)
  /\ GrantsPermission(m, "http.request", origin)
  /\ secret \in DOMAIN m.bound => origin \in m.bound[secret]

-----------------------------------------------------------------------------
(* The program.  It performs the calls of p.calls; the calls of p.dead are *)
(* written in functions the entrypoint never reaches.  A call is a         *)
(* permission with the bearer secret it sends, and whether the state store *)
(* records it (replay_http, replay_ai).                                    *)

Resourceless == {"io.stdout", "observe.log"}

CallRequirements(c) ==
  UNION {When(c.capability \notin Resourceless, {<<c.capability, c.resource>>}),
         When(c.store # None, {<<"state.transaction", c.store>>}),
         When(c.bearer # None, {<<"secret.read", c.bearer>>})}

(* A recorded call keeps the requirement of what it calls, not its effect. *)
CallEffects(c) ==
  (IF c.store # None THEN {"state.transaction"} ELSE {c.capability})
    \cup When(c.bearer # None, {"secret.read"})

(* A queue or schedule declaration requires the resource it names.         *)
DeclaredRequirement(p) ==
  CASE p.kind = "job" -> {<<"queue.consume", p.name>>}
    [] p.kind = "schedule" -> {<<"schedule.trigger", p.name>>}
    [] OTHER -> {}

(* What check_module hands to emission, for a program it supports.         *)
CheckedModule(p) ==
  [kind |-> p.kind,
   requirements |-> (UNION {CallRequirements(c) : c \in p.calls}) \cup DeclaredRequirement(p),
   effects |-> (UNION {CallEffects(c) : c \in p.calls}) \cup {r[1] : r \in DeclaredRequirement(p)},
   approvals |-> {<<"ai.invoke", c.resource>> : c \in {d \in p.calls : d.capability = "ai.invoke"}}
                   \cup {<<"http.bearer", c.resource>> : c \in {d \in p.calls : d.bearer # None}}]

-----------------------------------------------------------------------------
(* The build, krit-cli/src/main.rs and krit-wasm.                          *)

(* first_missing_requirement looks at every expression, dead code too, and *)
(* at expressions only: a declaration's requirement is not among them.     *)
MissingRequirements(m, p) ==
  {r \in UNION {CallRequirements(c) : c \in p.calls \cup p.dead} : ~GrantsPermission(m, r[1], r[2])}

(* The effects build_command grants emission, list by list.                *)
GrantedEffects(m) ==
  UNION {When(m.stdout, {"io.stdout"}), When(m.config # {}, {"config.read"}),
         When(m.http # {}, {"http.request"}), When(SecretNames(m) # {}, {"secret.read"}),
         When(m.ai # {}, {"ai.invoke"}), When(m.logs, {"observe.log"}),
         When(m.state # {}, {"state.transaction"}), When(m.queues # {}, {"queue.publish"}),
         When(m.consumes # {}, {"queue.consume"}), When(m.schedules # {}, {"schedule.trigger"}),
         When(m.buckets # {}, {"object.write"}),
         When(m.buckets # {} \/ m.roBuckets # {}, {"object.read"}),
         When(m.caches # {}, {"cache.write"}),
         When(m.caches # {} \/ m.roCaches # {}, {"cache.read"}),
         When(m.indexes # {}, {"search.query"}), When(m.vectors # {}, {"search.vector"}),
         When(m.databases # {}, {"database.write"}),
         When(m.databases # {} \/ m.roDatabases # {}, {"database.read"})}

ExportEffect(kind) ==
  CASE kind = "job" -> {"queue.consume"}
    [] kind = "schedule" -> {"schedule.trigger"}
    [] OTHER -> {}

(* The interface each effect imports; reads and writes of a database share *)
(* one, and HTTP has a second one for programs that hold no secret.        *)
ImportSurface ==
  [e \in {"io.stdout", "config.read", "secret.read", "http.request", "ai.invoke", "observe.log",
          "state.transaction", "queue.publish", "object.read", "object.write", "database.read",
          "database.write", "cache.read", "cache.write", "search.query", "search.vector"} |->
     CASE e = "http.request" -> "http-anonymous"
       [] e \in {"database.read", "database.write"} -> "database"
       [] OTHER -> e]

(* Faulty variant: a program that holds secrets imports the anonymous HTTP.*)
SurfacesAnonymous(effects) == {ImportSurface[e] : e \in effects}

Surfaces(effects) ==
  LET plain == {ImportSurface[e] : e \in effects}
  IN IF {"http.request", "secret.read"} \subseteq effects
     THEN (plain \ {"http-anonymous"}) \cup {"http"} ELSE plain

(* The world of a kind and its effects: a module knows two, an exported    *)
(* entrypoint one for each set of surfaces, and its own effect is implied. *)
SelectWorld(kind, effects) ==
  LET imported == effects \ ExportEffect(kind)
  IN [ok |-> IF kind = "module" THEN effects \in {{}, {"io.stdout"}}
             ELSE ExportEffect(kind) \subseteq effects /\ imported \subseteq DOMAIN ImportSurface,
      kind |-> kind,
      imports |-> IF imported \subseteq DOMAIN ImportSurface THEN Surfaces(imported) ELSE {}]

PolicyTwoEffects ==
  {"cache.read", "cache.write", "database.read", "database.write", "object.read", "object.write",
   "queue.consume", "queue.publish", "schedule.trigger", "search.query", "search.vector",
   "state.transaction"}
ArtifactPolicyVersion(effects) == IF effects \cap PolicyTwoEffects # {} THEN 2 ELSE 1

-----------------------------------------------------------------------------
(* Artifacts, krit-wasm/src/validation.rs.  A component carries its world  *)
(* and an embedded section of facts; the metadata file repeats them.       *)

ValidRequirements(requirements, effects) ==
  /\ \A e \in effects : e \in Resourceless \/ \E r \in requirements : r[1] = e
  /\ \A r \in requirements :
       /\ r[1] \notin Resourceless
       /\ \/ r[1] \in effects
          \/ "state.transaction" \in effects /\ r[1] \in {"ai.invoke", "http.request"}

ValidApprovals(approvals, requirements, effects) ==
  /\ \A r \in requirements : r[1] = "ai.invoke" => <<"ai.invoke", r[2]>> \in approvals
  /\ \A a \in approvals :
       \/ a[1] = "ai.invoke" /\ <<"ai.invoke", a[2]>> \in requirements
       \/ /\ a[1] = "http.bearer" /\ "secret.read" \in effects
          /\ <<"http.request", a[2]>> \in requirements

(* The effects the imports of a component prove, with the database split   *)
(* its embedded section declares.                                          *)
InspectedEffects(component) ==
  LET declared == component.facts.effects \cap {"database.read", "database.write"}
      plain == {e \in DOMAIN ImportSurface \ {"database.read", "database.write"} :
                  ImportSurface[e] \in component.imports
                    \/ (e = "http.request" /\ "http" \in component.imports)}
  IN plain \cup ExportEffect(component.kind) \cup declared

ValidateComponent(component) ==
  LET facts == component.facts
      effects == InspectedEffects(component)
      world == SelectWorld(component.kind, effects)
  IN /\ facts.supported
     /\ ("database" \in component.imports)
            <=> (facts.effects \cap {"database.read", "database.write"} # {})
     /\ world.ok /\ world.imports = component.imports
     /\ facts.world = world
     /\ facts.effects = effects
     /\ ValidRequirements(facts.requirements, effects)
     /\ ValidApprovals(facts.approvals, facts.requirements, effects)
     /\ facts.policy = ArtifactPolicyVersion(effects)

(* The metadata agrees with the component it describes; .digest stands for *)
(* the bytes' length and hash.                                             *)
ValidateArtifact(a) ==
  LET d == a.metadata
  IN /\ d.facts.supported
     /\ d.facts.policy = ArtifactPolicyVersion(d.facts.effects)
     /\ ValidRequirements(d.facts.requirements, d.facts.effects)
     /\ ValidApprovals(d.facts.approvals, d.facts.requirements, d.facts.effects)
     /\ d.digest = a.component
     /\ ValidateComponent(a.component)
     /\ d.facts = a.component.facts
     /\ d.imports = a.component.imports

(* assemble_component: the artifact of a checked module, or a build error. *)
AssembleComponent(m, checked) ==
  LET world == SelectWorld(checked.kind, checked.effects)
      facts == [supported |-> TRUE, world |-> world, effects |-> checked.effects,
                requirements |-> checked.requirements, approvals |-> checked.approvals,
                policy |-> ArtifactPolicyVersion(checked.effects)]
      component == [kind |-> checked.kind, imports |-> world.imports, facts |-> facts]
      artifact == [component |-> component,
                   metadata |-> [facts |-> facts, imports |-> component.imports,
                                 digest |-> component, identity |-> m.identity]]
  IN [status |-> IF /\ world.ok
                    /\ ValidateComponent(component)
                    /\ InspectedEffects(component) = checked.effects
                    /\ ValidateArtifact(artifact)
                 THEN 0 ELSE 1,
      artifact |-> artifact]

(* emit_component under Grants::Enforce. *)
EmitComponent(m, checked) ==
  IF checked.effects \subseteq GrantedEffects(m) THEN AssembleComponent(m, checked)
  ELSE [status |-> 4, artifact |-> <<>>]

(* krit build: its exit status and what it wrote.                          *)
BuildPackage(m, p, fs) ==
  IF ~LoadManifest(m, fs) THEN [status |-> 3, artifact |-> <<>>]
  ELSE IF MissingRequirements(m, p) # {} THEN [status |-> 4, artifact |-> <<>>]
  ELSE EmitComponent(m, CheckedModule(p))

-----------------------------------------------------------------------------
(* The runtime's grant set, krit-runtime/src/permissions.rs.               *)

(* The permissions a manifest requests, one for each name it lists.        *)
RequestedPermissions(m) ==
  UNION {When(m.stdout, {<<"io.stdout", None>>}), When(m.logs, {<<"observe.log", None>>}),
         Each("cache.write", m.caches), Each("cache.read", m.caches \cup m.roCaches),
         Each("database.write", m.databases),
         Each("database.read", m.databases \cup m.roDatabases),
         Each("queue.publish", m.queues), Each("queue.consume", m.consumes),
         Each("schedule.trigger", m.schedules), Each("object.write", m.buckets),
         Each("search.query", m.indexes), Each("search.vector", m.vectors),
         Each("object.read", m.buckets \cup m.roBuckets), Each("config.read", m.config),
         Each("state.transaction", m.state), Each("ai.invoke", m.ai),
         Each("http.request", m.http), Each("secret.read", DOMAIN SecretBindings(m))}

GrantSet(m) ==
  [identity |-> m.identity,
   bindings |-> SecretBindings(m),
   effects |->
     UNION {When(m.stdout, {"io.stdout"}), When(m.config # {}, {"config.read"}),
            When(m.http # {}, {"http.request"}),
            When(DOMAIN SecretBindings(m) # {}, {"secret.read"}),
            When(m.ai # {}, {"ai.invoke"}), When(m.logs, {"observe.log"}),
            When(m.state # {}, {"state.transaction"}), When(m.queues # {}, {"queue.publish"}),
            When(m.consumes # {}, {"queue.consume"}),
            When(m.schedules # {}, {"schedule.trigger"}),
            When(m.buckets # {}, {"object.write"}),
            When(m.buckets \cup m.roBuckets # {}, {"object.read"}),
            When(m.databases # {}, {"database.write"}),
            When(m.databases \cup m.roDatabases # {}, {"database.read"}),
            When(m.caches # {}, {"cache.write"}),
            When(m.caches \cup m.roCaches # {}, {"cache.read"}),
            When(m.indexes # {}, {"search.query"}), When(m.vectors # {}, {"search.vector"})},
   imports |->
     UNION {When(m.stdout, {"io.stdout"}), When(m.config # {}, {"config.read"}),
            When(m.http # {}, {"http", "http-anonymous"}),
            When(DOMAIN SecretBindings(m) # {}, {"secret.read"}),
            When(m.ai # {}, {"ai.invoke"}), When(m.logs, {"observe.log"}),
            When(m.state # {}, {"state.transaction"}), When(m.queues # {}, {"queue.publish"}),
            When(m.buckets # {}, {"object.write"}),
            When(m.buckets \cup m.roBuckets # {}, {"object.read"}),
            When(m.databases \cup m.roDatabases # {}, {"database"}),
            When(m.caches # {}, {"cache.write"}),
            When(m.caches \cup m.roCaches # {}, {"cache.read"}),
            When(m.indexes # {}, {"search.query"}), When(m.vectors # {}, {"search.vector"})},
   requested |-> RequestedPermissions(m)]

Grants(g, capability, resource) == <<capability, resource>> \in g.requested

PermitsBearer(g, secret, origin) ==
  /\ Grants(g, "http.request", origin)
  /\ secret \in DOMAIN g.bindings
  /\ g.bindings[secret].kind = "bound" => origin \in g.bindings[secret].origins

(* Faulty variant: only the effects are compared, not the resources.       *)
DeniedPermissionsByEffect(g, d) ==
  {f \in d.facts.requirements : f[1] \notin g.effects}

(* The permissions an artifact needs and the manifest does not give.       *)
DeniedPermissions(g, d) ==
  LET bare == {e \in d.facts.effects : ~\E r \in d.facts.requirements : r[1] = e}
      required == d.facts.requirements \cup {<<e, None>> : e \in bare}
  IN {f \in required : f[1] \notin g.effects \/ ~Grants(g, f[1], f[2])}

IdentityDenied(g, d) == g.identity # d.identity

(* The world, effects and imports of the metadata fit one another.         *)
ValidPolicyWorld(d) ==
  LET effects == d.facts.effects
      expected == UNION {CASE e = "http.request" -> {IF "secret.read" \in effects THEN "http"
                                                     ELSE "http-anonymous"}
                           [] e \in {"database.read", "database.write"} -> {"database"}
                           [] e \in {"queue.consume", "schedule.trigger"} -> {}
                           [] OTHER -> {e} : e \in effects}
      world == d.facts.world
  IN /\ expected = d.imports
     /\ CASE world.kind = "module" ->
                 effects = IF world.imports = {} THEN {} ELSE {"io.stdout"}
          [] world.kind = "webhook" /\ world.imports = {} -> effects = {}
          [] OTHER -> effects # {}

Authorize(g, d) ==
  /\ ~IdentityDenied(g, d)
  /\ DeniedPermissions(g, d) = {}
  /\ ValidPolicyWorld(d)
  /\ d.imports \subseteq g.imports
=============================================================================
