--------------------------- MODULE HostAdmission ---------------------------
(***************************************************************************)
(* A host: what krit-cli loads from a host configuration, and what         *)
(* krit-runtime checks again before it runs an artifact on it.             *)
(*                                                                         *)
(* A configuration c is a record of functions, one per section; the field  *)
(* .ok of an entry says that the bounds of its own limits hold.  The       *)
(* filesystem fs holds the files that exist, their inodes, the paths whose *)
(* directories and owners are acceptable, the paths at which no file can   *)
(* be created (a full disk, a directory its owner cannot write), those     *)
(* whose file does not open as the database it should be (damaged, newer,  *)
(* or an I/O error, which meets a new file too) and the secret files that  *)
(* can be read.                                                            *)
(***************************************************************************)
EXTENDS Package

CONSTANTS MaxConfigured,      \* the bound on queues, stores, databases, connectors...
          MaxTransactions,    \* MAX_TRANSACTIONS_PER_INVOCATION
          MaxRetryAttempts,   \* MAX_RETRY_ATTEMPTS
          MaxPolicyResources, \* MAX_POLICY_RESOURCES
          PlainOrigins,       \* the origins whose scheme is http
          Precedes(_, _)      \* the order of names, in which a BTreeMap is walked

ASSUME HostBoundsAssumption ==
  {MaxConfigured, MaxTransactions, MaxRetryAttempts, MaxPolicyResources} \subseteq Nat

Bounded(f) == Cardinality(DOMAIN f) =< MaxConfigured

(* The sections each schema of the configuration file has; a strict parse  *)
(* refuses any other.                                                      *)
StrictSections(c) ==
  /\ c.schema \in 1 .. 6
  /\ c.schema < 2 => ~c.policy
  /\ c.schema < 3 => c.state = <<>> /\ c.durable = None
  /\ c.schema < 4 => c.queues = <<>> /\ c.schedules = <<>> /\ c.buckets = <<>>
  /\ c.schema < 5 => c.databases = <<>>
  /\ c.schema < 6 => c.caches = <<>> /\ c.search = <<>>

(* The sections whose files must be readable by their owner alone.         *)
OwnerOnlySections(c) ==
  UNION {When(c.secrets # {}, {"secrets"}),
         When(c.state # <<>> \/ c.durable # None, {"state"}),
         When(c.queues # <<>> \/ c.schedules # <<>> \/ c.buckets # <<>>, {"jobs"}),
         When(c.databases # <<>>, {"databases"})}
RequireEnforcedOwnerOnlyFiles(c, fs) == fs.ownerOnly \/ OwnerOnlySections(c) = {}

-----------------------------------------------------------------------------
(* Grants and bounds of each section, without any side effect.             *)

RequireManifestAi(m, name) == name \in m.ai
RequireManifestState(m, name) == name \in m.state
RequireManifestHttp(m, origin) == origin \in m.http
RequireManifestSecret(m, name) == GrantsPermission(m, "secret.read", name)
RequireManifestBearer(m, secret, origin) ==
  RequireManifestSecret(m, secret) /\ ManifestPermitsBearer(m, secret, origin)

LoadInputs(c, m, fs) ==
  /\ c.config \subseteq m.config
  /\ \A s \in c.secrets : RequireManifestSecret(m, s) /\ s \in fs.secretFiles

(* CacheConfig::validate, which CacheHandle::open applies.                 *)
CacheOpens(c) ==
  /\ Bounded(c.caches)
  /\ c.caches # <<>> => c.cacheTotals > 0
  /\ \A n \in DOMAIN c.caches : c.caches[n].ok /\ c.caches[n].size =< c.cacheTotals

ValidateCache(c, m) ==
  /\ c.caches = <<>> => c.cacheTotals = 0
  /\ \A n \in DOMAIN c.caches :
       GrantsPermission(m, IF c.caches[n].write THEN "cache.write" ELSE "cache.read", n)
  /\ CacheOpens(c)

(* SearchConnectorConfig::validate_with_plaintext_allowance.               *)
ConnectorValid(s, plaintext) ==
  s.ok /\ (s.origin # None => plaintext \/ s.origin \notin PlainOrigins)
SearchCatalogOpens(c) == Bounded(c.search) /\ \A n \in DOMAIN c.search : ConnectorValid(c.search[n], TRUE)

(* Faulty variant: a connector's secret is not checked against its origin. *)
ValidateSearchUnbound(c, m) ==
  /\ Bounded(c.search)
  /\ \A n \in DOMAIN c.search :
       /\ GrantsPermission(m, c.search[n].kind, n)
       /\ c.search[n].origin # None => RequireManifestHttp(m, c.search[n].origin)
       /\ ConnectorValid(c.search[n], FALSE)

ValidateSearch(c, m) ==
  /\ Bounded(c.search)
  /\ \A n \in DOMAIN c.search :
       LET s == c.search[n]
       IN /\ GrantsPermission(m, s.kind, n)
          /\ s.origin # None => /\ RequireManifestHttp(m, s.origin)
                                /\ s.origin \notin PlainOrigins
                                /\ s.secret # None => RequireManifestBearer(m, s.secret, s.origin)
          /\ ConnectorValid(s, FALSE)

ValidateDatabases(c, m) ==
  /\ Bounded(c.databases)
  /\ \A n \in DOMAIN c.databases :
       /\ GrantsPermission(m, IF c.databases[n].write THEN "database.write" ELSE "database.read", n)
       /\ c.databases[n].ok

ValidateJobs(c, m) ==
  /\ Bounded(c.queues) /\ Bounded(c.schedules) /\ Bounded(c.buckets)
  /\ \A q \in DOMAIN c.queues :
       /\ GrantsPermission(m, "queue.publish", q) \/ GrantsPermission(m, "queue.consume", q)
       /\ c.queues[q].store \in DOMAIN c.state /\ c.queues[q].ok
  /\ \A s \in DOMAIN c.schedules :
       /\ GrantsPermission(m, "schedule.trigger", s)
       /\ c.schedules[s].store \in DOMAIN c.state /\ c.schedules[s].ok
  /\ \A b \in DOMAIN c.buckets :
       /\ GrantsPermission(m, "object.read", b) \/ GrantsPermission(m, "object.write", b)
       /\ c.buckets[b].store \in DOMAIN c.state /\ c.buckets[b].ok

(* The stores that back a queue, schedule or bucket are the host's own.    *)
JobStoreNames(c) ==
  {c.queues[q].store : q \in DOMAIN c.queues} \cup {c.schedules[s].store : s \in DOMAIN c.schedules}
    \cup {c.buckets[b].store : b \in DOMAIN c.buckets}

ResolvesPath(fs, path) == path \in fs.safe

ResolveDurableState(c, m, fs) ==
  /\ Bounded(c.state)
  /\ \A n \in DOMAIN c.state : /\ n \in JobStoreNames(c) \/ RequireManifestState(m, n)
                               /\ c.state[n].ok
                               /\ ResolvesPath(fs, c.state[n].path)
  /\ \A n, o \in DOMAIN c.state : n # o => c.state[n].path # c.state[o].path
  /\ c.durable # None => RequireManifestState(m, c.durable) /\ c.durable \in DOMAIN c.state

(* A lease outlives one execution and one wait for the database.           *)
ValidateLease(lease, busy, limits) == lease >= limits.deadline + busy

ValidateJobDefinitions(c) ==
  /\ Bounded(c.queues) /\ Bounded(c.schedules) /\ Bounded(c.buckets)
  /\ \A q \in DOMAIN c.queues : c.queues[q].store \in DOMAIN c.state /\ c.queues[q].ok
  /\ \A s \in DOMAIN c.schedules : c.schedules[s].store \in DOMAIN c.state /\ c.schedules[s].ok
  /\ \A b \in DOMAIN c.buckets : c.buckets[b].store \in DOMAIN c.state /\ c.buckets[b].ok

ValidateConfiguration(c) ==
  /\ Bounded(c.state) /\ \A n \in DOMAIN c.state : c.state[n].ok
  /\ c.durable # None => c.durable \in DOMAIN c.state
  /\ ValidateJobDefinitions(c)

ValidateForRuntime(c, limits) ==
  /\ \A n \in DOMAIN c.state : ValidateLease(c.state[n].lease, c.state[n].busy, limits)
  /\ \A q \in DOMAIN c.queues :
       ValidateLease(c.queues[q].lease, c.state[c.queues[q].store].busy, limits)
  /\ \A s \in DOMAIN c.schedules :
       ValidateLease(c.schedules[s].lease, c.state[c.schedules[s].store].busy, limits)

(* Paths are spelled in lower case: a folded spelling adds no identity.    *)
FileIdentities(fs, path) ==
  {<<"path", path>>} \cup {<<"inode", f.inode>> : f \in {g \in fs.files : g.path = path}}

RejectAliasedPaths(c, fs) ==
  LET stores == [n \in DOMAIN c.state |-> FileIdentities(fs, c.state[n].path)]
  IN /\ \A n, o \in DOMAIN stores : n # o => stores[n] \cap stores[o] = {}
     /\ \A d \in DOMAIN c.databases, n \in DOMAIN stores :
          FileIdentities(fs, c.databases[d].path) \cap stores[n] = {}

RetryValid(r) == r.attempts \in 1 .. MaxRetryAttempts /\ r.base =< r.max
RateValid(r) == r.capacity > 0 /\ r.window > 0

ValidatePolicy(c) ==
  /\ Cardinality(DOMAIN c.ai) =< MaxPolicyResources
  /\ \A o \in DOMAIN c.httpRetries : RetryValid(c.httpRetries[o])
  /\ \A a \in DOMAIN c.aiRetries : RetryValid(c.aiRetries[a]) /\ a \in DOMAIN c.ai
  /\ RetryValid(c.defaultRetry)
  /\ \A o \in DOMAIN c.httpRates : RateValid(c.httpRates[o])
  /\ \A a \in DOMAIN c.aiRates : RateValid(c.aiRates[a]) /\ a \in DOMAIN c.ai
  /\ RateValid(c.defaultRate)
  /\ c.memo.ok
  /\ c.maxTracked \in 1 .. MaxPolicyResources
  /\ \A a \in DOMAIN c.ai : c.ai[a].ok

(* The pure part of load_configured_services.                              *)
PolicyLoads(c, m) ==
  /\ \A a \in DOMAIN c.ai :
       /\ RequireManifestAi(m, a) /\ RequireManifestHttp(m, c.ai[a].origin)
       /\ c.ai[a].secret # None => RequireManifestBearer(m, c.ai[a].secret, c.ai[a].origin)
  /\ \A o \in DOMAIN c.httpRetries \cup DOMAIN c.httpRates : RequireManifestHttp(m, o)
  /\ \A a \in DOMAIN c.aiRetries \cup DOMAIN c.aiRates : RequireManifestAi(m, a)
  /\ \A p \in c.approvals : IF p[1] = "ai.invoke" THEN RequireManifestAi(m, p[2])
                            ELSE RequireManifestHttp(m, p[2])
  /\ ValidatePolicy(c)

(* Everything load_for_platform decides before its first side effect.      *)
ConfigurationValid(c, m, fs, limits) ==
  /\ StrictSections(c)
  /\ RequireEnforcedOwnerOnlyFiles(c, fs)
  /\ ValidateCache(c, m) /\ ValidateSearch(c, m) /\ ValidateDatabases(c, m) /\ ValidateJobs(c, m)
  /\ ResolveDurableState(c, m, fs)
  /\ ValidateConfiguration(c) /\ ValidateForRuntime(c, limits)
  /\ c.schema >= 5 => RejectAliasedPaths(c, fs)
  /\ LoadInputs(c, m, fs)
  /\ PolicyLoads(c, m)

-----------------------------------------------------------------------------
(* The second phase: databases open and never create a file, then stores   *)
(* are created and opened, then the cache and the connectors.              *)

Exists(fs, path) == \E f \in fs.files : f.path = path
Opens(fs, path) == path \notin fs.unopenable

DatabaseCatalogOpens(c, fs) ==
  /\ Bounded(c.databases)
  /\ c.maxTransactions \in 1 .. MaxTransactions
  /\ \A d \in DOMAIN c.databases : Opens(fs, c.databases[d].path)

OpenDatabases(c, fs) ==
  c.databases = <<>> \/
    /\ \A d \in DOMAIN c.databases :
         ResolvesPath(fs, c.databases[d].path) /\ Exists(fs, c.databases[d].path)
    /\ \A d, e \in DOMAIN c.databases : d # e => c.databases[d].path # c.databases[e].path
    /\ DatabaseCatalogOpens(c, fs)

StoreFiles(c) == {c.state[n].path : n \in DOMAIN c.state}

CannotCreate(fs, path) == ~Exists(fs, path) /\ path \in fs.uncreatable

(* open_durable_state: the missing files are created in the order of the   *)
(* stores' names up to the first that cannot be; then every store opens or *)
(* the load fails.                                                         *)
OpenDurableState(c, fs) ==
  LET blocked == {n \in DOMAIN c.state : CannotCreate(fs, c.state[n].path)}
      reached == {n \in DOMAIN c.state : \A k \in blocked : Precedes(n, k)}
  IN [created |-> IF ValidateConfiguration(c)
                  THEN {c.state[n].path : n \in {k \in reached : ~Exists(fs, c.state[k].path)}} ELSE {},
      ok |-> ValidateConfiguration(c) /\ blocked = {} /\ \A p \in StoreFiles(c) : Opens(fs, p)]

(* Faulty variant: the stores are created before the databases are opened. *)
LoadHostStoresFirst(c, m, fs, limits) ==
  LET durable == OpenDurableState(c, fs)
  IN IF c.schema = 0 THEN [ok |-> TRUE, created |-> {}]
     ELSE IF ~ConfigurationValid(c, m, fs, limits) THEN [ok |-> FALSE, created |-> {}]
     ELSE [ok |-> durable.ok /\ OpenDatabases(c, fs), created |-> durable.created]

(* load: the exit of the configuration's load and the files it created.    *)
LoadHost(c, m, fs, limits) ==
  LET durable == OpenDurableState(c, fs)
      opened == OpenDatabases(c, fs)
  IN IF c.schema = 0 THEN [ok |-> TRUE, created |-> {}]
     ELSE IF ~ConfigurationValid(c, m, fs, limits) \/ ~opened THEN [ok |-> FALSE, created |-> {}]
     ELSE [ok |-> durable.ok /\ CacheOpens(c) /\ SearchCatalogOpens(c) /\ ValidatePolicy(c),
           created |-> durable.created]

-----------------------------------------------------------------------------
(* validate_agent_host, before every run of an artifact on a host: the     *)
(* grants g come from the manifest, the metadata d from the artifact.      *)

ValidateForLimits(c, limits) == \A a \in DOMAIN c.ai : c.ai[a].timeout =< limits.aiTimeout

CatalogValidForRuntime(c, limits) ==
  \A n \in DOMAIN c.databases : /\ c.databases[n].longest =< limits.deadline
                                /\ c.databases[n].busy < c.databases[n].longest

ConfiguredGranted(g, c) ==
  /\ \A k \in c.config : Grants(g, "config.read", k)
  /\ \A s \in c.secrets : Grants(g, "secret.read", s)
  /\ \A a \in DOMAIN c.ai :
       /\ Grants(g, "ai.invoke", a) /\ Grants(g, "http.request", c.ai[a].origin)
       /\ c.ai[a].secret # None => /\ Grants(g, "secret.read", c.ai[a].secret)
                                   /\ PermitsBearer(g, c.ai[a].secret, c.ai[a].origin)
  /\ \A o \in DOMAIN c.httpRetries \cup DOMAIN c.httpRates : Grants(g, "http.request", o)
  /\ \A a \in DOMAIN c.aiRetries \cup DOMAIN c.aiRates : Grants(g, "ai.invoke", a)

DatabasesAdmitted(g, d, c) ==
  /\ \A n \in DOMAIN c.databases :
       IF c.databases[n].write THEN Grants(g, "database.write", n) ELSE Grants(g, "database.read", n)
  /\ \A r \in d.facts.requirements :
       /\ r[1] = "database.read" => r[2] \in DOMAIN c.databases
       /\ r[1] = "database.write" => r[2] \in DOMAIN c.databases /\ c.databases[r[2]].write

CacheAdmitted(g, d, c) ==
  /\ \A n \in DOMAIN c.caches :
       IF c.caches[n].write THEN Grants(g, "cache.write", n) ELSE Grants(g, "cache.read", n)
  /\ \A r \in d.facts.requirements :
       r[1] = "cache.write" /\ r[2] \in DOMAIN c.caches => c.caches[r[2]].write

SearchAdmitted(g, d, c) ==
  /\ \A n \in DOMAIN c.search :
       LET s == c.search[n]
       IN /\ Grants(g, s.kind, n) /\ ConnectorValid(s, FALSE)
          /\ s.origin # None =>
               /\ Grants(g, "http.request", s.origin)
               /\ s.secret # None => /\ Grants(g, "secret.read", s.secret)
                                     /\ PermitsBearer(g, s.secret, s.origin)
  /\ \A r \in d.facts.requirements :
       r[1] \in {"search.query", "search.vector"} /\ r[2] \in DOMAIN c.search => c.search[r[2]].kind = r[1]

DurableAdmitted(g, d, c) ==
  /\ \A n \in DOMAIN c.state : Grants(g, "state.transaction", n) \/ n \in JobStoreNames(c)
  /\ \A q \in DOMAIN c.queues : Grants(g, "queue.publish", q) \/ Grants(g, "queue.consume", q)
  /\ \A s \in DOMAIN c.schedules : Grants(g, "schedule.trigger", s)
  /\ \A b \in DOMAIN c.buckets : Grants(g, "object.read", b) \/ Grants(g, "object.write", b)
  /\ \A r \in d.facts.requirements :
       /\ r[1] = "state.transaction" => r[2] \in DOMAIN c.state
       /\ r[1] \in {"queue.publish", "queue.consume"} => r[2] \in DOMAIN c.queues
       /\ r[1] = "schedule.trigger" => r[2] \in DOMAIN c.schedules
       /\ r[1] \in {"object.read", "object.write"} => r[2] \in DOMAIN c.buckets

(* Faulty variant: connectors are not counted.                             *)
RateResourcesOfGuest(d, c) == {r \in d.facts.requirements : r[1] \in {"ai.invoke", "http.request"}}

(* The rate buckets an artifact can touch on this host: a connector counts *)
(* under the origin it calls.                                              *)
RateResources(d, c) ==
  UNION {CASE r[1] \in {"ai.invoke", "http.request"} -> {r}
           [] /\ r[1] \in {"search.query", "search.vector"}
              /\ r[2] \in DOMAIN c.search -> When(c.search[r[2]].origin # None,
                                                  {<<"http.request", c.search[r[2]].origin>>})
           [] OTHER -> {} : r \in d.facts.requirements}

ValidateAgentHost(g, d, c, limits) ==
  /\ ValidateForLimits(c, limits) /\ ValidateForRuntime(c, limits)
  /\ ConfiguredGranted(g, c)
  /\ \A r \in d.facts.requirements : r[1] = "ai.invoke" => r[2] \in DOMAIN c.ai
  /\ CatalogValidForRuntime(c, limits) /\ DatabasesAdmitted(g, d, c)
  /\ CacheAdmitted(g, d, c) /\ SearchAdmitted(g, d, c) /\ DurableAdmitted(g, d, c)
  /\ Cardinality(RateResources(d, c)) =< c.maxTracked

(* prepare: the artifact is whole, authorized, and the host fits it.       *)
Admits(g, a, c, limits) ==
  ValidateArtifact(a) /\ Authorize(g, a.metadata) /\ ValidateAgentHost(g, a.metadata, c, limits)
=============================================================================
