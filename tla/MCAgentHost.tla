---------------------------- MODULE MCAgentHost ----------------------------
(* Deployments for AgentHost: one manifest, program and configuration that *)
(* use every capability, each edited in one place at a time, and a few     *)
(* deployments that serve requests.                                        *)
EXTENDS AgentHost, Sequences, Functions

FullManifest ==
  [header |-> TRUE, dependencies |-> FALSE, identity |-> "pkg", entry |-> "main", stdout |-> TRUE,
   logs |-> TRUE, config |-> {"k"}, http |-> {"a", "b"}, secrets |-> {"s"}, bound |-> [t |-> {"a"}],
   ai |-> {"m"}, state |-> {"st"}, queues |-> {"q"}, consumes |-> {"q"}, schedules |-> {"c"},
   buckets |-> {"o"}, roBuckets |-> {}, databases |-> {"d"}, roDatabases |-> {}, caches |-> {"h"},
   roCaches |-> {}, indexes |-> {"i"}, vectors |-> {"v"}]

MCManifests ==
  [full |-> FullManifest,
   header |-> [FullManifest EXCEPT !.header = FALSE],
   dependency |-> [FullManifest EXCEPT !.dependencies = TRUE],
   renamed |-> [FullManifest EXCEPT !.identity = "other"],
   entry |-> [FullManifest EXCEPT !.entry = "absent"],
   crowded |-> [FullManifest EXCEPT !.config = {"k", "l", "x", "y"}],
   secretive |-> [FullManifest EXCEPT !.secrets = {"s", "t", "x", "y"}],
   bareStdout |-> [FullManifest EXCEPT !.stdout = FALSE],
   bareLogs |-> [FullManifest EXCEPT !.logs = FALSE],
   noConfig |-> [FullManifest EXCEPT !.config = {}],
   noHttp |-> [FullManifest EXCEPT !.http = {}, !.bound = <<>>],
   oneHttp |-> [FullManifest EXCEPT !.http = {"a"}],
   plainHttp |-> [FullManifest EXCEPT !.http = {"a", "b", "p"}],
   noSecrets |-> [FullManifest EXCEPT !.secrets = {}, !.bound = <<>>],
   boundOnly |-> [FullManifest EXCEPT !.secrets = {}],
   bothLists |-> [FullManifest EXCEPT !.secrets = {"s", "t"}],
   rebound |-> [FullManifest EXCEPT !.bound = [t |-> {"b"}]],
   boundBeyond |-> [FullManifest EXCEPT !.bound = [t |-> {"p"}]],
   boundNowhere |-> [FullManifest EXCEPT !.bound = [t |-> {}]],
   noAi |-> [FullManifest EXCEPT !.ai = {}],
   noState |-> [FullManifest EXCEPT !.state = {}],
   noQueues |-> [FullManifest EXCEPT !.queues = {}],
   noConsumes |-> [FullManifest EXCEPT !.consumes = {}],
   otherConsumes |-> [FullManifest EXCEPT !.consumes = {"r"}],
   noSchedules |-> [FullManifest EXCEPT !.schedules = {}],
   roBucket |-> [FullManifest EXCEPT !.buckets = {}, !.roBuckets = {"o"}],
   twiceBucket |-> [FullManifest EXCEPT !.roBuckets = {"o"}],
   noBuckets |-> [FullManifest EXCEPT !.buckets = {}],
   roDatabase |-> [FullManifest EXCEPT !.databases = {}, !.roDatabases = {"d"}],
   twiceDatabase |-> [FullManifest EXCEPT !.roDatabases = {"d"}],
   noDatabases |-> [FullManifest EXCEPT !.databases = {}],
   roCache |-> [FullManifest EXCEPT !.caches = {}, !.roCaches = {"h"}],
   twiceCache |-> [FullManifest EXCEPT !.roCaches = {"h"}],
   noCaches |-> [FullManifest EXCEPT !.caches = {}],
   noIndexes |-> [FullManifest EXCEPT !.indexes = {}],
   noVectors |-> [FullManifest EXCEPT !.vectors = {}]]

-----------------------------------------------------------------------------
Call(capability, resource) ==
  [capability |-> capability, resource |-> resource, store |-> None, bearer |-> None, safe |-> TRUE]
Bearer(resource, secret) == [Call("http.request", resource) EXCEPT !.bearer = secret]
Recorded(capability, resource) == [Call(capability, resource) EXCEPT !.store = "st"]
Unsafe(resource) == [Call("http.request", resource) EXCEPT !.safe = FALSE]

Of(kind, name, calls) == [kind |-> kind, name |-> name, calls |-> calls, dead |-> {}, traps |-> FALSE]
Webhook(calls) == Of("webhook", None, calls)

SingleCalls ==
  <<Call("io.stdout", None), Call("observe.log", None), Call("config.read", "k"), Call("config.read", "l"),
    Call("http.request", "a"), Call("http.request", "p"), Bearer("a", "s"), Bearer("a", "t"),
    Bearer("b", "t"), Call("ai.invoke", "m"), Recorded("ai.invoke", "m"),
    Recorded("http.request", "a"), [Recorded("http.request", "a") EXCEPT !.bearer = "s"],
    Call("state.transaction", "st"), Call("queue.publish", "q"),
    Call("object.read", "o"), Call("object.write", "o"), Call("database.read", "d"),
    Call("database.write", "d"), Call("cache.read", "h"), Call("cache.write", "h"),
    Call("search.query", "i"), Call("search.query", "v"), Call("search.vector", "v")>>

MCPrograms ==
  <<Of("module", None, {}), Of("module", None, {Call("io.stdout", None)}),
    Of("module", None, {Call("config.read", "k")}), Webhook({}),
    [Webhook({}) EXCEPT !.dead = {Call("queue.publish", "r")}],
    Of("job", "q", {}), Of("job", "q", {Call("cache.read", "h")}),
    Of("job", "r", {}), Of("schedule", "c", {}), Of("schedule", "c", {Call("ai.invoke", "m")}),
    Webhook({Call("ai.invoke", "m"), Call("search.query", "i"), Call("http.request", "a")}),
    Webhook(Range(SingleCalls) \ {Call("config.read", "l"), Call("http.request", "p"), Call("search.query", "v")})>>
   \o [i \in 1 .. Len(SingleCalls) |-> Webhook({SingleCalls[i]})]

-----------------------------------------------------------------------------
NoConfig ==
  [schema |-> 0, policy |-> FALSE, config |-> {}, secrets |-> {}, state |-> <<>>, durable |-> None,
   queues |-> <<>>, schedules |-> <<>>, buckets |-> <<>>, databases |-> <<>>, caches |-> <<>>,
   cacheTotals |-> 0, search |-> <<>>, ai |-> <<>>, httpRetries |-> <<>>, aiRetries |-> <<>>,
   defaultRetry |-> [attempts |-> 1, base |-> 0, max |-> 0], httpRates |-> <<>>, aiRates |-> <<>>,
   defaultRate |-> [capacity |-> 1, window |-> 2],
   memo |-> [ok |-> TRUE, entries |-> 2, bytes |-> 3, ttl |-> 2], maxTracked |-> 2,
   approvals |-> {}, maxTransactions |-> 1]

Retry == [attempts |-> 2, base |-> 1, max |-> 1]
Store(path) == [path |-> path, ok |-> TRUE, lease |-> 3, busy |-> 1]
Connector(kind, origin, secret) ==
  [kind |-> kind, origin |-> origin, secret |-> secret, ok |-> TRUE, timeout |-> 2]

FullConfig ==
  [NoConfig EXCEPT
     !.schema = 6, !.policy = TRUE, !.config = {"k"}, !.secrets = {"s", "t"},
     !.state = [st |-> Store("st.db"), jobs |-> Store("jobs.db")], !.durable = "st",
     !.queues = [q |-> [store |-> "jobs", lease |-> 3, ok |-> TRUE]],
     !.schedules = [c |-> [store |-> "jobs", lease |-> 3, ok |-> TRUE]],
     !.buckets = [o |-> [store |-> "st", ok |-> TRUE]],
     !.databases = [d |-> [path |-> "d.db", write |-> TRUE, ok |-> TRUE, longest |-> 2, busy |-> 1]],
     !.caches = [h |-> [write |-> TRUE, ok |-> TRUE, size |-> 1]], !.cacheTotals = 1,
     !.search = [i |-> Connector("search.query", "a", "t"), v |-> Connector("search.vector", None, None)],
     !.ai = [m |-> [origin |-> "b", secret |-> "s", ok |-> TRUE, timeout |-> 1]],
     !.httpRetries = [a |-> Retry], !.aiRetries = [m |-> Retry],
     !.httpRates = [b |-> [capacity |-> 1, window |-> 1]],
     !.aiRates = [m |-> [capacity |-> 1, window |-> 1]],
     !.approvals = {<<"ai.invoke", "m">>, <<"http.bearer", "a">>}]

MCConfigs ==
  <<FullConfig, NoConfig, [NoConfig EXCEPT !.schema = 1], [FullConfig EXCEPT !.schema = 7],
    [FullConfig EXCEPT !.schema = 4, !.databases = <<>>, !.caches = <<>>, !.cacheTotals = 0, !.search = <<>>],
    [FullConfig EXCEPT !.config = {"k", "l"}], [FullConfig EXCEPT !.config = {}],
    [FullConfig EXCEPT !.secrets = {"s"}], [FullConfig EXCEPT !.secrets = {"s", "unreadable"}],
    [FullConfig EXCEPT !.state.st.path = "jobs.db"], [FullConfig EXCEPT !.state.st.path = "unsafe.db"],
    [FullConfig EXCEPT !.state.st.path = "linked.db"], [FullConfig EXCEPT !.state.st.path = "broken.db"],
    [FullConfig EXCEPT !.state.st.path = "sealed.db"], [FullConfig EXCEPT !.state.st.path = "failing.db"],
    [FullConfig EXCEPT !.state.st.path = "sealed.db", !.state.jobs.path = "new.db"],
    [FullConfig EXCEPT !.state.st.path = "new.db", !.state.jobs.path = "sealed.db"],
    [FullConfig EXCEPT !.state.st.lease = 2], [FullConfig EXCEPT !.state.jobs.ok = FALSE],
    [FullConfig EXCEPT !.durable = "jobs"], [FullConfig EXCEPT !.durable = None],
    [FullConfig EXCEPT !.queues.q.lease = 2], [FullConfig EXCEPT !.queues.q.store = "absent"],
    [FullConfig EXCEPT !.queues = <<>>], [FullConfig EXCEPT !.queues = [r |-> FullConfig.queues.q]],
    [FullConfig EXCEPT !.schedules.c.lease = 1], [FullConfig EXCEPT !.schedules = <<>>],
    [FullConfig EXCEPT !.buckets = [z |-> FullConfig.buckets.o]], [FullConfig EXCEPT !.buckets = <<>>],
    [FullConfig EXCEPT !.databases.d.path = "absent.db"], [FullConfig EXCEPT !.databases.d.path = "st.db"],
    [FullConfig EXCEPT !.databases.d.path = "linked.db"], [FullConfig EXCEPT !.databases.d.path = "broken.db"],
    [FullConfig EXCEPT !.databases.d.write = FALSE], [FullConfig EXCEPT !.databases = <<>>],
    [FullConfig EXCEPT !.databases.d.longest = 3], [FullConfig EXCEPT !.databases.d.busy = 2],
    [FullConfig EXCEPT !.caches.h.write = FALSE], [FullConfig EXCEPT !.caches.h.size = 2],
    [FullConfig EXCEPT !.caches = <<>>], [FullConfig EXCEPT !.caches = <<>>, !.cacheTotals = 0],
    [FullConfig EXCEPT !.search.i.origin = "p"], [FullConfig EXCEPT !.search.i.origin = "b"],
    [FullConfig EXCEPT !.search.v.kind = "search.query"], [FullConfig EXCEPT !.search = <<>>],
    [FullConfig EXCEPT !.ai.m.origin = "p"], [FullConfig EXCEPT !.ai.m.secret = "t"],
    [FullConfig EXCEPT !.ai.m.timeout = 3], [FullConfig EXCEPT !.ai = <<>>],
    [FullConfig EXCEPT !.ai = <<>>, !.aiRates = <<>>, !.aiRetries = <<>>],
    [FullConfig EXCEPT !.httpRates = [z |-> [capacity |-> 1, window |-> 1]]],
    [FullConfig EXCEPT !.defaultRate.capacity = 0],
    [FullConfig EXCEPT !.defaultRetry.attempts = 9], [FullConfig EXCEPT !.httpRetries.a.base = 2],
    [FullConfig EXCEPT !.maxTracked = 0], [FullConfig EXCEPT !.maxTracked = 1],
    [FullConfig EXCEPT !.memo.ok = FALSE], [FullConfig EXCEPT !.approvals = {<<"http.bearer", "p">>}],
    [FullConfig EXCEPT !.approvals = {<<"ai.invoke", "n">>}], [FullConfig EXCEPT !.maxTransactions = 9]>>
    \o [n \in 1 .. 5 |-> [FullConfig EXCEPT !.schema = n]]

\* The names of the stores, in the order of their letters.
MCPrecedes(n, k) == n = "jobs" /\ k = "st"

Files == [entries |-> {"main"}, files |-> {[path |-> "d.db", inode |-> 1], [path |-> "jobs.db", inode |-> 2],
                                           [path |-> "linked.db", inode |-> 2], [path |-> "broken.db", inode |-> 3]},
          safe |-> {"st.db", "jobs.db", "d.db", "linked.db", "broken.db", "absent.db"}
                     \cup {"sealed.db", "failing.db", "new.db"},
          uncreatable |-> {"sealed.db"}, unopenable |-> {"broken.db", "failing.db"}, secretFiles |-> {"s", "t"}, ownerOnly |-> TRUE]
Limits == [deadline |-> 2, aiTimeout |-> 2, httpCalls |-> 2, aiCalls |-> 1, hostCalls |-> 3, connect |-> 1]

Deploy(built, manifest, program, config) ==
  [built |-> built, manifest |-> manifest, program |-> program, config |-> config, fs |-> Files,
   limits |-> Limits, requests |-> {}, responses |-> {}, retryAfter |-> {}, cancels |-> FALSE,
   revokes |-> FALSE, until |-> 0, runtimes |-> Runtimes]

-----------------------------------------------------------------------------
(* Deployments that serve.                                                 *)
LiveConfig ==
  [FullConfig EXCEPT !.state = <<>>, !.durable = None, !.queues = <<>>, !.schedules = <<>>,
                     !.buckets = <<>>, !.databases = <<>>, !.caches = <<>>, !.cacheTotals = 0,
                     !.httpRates = <<>>]
Live == [Deploy(FullManifest, FullManifest, Webhook({}), LiveConfig) EXCEPT
           !.requests = {[key |-> None]}, !.responses = {1}, !.until = 3]
Alone == CHOOSE r \in Runtimes : TRUE
Keyed(k, d) == [key |-> k, digest |-> d]

LiveDeployments ==
  [retries |-> [Live EXCEPT !.program = Webhook({Bearer("a", "t")}), !.config.defaultRate.capacity = 2,
                            !.retryAfter = {0, 3}, !.cancels = TRUE, !.revokes = TRUE, !.runtimes = {Alone}],
   rates |-> [Live EXCEPT !.program = Webhook({Unsafe("b"), Call("search.query", "i")}),
                          !.config.search.i = Connector("search.query", "a", None),
                          !.config.httpRetries = <<>>, !.config.defaultRate.window = 1,
                          !.until = 2, !.limits.hostCalls = 1, !.limits.deadline = 1],
   unsafe |-> [Live EXCEPT !.program = Webhook({Unsafe("a")}), !.config.defaultRate.capacity = 2,
                           !.retryAfter = {0}, !.runtimes = {Alone}],
   crowded |-> [Live EXCEPT !.program = Webhook({Unsafe("b"), Call("search.query", "i")}),
                            !.config.search.i = Connector("search.query", "a", None),
                            !.config.httpRetries = <<>>, !.config.maxTracked = 1,
                            !.limits.hostCalls = 1, !.runtimes = {Alone}],
   agents |-> [Live EXCEPT !.program = Webhook({Call("ai.invoke", "m"), Call("search.query", "i")}),
                           !.retryAfter = {0}, !.cancels = TRUE, !.revokes = TRUE, !.runtimes = {Alone},
                           !.until = 2, !.limits.hostCalls = 2],
   misdirected |-> [Live EXCEPT !.built = MCManifests.plainHttp, !.manifest = MCManifests.plainHttp,
                                !.program = Webhook({Bearer("b", "t"), Bearer("p", "s"), Call("search.vector", "v")}),
                                !.config.approvals = @ \cup Each("http.bearer", {"b", "p"}), !.runtimes = {Alone}],
   memo |-> [Live EXCEPT !.requests = {Keyed("x", 1), Keyed("x", 2), Keyed("y", 1)}, !.responses = {1, 2},
                         !.config.memo = [ok |-> TRUE, entries |-> 2, bytes |-> 2, ttl |-> 1],
                         !.until = 1, !.limits.deadline = 1],
   scarce |-> [Live EXCEPT !.requests = {Keyed("x", 1), Keyed("y", 1), Keyed("invalid", 1)}, !.responses = {1, 2},
                           !.config.memo = [ok |-> TRUE, entries |-> 1, bytes |-> 1, ttl |-> 1],
                           !.until = 2, !.limits.deadline = 1, !.program.traps = TRUE]]

(* Every manifest builds every program; the full manifest's artifacts meet *)
(* every later manifest, on a full host and on none; every configuration   *)
(* meets every manifest.                                                   *)
HostedProgram ==
  Webhook({Call("ai.invoke", "m"), Call("search.query", "i"), Call("cache.write", "h"),
           Call("database.write", "d"), Call("object.read", "o"), Call("http.request", "b")})
MCDeployments ==
  {Deploy(MCManifests[m], MCManifests[m], MCPrograms[p], NoConfig) :
     m \in DOMAIN MCManifests, p \in DOMAIN MCPrograms}
  \cup {Deploy(FullManifest, MCManifests[m], MCPrograms[p], config) :
          m \in DOMAIN MCManifests, p \in DOMAIN MCPrograms, config \in {FullConfig, NoConfig}}
  \cup {Deploy(FullManifest, MCManifests[m], HostedProgram, MCConfigs[c]) :
          m \in DOMAIN MCManifests, c \in DOMAIN MCConfigs}
  \cup {LiveDeployments[n] : n \in DOMAIN LiveDeployments}
=============================================================================
