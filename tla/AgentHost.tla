----------------------------- MODULE AgentHost -----------------------------
(***************************************************************************)
(* One deployment of a package, from its manifest to the calls its guests  *)
(* make: the build, the load of the host configuration, the admission of   *)
(* the artifact, then webhook invocations on several runtimes that share   *)
(* one AgentHost.  A runtime runs one invocation at a time (own_scheduler);*)
(* the shared state is the approvals, the rate windows and the in-memory   *)
(* idempotency responses, each behind its own lock.                        *)
(*                                                                         *)
(* The guest is nondeterministic: it makes any of its program's outbound   *)
(* calls in any order.  Calls recorded by a state store, and hosts with a  *)
(* durable idempotency store, are RecordedWork's subject.  The guest holds *)
(* no open database transaction when it calls out (DatabaseSession).       *)
(***************************************************************************)
EXTENDS HostAdmission, FiniteSetsExt, Recency

CONSTANTS Deployments,    \* a set of deployments, see below
          Runtimes,       \* the KritRuntimes that share the host
          MaxDnsWorkers   \* MAX_DNS_WORKERS

(* A deployment: the manifest at build time, the manifest at run time, the *)
(* program, the host configuration, the filesystem, the limits and the     *)
(* runtimes, the requests and responses of the service, the retry-after    *)
(* its peers send, whether its embedding cancels or revokes, and a bound   *)
(* on the clock.                                                           *)
(* Without a host configuration (schema 0) every section is empty.         *)
RetryTyped(retry) == retry.attempts \in Nat
RateTyped(rate) == rate.capacity \in Nat

ASSUME DeploymentAssumption ==
  \A d \in Deployments :
    LET c == d.config
    IN /\ d.program.kind \in {"module", "webhook", "job", "schedule"}
       /\ IsFiniteSet(d.program.calls)
       /\ d.responses \subseteq Nat
       /\ {c.maxTracked, c.memo.entries, c.memo.bytes, c.memo.ttl} \subseteq Nat
       /\ RetryTyped(c.defaultRetry) /\ RateTyped(c.defaultRate)
       /\ \A o \in DOMAIN c.httpRetries : RetryTyped(c.httpRetries[o])
       /\ \A a \in DOMAIN c.aiRetries : RetryTyped(c.aiRetries[a])
       /\ \A o \in DOMAIN c.httpRates : RateTyped(c.httpRates[o])
       /\ \A a \in DOMAIN c.aiRates : RateTyped(c.aiRates[a])
       /\ c.schema = 0 =>
            /\ c.config = {} /\ c.secrets = {}
            /\ \A section \in {c.state, c.queues, c.schedules, c.buckets, c.databases, c.caches, c.search,
                              c.ai, c.httpRetries, c.aiRetries, c.httpRates, c.aiRates} : section = <<>>

VARIABLES D,           \* the deployment
          stage,       \* package, artifact, host, serving; unbuilt, unloaded, unfit
          build,       \* what krit build returned: [status, artifact]
          grants,      \* the grant set of the manifest the host was loaded with
          files,       \* the store files the load created
          now,         \* the monotonic clock
          approved,    \* what the approval policy grants
          rates,       \* rate bucket -> [started, count]
          rateOlder,   \* their order of use
          memo,        \* idempotency key -> [digest, response, expires]
          memoOlder,   \* their order of use
          memoBytes,   \* IdempotencyState::bytes
          inv,         \* runtime -> its invocation
          workers,     \* runtime -> its active DNS workers
          windows,     \* ghost: rates in a table that never evicts
          wire,        \* ghost: <<secret, origin>> of every bearer sent
          answers      \* ghost: [key, digest, response, at] the guests produced

deploymentVars == <<D, stage, build, grants, files>>
rateVars == <<rates, rateOlder, windows>>
memoVars == <<memo, memoOlder, memoBytes, answers>>
vars == <<deploymentVars, now, approved, rateVars, memoVars, inv, workers, wire>>

C == D.config
GuestRequirements == build.artifact.metadata.facts.requirements

Idle == [phase |-> "idle"]

Init ==
  /\ D \in Deployments
  /\ stage = "package" /\ build = <<>> /\ grants = <<>> /\ files = {} /\ now = 0
  /\ approved = {} /\ rates = <<>> /\ rateOlder = {}
  /\ memo = <<>> /\ memoOlder = {} /\ memoBytes = 0
  /\ inv = [r \in Runtimes |-> Idle]
  /\ workers = [r \in Runtimes |-> 0]
  /\ windows = <<>> /\ wire = {} /\ answers = {}

-----------------------------------------------------------------------------
(* From the package to a serving host.                                     *)

Build ==
  /\ stage = "package"
  /\ build' = BuildPackage(D.built, D.program, D.fs)
  /\ stage' = IF build'.status = 0 THEN "artifact" ELSE "unbuilt"
  /\ UNCHANGED <<D, grants, files, now, approved, rateVars, memoVars, inv, workers, wire>>

(* The commands that serve load the manifest again, then the host config.  *)
Load ==
  /\ stage = "artifact"
  /\ LET load == IF LoadManifest(D.manifest, D.fs) THEN LoadHost(C, D.manifest, D.fs, D.limits)
                 ELSE [ok |-> FALSE, created |-> {}]
     IN /\ stage' = IF load.ok THEN "host" ELSE "unloaded"
        /\ files' = load.created
        /\ grants' = IF load.ok THEN GrantSet(D.manifest) ELSE <<>>
        /\ approved' = IF load.ok THEN C.approvals ELSE {}
  /\ UNCHANGED <<D, build, now, rateVars, memoVars, inv, workers, wire>>

(* Every invocation repeats this check of the same unchanged inputs.       *)
Admit ==
  /\ stage = "host"
  /\ stage' = IF Admits(grants, build.artifact, C, D.limits) THEN "serving" ELSE "unfit"
  /\ UNCHANGED <<D, build, grants, files, now, approved, rateVars, memoVars, inv, workers, wire>>

-----------------------------------------------------------------------------
(* The in-memory idempotency of webhook responses.  A response stands for  *)
(* its size.                                                               *)

Sizes(m) ==
  LET size == [k \in DOMAIN m |-> m[k].response]
  IN MapThenSumSet(LAMBDA k : size[k], DOMAIN m)
Keep(f, S) == [k \in S |-> f[k]]
With(f, k, v) == [l \in DOMAIN f \cup {k} |-> IF l = k THEN v ELSE f[l]]

SameRequest(entry, request) == entry.digest = request.digest

(* A live entry answers or conflicts; otherwise the guest runs.            *)
IdempotencyDecision(request) ==
  LET live == {k \in DOMAIN memo : memo[k].expires > now}
  IN IF request.key \in {None, "invalid"}
     THEN [kind |-> IF request.key = None THEN "execute" ELSE "reject",
           memo |-> memo, older |-> memoOlder, bytes |-> memoBytes]
     ELSE [kind |-> IF request.key \notin live THEN "execute"
                    ELSE IF SameRequest(memo[request.key], request) THEN "replay" ELSE "conflict",
           memo |-> Keep(memo, live),
           older |-> IF request.key \in live THEN UsedNow(memoOlder, live, request.key)
                     ELSE Among(memoOlder, live),
           bytes |-> Sizes(Keep(memo, live))]

(* Faulty variant: the bytes of a response that is replaced stay counted.  *)
ReplacedBytesKept(request) == 0
ReplacedBytes(request) == IF request.key \in DOMAIN memo THEN memo[request.key].response ELSE 0

(* A response is kept when it fits at all: the least recently used others  *)
(* make room for it.                                                       *)
CompleteIdempotency(request, response) ==
  LET others == DOMAIN memo \ {request.key}
      after(S) == memoBytes - ReplacedBytes(request) - Sizes(Keep(memo, S))
      fits(S) == Cardinality(others \ S) < C.memo.entries /\ after(S) + response =< C.memo.bytes
      enough == {k \in others : fits(UpTo(memoOlder, others, k))}
      evicted == IF fits({}) THEN {} ELSE Victims(memoOlder, others, enough)
  IN IF \/ request.key = None
        \/ C.memo.entries = 0 \/ C.memo.bytes = 0
        \/ response > C.memo.bytes
     THEN UNCHANGED <<memo, memoOlder, memoBytes>>
     ELSE /\ memo' = With(Keep(memo, others \ evicted), request.key,
                          [digest |-> request.digest, response |-> response, expires |-> now + C.memo.ttl])
          /\ memoOlder' = UsedNow(memoOlder, others \ evicted, request.key)
          /\ memoBytes' = after(evicted) + response

(* invoke_webhook: the decision, then a guest on a thread of its own.      *)
Arrive(r) ==
  /\ stage = "serving" /\ r \in D.runtimes /\ inv[r].phase = "idle"
  /\ now + D.limits.deadline =< D.until
  /\ \E request \in D.requests :
       LET decision == IdempotencyDecision(request)
       IN /\ memo' = decision.memo /\ memoOlder' = decision.older /\ memoBytes' = decision.bytes
          /\ inv' = [inv EXCEPT ![r] =
                       CASE decision.kind = "execute" ->
                              [phase |-> "guest", request |-> request, ends |-> now + D.limits.deadline,
                               cancelled |-> FALSE, calls |-> 0, http |-> 0, ai |-> 0, handles |-> {}]
                         [] decision.kind = "replay" ->
                              [phase |-> "replay", request |-> request, at |-> now,
                               response |-> memo[request.key].response]
                         [] OTHER -> [phase |-> decision.kind]]
  /\ UNCHANGED <<deploymentVars, now, approved, rateVars, workers, wire, answers>>

(* A replayed, conflicting or malformed request is answered directly.      *)
AnswerDirectly(r) ==
  /\ inv[r].phase \in {"replay", "conflict", "reject"}
  /\ inv' = [inv EXCEPT ![r] = Idle]
  /\ UNCHANGED <<deploymentVars, now, approved, rateVars, memoVars, workers, wire>>

(* The guest returns a response in time, and it is remembered.             *)
GuestReturns(r) ==
  /\ inv[r].phase = "guest" /\ now < inv[r].ends
  /\ \E response \in D.responses :
       /\ CompleteIdempotency(inv[r].request, response)
       /\ answers' = {a \in answers : a.at + C.memo.ttl > now} \cup
            When(inv[r].request.key # None,
                 {[key |-> inv[r].request.key, digest |-> inv[r].request.digest,
                   response |-> response, at |-> now]})
  /\ inv' = [inv EXCEPT ![r] = Idle]
  /\ UNCHANGED <<deploymentVars, now, approved, rateVars, workers, wire>>

(* The guest traps, or its deadline has passed: nothing is remembered.     *)
GuestFails(r) ==
  /\ \/ inv[r].phase = "trapped"
     \/ inv[r].phase = "guest" /\ (now >= inv[r].ends \/ D.program.traps)
  /\ inv' = [inv EXCEPT ![r] = Idle]
  /\ UNCHANGED <<deploymentVars, now, approved, rateVars, memoVars, workers, wire>>

-----------------------------------------------------------------------------
(* Host calls.  A call ends in a value or an error for the guest, which    *)
(* both give it control again, or in a trap with the reason it gives.      *)

Lesser(a, b) == IF a =< b THEN a ELSE b
Greater(a, b) == IF a >= b THEN a ELSE b
Override(f, k, default) == IF k \in DOMAIN f THEN f[k] ELSE default

Returned(i) == [phase |-> "guest", request |-> i.request, ends |-> i.ends, cancelled |-> i.cancelled,
                calls |-> i.calls, http |-> i.http, ai |-> i.ai, handles |-> i.handles]
Trapped(reason) == [phase |-> "trapped", reason |-> reason]

RequireGrant(capability, resource) ==
  Grants(grants, capability, resource) /\ <<capability, resource>> \in GuestRequirements

(* Faulty variant: a granted secret may go to any granted origin.          *)
AuthorizeBearerGranted(secret, origin) ==
  Grants(grants, "secret.read", secret) /\ Grants(grants, "http.request", origin)
AuthorizeBearer(secret, origin) == PermitsBearer(grants, secret, origin)
Approve(approval) == approval \in approved

(* send_with_retry begins with no attempt made.                            *)
Start(i, call) ==
  [phase |-> "attempt", request |-> i.request, ends |-> i.ends, cancelled |-> i.cancelled,
   calls |-> i.calls, http |-> i.http, ai |-> i.ai, handles |-> i.handles,
   call |-> call, attempt |-> 0, sent |-> 0, late |-> 0, until |-> 0]

PerformHttp(i, c) ==
  LET bearer == c.bearer # None
      counted == [i EXCEPT !.http = @ + 1]
      approval == <<"http.bearer", c.resource>>
  IN IF ~RequireGrant("http.request", c.resource) THEN Trapped("authority")
     ELSE IF bearer /\ ~AuthorizeBearer(c.bearer, c.resource) THEN Trapped("unbound")
     ELSE IF i.http >= D.limits.httpCalls THEN Trapped("calls")
     ELSE IF bearer /\ ~Approve(approval) THEN counted
     ELSE Start(counted,
            [capability |-> "http.request", origin |-> c.resource, secret |-> c.bearer,
             bucket |-> <<"http.request", c.resource>>,
             rate |-> Override(C.httpRates, c.resource, C.defaultRate),
             retry |-> Override(C.httpRetries, c.resource, C.defaultRetry),
             approval |-> IF bearer THEN approval ELSE <<>>, prechecked |-> bearer,
             eligible |-> c.safe, deadline |-> i.ends])

(* An adapter's request carries an idempotency key, so it may be sent      *)
(* again.                                                                  *)
PerformAi(i, c) ==
  LET counted == [i EXCEPT !.ai = @ + 1]
      adapter == C.ai[c.resource]
      approval == <<"ai.invoke", c.resource>>
  IN IF ~RequireGrant("ai.invoke", c.resource) THEN Trapped("authority")
     ELSE IF i.ai >= D.limits.aiCalls THEN Trapped("calls")
     ELSE IF c.resource \notin DOMAIN C.ai THEN counted
     ELSE IF ~Approve(approval) THEN counted
     ELSE IF adapter.secret # None /\ adapter.secret \notin C.secrets THEN counted
     ELSE IF adapter.secret # None /\ ~AuthorizeBearer(adapter.secret, adapter.origin)
          THEN Trapped("unbound")
     ELSE Start(counted,
            [capability |-> "ai.invoke", origin |-> adapter.origin, secret |-> adapter.secret,
             bucket |-> approval,
             rate |-> Override(C.aiRates, c.resource, C.defaultRate),
             retry |-> Override(C.aiRetries, c.resource, C.defaultRetry),
             approval |-> approval, prechecked |-> TRUE, eligible |-> TRUE,
             deadline |-> Lesser(now + adapter.timeout, i.ends)])

PerformHttpSearch(i, c) ==
  LET counted == [i EXCEPT !.http = @ + 1]
      connector == C.search[c.resource]
      bearer == connector.secret # None
  IN IF i.http >= D.limits.httpCalls THEN Trapped("calls")
     ELSE IF ~Grants(grants, "http.request", connector.origin) THEN Trapped("authority")
     ELSE IF bearer /\ ~Grants(grants, "secret.read", connector.secret) THEN Trapped("authority")
     ELSE IF bearer /\ connector.secret \notin C.secrets THEN counted
     ELSE IF bearer /\ ~AuthorizeBearer(connector.secret, connector.origin) THEN Trapped("unbound")
     ELSE Start(counted,
            [capability |-> c.capability, origin |-> connector.origin, secret |-> connector.secret,
             bucket |-> <<"http.request", connector.origin>>,
             rate |-> Override(C.httpRates, connector.origin, C.defaultRate),
             retry |-> Override(C.httpRetries, connector.origin, C.defaultRetry),
             approval |-> IF bearer THEN <<"http.bearer", connector.origin>> ELSE <<>>,
             prechecked |-> FALSE, eligible |-> TRUE,
             deadline |-> Lesser(now + connector.timeout, i.ends)])

(* A connector the host does not have, or of the other kind, is an error;  *)
(* a local one answers at once.                                            *)
PerformSearch(i, c) ==
  IF ~RequireGrant(c.capability, c.resource) THEN Trapped("authority")
  ELSE IF c.resource \notin DOMAIN C.search THEN i
  ELSE IF C.search[c.resource].kind # c.capability \/ C.search[c.resource].origin = None THEN i
  ELSE PerformHttpSearch(i, c)

RecordHostCall(i) == [i EXCEPT !.calls = @ + 1]

(* secrets::acquire hands the guest a handle, never the secret.            *)
Acquire(i, secret) ==
  IF ~RequireGrant("secret.read", secret) THEN Trapped("authority")
  ELSE IF secret \notin C.secrets THEN i
  ELSE [i EXCEPT !.handles = @ \cup {secret}]

HostCall(r, perform) ==
  /\ inv[r].phase = "guest" /\ now < inv[r].ends
  /\ inv' = [inv EXCEPT ![r] =
               IF inv[r].calls >= D.limits.hostCalls THEN Trapped("calls")
               ELSE IF inv[r].cancelled THEN RecordHostCall(inv[r]) ELSE perform]
  /\ UNCHANGED <<deploymentVars, now, approved, rateVars, memoVars, workers, wire>>

AcquireSecret(r) ==
  \E c \in D.program.calls :
    /\ c.bearer # None /\ inv[r].phase = "guest" /\ c.bearer \notin inv[r].handles
    /\ HostCall(r, Acquire(RecordHostCall(inv[r]), c.bearer))

SendHttp(r) ==
  \E c \in D.program.calls :
    /\ c.capability = "http.request" /\ inv[r].phase = "guest"
    /\ c.bearer # None => c.bearer \in inv[r].handles
    /\ HostCall(r, PerformHttp(RecordHostCall(inv[r]), c))

InvokeAi(r) ==
  \E c \in D.program.calls : /\ c.capability = "ai.invoke"
                             /\ HostCall(r, PerformAi(RecordHostCall(inv[r]), c))

Search(r) ==
  \E c \in D.program.calls : /\ c.capability \in {"search.query", "search.vector"}
                             /\ HostCall(r, PerformSearch(RecordHostCall(inv[r]), c))

-----------------------------------------------------------------------------
(* One attempt of send_with_retry: checks, a charge, the name, a transfer. *)

RetryDelay(retry, attempt) == Lesser(retry.base * 2 ^ (attempt - 1), retry.max)
RetryAfter(retry, attempt, after) == Greater(Lesser(after, retry.max), RetryDelay(retry, attempt))

(* wait_for_retry refuses a delay beyond the deadline.                     *)
WaitForRetry(i, delay) ==
  IF now + delay > i.call.deadline THEN Returned(i)
  ELSE [i EXCEPT !.phase = "backoff", !.until = now + delay]

(* A retryable outcome is retried when the request is safe to send again.  *)
MayRetry(i) == i.call.eligible /\ i.attempt < i.call.retry.attempts
RetryFailure(i) ==
  IF MayRetry(i) THEN WaitForRetry(i, RetryDelay(i.call.retry, i.attempt)) ELSE Returned(i)
RetryStatus(i, after) ==
  IF MayRetry(i) THEN WaitForRetry(i, RetryAfter(i.call.retry, i.attempt, after)) ELSE Returned(i)

(* Faulty variant: an approval once given is not asked for again.          *)
AttemptCallApprovedOnce(i) ==
  IF i.cancelled \/ now >= i.call.deadline THEN Returned(i)
  ELSE [i EXCEPT !.phase = "charge", !.attempt = @ + 1]

(* The top of the loop: the approval was checked just before attempt 1 of  *)
(* a prechecked call, and is checked again before every other attempt.     *)
AttemptCall(i) ==
  LET denied == /\ i.call.approval # <<>>
                /\ i.attempt > 0 \/ ~i.call.prechecked
                /\ ~Approve(i.call.approval)
  IN IF i.cancelled \/ now >= i.call.deadline \/ denied THEN Returned(i)
     ELSE [i EXCEPT !.phase = "charge", !.attempt = @ + 1]

Attempt(r) ==
  /\ inv[r].phase = "attempt"
  /\ inv' = [inv EXCEPT ![r] = AttemptCall(inv[r])]
  /\ UNCHANGED <<deploymentVars, now, approved, rateVars, memoVars, workers, wire>>

(* The window of a bucket, restarted once it is over.                      *)
Window(table, bucket, rate) ==
  IF bucket \in DOMAIN table /\ now - table[bucket].started < rate.window
  THEN table[bucket] ELSE [started |-> now, count |-> 0]

(* A full table evicts its least recently used window for a new bucket.    *)
Tracked(bucket) ==
  IF bucket \notin DOMAIN rates /\ Cardinality(DOMAIN rates) >= C.maxTracked
  THEN {b \in DOMAIN rates : \E o \in DOMAIN rates : <<o, b>> \in rateOlder} ELSE DOMAIN rates

CheckRate(bucket, rate) ==
  LET window == Window(rates, bucket, rate)
      charge(w) == IF window.count < rate.capacity THEN [w EXCEPT !.count = @ + 1] ELSE w
  IN /\ rateOlder' = UsedNow(rateOlder, Tracked(bucket), bucket)
     /\ rates' = With(Keep(rates, Tracked(bucket)), bucket, charge(window))
     /\ windows' = With(windows, bucket, charge(Window(windows, bucket, rate)))

Charge(r) ==
  /\ inv[r].phase = "charge"
  /\ LET call == inv[r].call
     IN /\ CheckRate(call.bucket, call.rate)
        /\ inv' = [inv EXCEPT ![r] =
                     IF Window(rates, call.bucket, call.rate).count < call.rate.capacity
                     THEN [@ EXCEPT !.phase = "send"] ELSE Returned(@)]
  /\ UNCHANGED <<deploymentVars, now, approved, memoVars, workers, wire>>

(* network::send up to the start of a resolver; origins are host names.    *)
Dispatch(r) ==
  /\ inv[r].phase = "send"
  /\ LET i == inv[r]
         refused == \/ i.cancelled
                    \/ i.call.secret # None /\ i.call.origin \in PlainOrigins
                    \/ now >= i.call.deadline
                    \/ workers[r] >= MaxDnsWorkers
     IN /\ inv' = [inv EXCEPT ![r] =
                     IF refused THEN Returned(i)
                     ELSE [i EXCEPT !.phase = "resolve",
                                    !.until = Lesser(now + D.limits.connect, i.call.deadline)]]
        /\ workers' = IF refused THEN workers ELSE [workers EXCEPT ![r] = @ + 1]
  /\ UNCHANGED <<deploymentVars, now, approved, rateVars, memoVars, wire>>

(* The request leaves: with a bearer, for the origin it was authorized for.*)
Transmit(r) ==
  LET i == inv[r]
      late == i.cancelled \/ (i.call.approval # <<>> /\ ~Approve(i.call.approval))
  IN /\ inv' = [inv EXCEPT ![r] = [i EXCEPT !.phase = "transfer", !.sent = @ + 1,
                                            !.late = IF late THEN @ + 1 ELSE @]]
     /\ wire' = wire \cup When(i.call.secret # None, {<<i.call.secret, i.call.origin>>})

(* The resolver answers: with permitted addresses, with one that the       *)
(* network policy denies, or with a failure that may be retried.           *)
Resolved(r) ==
  /\ inv[r].phase = "resolve"
  /\ workers' = [workers EXCEPT ![r] = @ - 1]
  /\ \/ now < inv[r].call.deadline /\ Transmit(r)
     \/ /\ inv' = [inv EXCEPT ![r] = RetryFailure(@)] /\ UNCHANGED wire
     \/ /\ inv' = [inv EXCEPT ![r] = Returned(@)] /\ UNCHANGED wire
  /\ UNCHANGED <<deploymentVars, now, approved, rateVars, memoVars>>

(* The wait for the resolver ends first, and leaves its worker behind.     *)
ResolveStops(r) ==
  /\ inv[r].phase = "resolve"
  /\ inv[r].cancelled \/ now >= inv[r].until
  /\ inv' = [inv EXCEPT ![r] = IF inv[r].cancelled THEN Returned(@) ELSE RetryFailure(@)]
  /\ UNCHANGED <<deploymentVars, now, approved, rateVars, memoVars, workers, wire>>

(* A worker whose answer nobody awaits any more.                           *)
WorkerExits(r) ==
  /\ workers[r] > IF inv[r].phase = "resolve" THEN 1 ELSE 0
  /\ workers' = [workers EXCEPT ![r] = @ - 1]
  /\ UNCHANGED <<deploymentVars, now, approved, rateVars, memoVars, inv, wire>>

(* The peer answers: a final response or one nobody accepts, a status that *)
(* may be retried with or without retry-after, or a broken transfer.       *)
Answer(r) ==
  /\ inv[r].phase = "transfer"
  /\ \/ inv' = [inv EXCEPT ![r] = Returned(@)]
     \/ \E after \in D.retryAfter : inv' = [inv EXCEPT ![r] = RetryStatus(@, after)]
     \/ inv' = [inv EXCEPT ![r] = RetryFailure(@)]
  /\ UNCHANGED <<deploymentVars, now, approved, rateVars, memoVars, workers, wire>>

(* Faulty variant: the callback looks at the cancellation alone.           *)
TransferMustStopCancelled(i) == i.cancelled
(* The progress callback: a cancelled or late transfer is given up.        *)
TransferMustStop(i) == i.cancelled \/ now >= i.call.deadline
TransferStops(r) ==
  /\ inv[r].phase = "transfer"
  /\ TransferMustStop(inv[r])
  /\ inv' = [inv EXCEPT ![r] = Returned(@)]
  /\ UNCHANGED <<deploymentVars, now, approved, rateVars, memoVars, workers, wire>>

BackoffEnds(r) ==
  /\ inv[r].phase = "backoff"
  /\ \/ now >= inv[r].until /\ inv' = [inv EXCEPT ![r].phase = "attempt"]
     \/ now < inv[r].until /\ inv[r].cancelled /\ inv' = [inv EXCEPT ![r] = Returned(@)]
  /\ UNCHANGED <<deploymentVars, now, approved, rateVars, memoVars, workers, wire>>

-----------------------------------------------------------------------------
(* The embedding and the clock.                                            *)

Calling == {"attempt", "charge", "send", "resolve", "transfer", "backoff"}
Running == Calling \cup {"guest"}

Cancel(r) ==
  /\ inv[r].phase \in Running /\ D.cancels
  /\ inv' = [inv EXCEPT ![r].cancelled = TRUE]
  /\ UNCHANGED <<deploymentVars, now, approved, rateVars, memoVars, workers, wire>>

(* An embedding's own ApprovalPolicy may withdraw what it approved.        *)
Revoke ==
  /\ stage = "serving" /\ D.revokes
  /\ \E a \in approved : approved' = approved \ {a}
  /\ UNCHANGED <<deploymentVars, now, rateVars, memoVars, inv, workers, wire>>

Tick ==
  /\ stage = "serving" /\ now < D.until
  /\ now' = now + 1
  /\ UNCHANGED <<deploymentVars, approved, rateVars, memoVars, inv, workers, wire>>

RuntimeStep(r) ==
  \/ AnswerDirectly(r) \/ GuestFails(r) \/ Attempt(r) \/ Charge(r) \/ Dispatch(r)
  \/ ResolveStops(r) \/ TransferStops(r) \/ BackoffEnds(r)
Environment(r) ==
  \/ Arrive(r) \/ GuestReturns(r) \/ AcquireSecret(r) \/ SendHttp(r) \/ InvokeAi(r) \/ Search(r)
  \/ Resolved(r) \/ WorkerExits(r) \/ Answer(r) \/ Cancel(r)

Next ==
  \/ Build \/ Load \/ Admit
  \/ \E r \in Runtimes : RuntimeStep(r) \/ Environment(r)
  \/ Revoke \/ Tick

(* The threads of a runtime and the clock go on; neither a peer, a         *)
(* resolver nor a guest has to answer.                                     *)
Spec == Init /\ [][Next]_vars /\ WF_vars(Tick) /\ \A r \in Runtimes : WF_vars(RuntimeStep(r))

-----------------------------------------------------------------------------
(* Properties.                                                             *)

(* The three places that decide what a manifest grants agree: the          *)
(* permission plan shown to a reviewer, grants_permission used by the      *)
(* build and the configuration, and the runtime's grant set; so do the two *)
(* that decide where a secret may go.                                      *)
GrantViewsAgree ==
  LET m == D.manifest
      g == GrantSet(m)
      probes == UNION {PermissionPlan(n) \cup GrantSet(n).requested : n \in {D.built, m}}
  IN stage = "package" /\ Validate(m) =>
       /\ PermissionPlan(m) = g.requested
       /\ \A p \in probes : GrantsPermission(m, p[1], p[2]) <=> p \in PermissionPlan(m)
       /\ \A s \in SecretNames(m), o \in m.http :
            ManifestPermitsBearer(m, s, o) <=> PermitsBearer(g, s, o)

(* What the documentation says of a build, spec/PACKAGES.md:185-199: every *)
(* requirement, queue.consume and schedule.trigger included, is compared   *)
(* with the manifest before anything is emitted.  build_command compares   *)
(* the requirements of expressions only (main.rs:1362), so this does not   *)
(* hold: the run build_ungranted shows an artifact that consumes a queue   *)
(* its manifest does not list.                                             *)
BuildComparesRequirements ==
  stage = "artifact" =>
    \A q \in build.artifact.metadata.facts.requirements : GrantsPermission(D.built, q[1], q[2])

(* What does hold: an artifact krit build wrote validates, the runtime     *)
(* agrees with emission on its identity, world, effects and imports, and   *)
(* of everything the artifact requires its own manifest denies nothing but *)
(* the queue or the schedule its entrypoint declares, the one requirement  *)
(* the build leaves to the runtime.                                        *)
BuiltCallsAuthorized ==
  LET d == build.artifact.metadata
      g == GrantSet(D.built)
  IN stage = "artifact" =>
       /\ ValidateArtifact(build.artifact)
       /\ ~IdentityDenied(g, d) /\ ValidPolicyWorld(d) /\ d.imports \subseteq g.imports
       /\ DeniedPermissions(g, d) \subseteq DeclaredRequirement(D.program)

(* A served artifact, even one built before its manifest was narrowed,     *)
(* only makes calls, and is only entered for a queue or schedule, that the *)
(* manifest in force grants.                                               *)
AdmittedCallsGranted ==
  stage = "serving" =>
    \A q \in (UNION {CallRequirements(c) : c \in D.program.calls}) \cup DeclaredRequirement(D.program) :
      GrantsPermission(D.manifest, q[1], q[2])

(* A host configuration that loads passes every check the runtime repeats  *)
(* that does not depend on the artifact.                                   *)
LoadedHostAdmitted ==
  LET nothing == [facts |-> [requirements |-> {}]]
  IN stage = "host" =>
       /\ ValidateForRuntime(C, D.limits) /\ ConfiguredGranted(grants, C)
       /\ DatabasesAdmitted(grants, nothing, C) /\ CacheAdmitted(grants, nothing, C)
       /\ SearchAdmitted(grants, nothing, C) /\ DurableAdmitted(grants, nothing, C)

(* A load that is refused after it created a file was refused by a durable *)
(* store itself, whose file cannot be created or does not open: no other   *)
(* check of the configuration, no database, cache or connector fails after *)
(* the first store file exists.                                            *)
OnlyStoresLeaveFiles ==
  stage = "unloaded" /\ files # {} =>
    \E p \in StoreFiles(C) : CannotCreate(D.fs, p) \/ ~Opens(D.fs, p)

(* A bearer credential leaves the host only over TLS and only for an       *)
(* origin the manifest binds it to, whoever asked for the request.         *)
SecretsReachBoundOrigins ==
  \A w \in wire : ManifestPermitsBearer(D.manifest, w[1], w[2]) /\ w[2] \notin PlainOrigins

(* A call the guest may make never traps for authority of the host's own   *)
(* adapters and connectors: only a guest's misdirected bearer does.        *)
HostAuthorityHolds ==
  \A r \in Runtimes : inv[r].phase = "trapped" =>
    \/ inv[r].reason = "calls"
    \/ /\ inv[r].reason = "unbound"
       /\ \E c \in D.program.calls : c.bearer # None /\ ~ManifestPermitsBearer(D.manifest, c.bearer, c.resource)

(* Both together: admission is decided once and is enough. Nothing a       *)
(* served artifact does lacks a grant, and nothing the host does for it    *)
(* turns out to lack one later.                                            *)
AdmissionSuffices == AdmittedCallsGranted /\ HostAuthorityHolds

(* Once a call is cancelled or its approval withdrawn, at most the attempt *)
(* already under way still reaches the wire.                               *)
WithdrawnAtMostOneMore ==
  \A r \in Runtimes : inv[r].phase \in Calling => inv[r].late =< 1

(* The attempts let through in one window of a bucket never exceed its     *)
(* capacity, although the table of windows evicts: admission keeps the     *)
(* buckets an artifact can touch within the table.                         *)
RateCapHolds ==
  \A b \in DOMAIN windows :
    windows[b].count =< IF b[1] = "ai.invoke"
                        THEN Override(C.aiRates, b[2], C.defaultRate).capacity
                        ELSE Override(C.httpRates, b[2], C.defaultRate).capacity

(* A call is sent again only when that is safe, and never more often than  *)
(* its policy says.                                                        *)
ResendOnlyWhenSafe ==
  \A r \in Runtimes : inv[r].phase \in Calling /\ inv[r].sent > 1 =>
    inv[r].call.eligible /\ inv[r].sent =< inv[r].call.retry.attempts

(* Both together: what send_with_retry puts on the wire, however often it  *)
(* goes around its loop, is what its policy and its approval still allow.  *)
AttemptsWithinPolicy == WithdrawnAtMostOneMore /\ ResendOnlyWhenSafe

(* The idempotency responses stay within their bounds and their byte count *)
(* is exact, however arrivals and completions interleave.                  *)
MemoWithinBounds ==
  /\ memoBytes = Sizes(memo) /\ OrdersStrictly(memoOlder, DOMAIN memo)
  /\ Cardinality(DOMAIN memo) =< C.memo.entries /\ memoBytes =< C.memo.bytes

(* A replayed response is one a guest produced for the same key and the    *)
(* same request, no longer ago than the time to live.                      *)
ReplayIsRecorded ==
  \A r \in Runtimes : inv[r].phase = "replay" /\ inv[r].at = now =>
    \E a \in answers : /\ a.key = inv[r].request.key /\ a.digest = inv[r].request.digest
                       /\ a.response = inv[r].response
                       /\ now < a.at + C.memo.ttl

(* Both together: evicting, replacing and expiring responses neither leaks *)
(* room nor lets one answer a request it was not produced for.             *)
ResponsesReliable == MemoWithinBounds /\ ReplayIsRecorded

(* Whatever peers, resolvers and guests do, every invocation ends.         *)
InvocationEnds == \A r \in Runtimes : inv[r].phase # "idle" ~> inv[r].phase = "idle"
=============================================================================
