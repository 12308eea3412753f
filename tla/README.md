# TLA+ models of aegrail-engine

aegrail-engine is an HTTP/HTTPS forward proxy that runs next to an agent
workload. It lets requests through to allowlisted hosts only, keeps request and
token budgets, and writes one hash-chained audit event per decision. This
directory holds models of its parts, TLC configurations that check them on small
instances, and proofs, checked by TLAPS, that hold for instances of any size.

## The system

| Component (source) | State | Operations | Interacts with |
|---|---|---|---|
| hash chain (`internal/audit/chain.go`) | none | `ComputeEventHash`, `VerifyChain` | used by the sinks |
| file sink (`sink_file.go`) | the file, `lastHash`, the mutex | `NewFileSink` (recovery), `Emit`, `Close` | called by every handler at once |
| stdout sink (`sink_stdout.go`) | `lastHash` | `Emit`, `Close` (does nothing) | the same interface |
| proxy (`internal/proxy/proxy.go`) | pointers only | `ServeHTTP`, `emit`, start and shutdown events | limits, policy, handlers, sink |
| plain HTTP (`http.go`) | locals of a request | `handleHTTP` around `httputil.ReverseProxy` | upstream, token budget, sink |
| CONNECT tunnel (`connect.go`) | two sockets, two counters | `handleConnect`, `relay` | upstream, sink |
| MITM (`mitm.go`) | a TLS connection, a request at a time | `handleMITM`, `forwardMITMRequest` | leaf cache, upstream, budget, sink |
| limits (`internal/limits`) | atomic counters, a token bucket | `Allow`, `Add`, `OverBudget` | shared by all requests |
| policy (`internal/policy`) | patterns, fixed | `Allows` | |
| leaf cache (`internal/mitm`) | certificates by host | `LeafFor` | MITM |
| LLM parser (`internal/llmparse`) | none | `Recognise`, `ParseResponse` | plain HTTP, MITM |
| lifecycle (`cmd/aegrail-engine`) | server, context, sink | `run` | everything |
| webhook (`internal/webhook`, `cmd/aegrail-webhook`) | none | `BuildPatch` | the Kubernetes API server; its patch is the engine's configuration |

What is hard here: handlers of many connections share the budgets and the sink;
the budget is checked before a call and charged after it; a system call of the
sink can fail, and the process or the machine can stop, between any two steps;
responses break off; hijacked connections are no longer the server's, so the
drain at shutdown does not see them; two goroutines tear a tunnel down together;
limits, cached leaves and the CA depend on how much time passes between two
requests; and an injected pod works only if what the webhook wrote into the
agent, the engine and the volumes fits, when each of them started at another
time. `PROJECT.json` lists these hazards one by one, with the property that
covers each, or the reason why none does yet.

What makes each part correct: the sink never loses, alters or reorders what it
acknowledged, and later records commit to earlier ones; the limits hold whatever
requests race; every decision leaves one event; egress goes to allowlisted hosts
only; tokens are counted once; tunnels are torn down whole; shutdown ends; the
rate holds in every window of time; a leaf is valid as long as a client needs it;
an injected engine enforces what the operator wrote, or does not start.

## Modules

| Module | Models | Checked by |
|---|---|---|
| `AuditChain` | digests as the history they commit to | through `FileSink` |
| `AuditLog` | what a sink promises: an append-only log of acknowledged records | refined by `FileSink` |
| `FileSink` | `sink_file.go` | `FileSink.cfg`, `FileSinkTorn.cfg` |
| `FileSinkProofs` | | TLAPS |
| `Proxy` | `internal/proxy`, the budgets, the lifecycle in `run()` | `Proxy*.cfg` |
| `ProxyProofs`, `ProxyLimitsProofs` | | TLAPS |
| `Tunnel` | the two relays of `connect.go` | `Tunnel.cfg` |
| `TunnelProofs` | | TLAPS |
| `RateWindow` | what a rate limit promises, for every window of time | refined by `RateLimiter` |
| `RateSpec` | `ParseRateSpec`: the limit a text makes | `Gateway.cfg`, `Sidecar.cfg` |
| `Clock`, `RateLimiter` | the token bucket of `internal/limits` | `Gateway.cfg` |
| `LeafCache` | the authority of `internal/mitm`: `LeafFor`, `mintLeaf` | `Gateway.cfg` |
| `LLMParse` | `internal/llmparse` | `Gateway.cfg` |
| `Gateway`, `MCGateway` | these three under the requests of `internal/proxy`, over time | `Gateway.cfg` |
| `GatewayProofs`, `GatewayLeafProofs` | | TLAPS |
| `Webhook` | `BuildPatch`, `mutateHandler`, and a patch as the API server applies it | `Sidecar*.cfg` |
| `Sidecar`, `MCSidecar` | the injected pod at run time: `run()` up to the listening server, `LoadAuthority`, restarts, a Secret that changes, what the agent's calls meet | `Sidecar*.cfg` |
| `WebhookProofs`, `SidecarProofs` | | TLAPS |

The operators named like a handler with a suffix (`EmitLinkUnlocked`,
`BudgetCheckOffByOne`, `CloseDstOmitted`, ...) are mutated forms of the
definition that follows them. No specification uses them; each breaks a property
when it takes that definition's place, which shows that the property depends on
the code.

### FileSink

The file is a sequence of chunks: what one write left. A chunk is a whole line,
a line without its newline (`json`) or a shorter piece (`cut`). `Readable` says
which physical lines parse: chunks that lack the newline between them are one
malformed line. `HeadHash` is the forward scan of `readLastEventHash`.
`Emit` takes three steps under the mutex, one per effect another process or a
crash can see: `EmitLink` (lock, link to `lastHash`, hash, marshal), `EmitWrite`,
`EmitSync` (fsync, advance `lastHash`, return nil). `EmitWriteFails` and
`EmitSyncFails` are its error returns. `ProcessDies` loses memory only;
`PowerLoss` also cuts the unsynced tail at any byte. The field `st` of a chunk
remembers what `Emit` told its caller; it is not in the file.

SHA-256 is taken to be free of collisions, and a digest is represented by the
bodies it was computed from. About the disk: fsync makes all bytes written so far
durable, the directory entry included; a power loss cuts the file, it does not
corrupt its middle. A failed fsync followed by a successful one is taken to have
saved the earlier bytes too, as POSIX lets the caller hope but Linux does not
promise.

### Proxy

A connection is a goroutine of the server; `pc` is the next step of its handler
and `call` the request it serves. Each action is one access to shared state:

* `Receive`, `Finish`: net/http hands a request over and takes the connection back;
  `MuxAnswers`: the mux of `run()` keeps it, for `/healthz`, `/readyz` (of any host)
  and unclean paths, without a decision or an event;
* `CounterAllow`, `LimiterAllow`, `BudgetCheck`, `Route`: `ServeHTTP` and the
  policy check both handlers start with, in the code's order;
* `Forward`, `ForwardFails`, `Upgrade`, `CopyResponse`, `CopyAborts`, `Account`,
  `EmitAllowed`: `handleHTTP`. ReverseProxy returns, calls `ErrorHandler`, or
  panics with `ErrAbortHandler` when the copy of the body breaks off; for a 101 it
  hijacks the connection and relays, as a tunnel does;
* `ConnectStep`, `ConnectFails`, `TunnelEnds`: `handleConnect`; the tunnel itself
  is `Tunnel`;
* `MITMStep`, `MITMFails`, `MITMRead`, `MITMReadEnds`: `handleMITM`;
* `MITMForward`, `MITMForwardFails`, `MITMWrite`, `MITMWriteFails`,
  `MITMAccount`, `MITMEmit`: `forwardMITMRequest`;
* `Start`, `Signal`, `EmitEngineShutdown`, `Shutdown`, `DrainDone`,
  `DrainTimesOut`, `CloseSink`, `Exit`, `ListenFails`: `run()`. A connection that
  was accepted just before the drain is `new`: it may still deliver a request, and
  `NewExpires` closes it if it does not. The drain waits for what net/http tracks,
  which a hijacked connection is not.

The sink is reduced to what the proxy sees: open or closed, and the type of the
last event. `served`, `consumed`, `contacted` and three fields of `call`
are bookkeeping the properties are stated with. Hosts, allowlist and MITM
patterns are sets; the usage of a response is any number up to `MaxUsage`; the
rate limiter refuses whenever it likes.

### Tunnel

`handler` copies from the client to the upstream, `goroutine` the other way.
A relay copies, stores its total, closes its source, closes its destination. A
peer sends, stops reading (a write to it blocks) or closes, at any time. The byte
is the unit of one read.

### Gateway

`Gateway` extends `RateLimiter`, `LeafCache` and `LLMParse`, which share the
clock. Time is in seconds. Tokens of the bucket are counted in parts, 3600 to a
token, so that rates per minute and hour stay whole; the code computes in
float64, and its rounding is not modelled (a rate that float64 rounds to zero is
one below a part a second). `Pause` lets time pass between any two steps.

* `Allow` of the limiter is one step, as the mutex makes it: `Take` or `Refuse`,
  with the bucket refilled either way. `granted` and `denied` are its history,
  which `RateWindow` speaks about.
* `LeafFor` is one step too; the mutex is held while a leaf is minted. A
  certificate is its host, the kind of name it carries, its lifetime and a number.
  `Connect` is `handleMITM` up to the leaf, `Handshake` the client's check of it,
  any time later, as the handshake has no deadline.
* `Plain` and `Inner` are the two places that charge a response. They differ as
  the code does: `handleHTTP` parses what the request line's URL identifies, and
  only if the status is below 400; `forwardMITMRequest` parses any status, for
  the URL it has given the CONNECT target. A response that does not get through is
  charged on neither. `Answers` is the providers' side: under which names each
  endpoint reports input and output tokens, and the tokens of Anthropic's prompt
  cache, which the parser decodes and does not count. `reported` adds up what
  upstreams reported, without a look at what the engine can read of it.
* `Gaps` opens, one by one, what keeps a reported token from the budget: requests in
  origin form, errors and streams that report usage, the names that Converse
  (`inputTokens`) and `:predict` have of their own in the body, and responses that
  break off.

`Proxy` has the interleaving of handlers, `Gateway` what they compute: there the
limiter refuses at will and a response uses any number of tokens, here a request
is one step.

### Webhook and Sidecar

`BuildPatch` is the sequence of operations the code appends, in its order, and
`ApplyOp` what the API server does with one: an `add` below an absent parent
fails the whole patch and rejects the pod. `Apply`, one operation after the
other, and `ContainerOps`, the loop over the containers, are recursive functions. A
pod keeps the identity label, whether there are other labels, its volumes, and the
name, environment, mounts and port of each container. Of the default identity the
configuration keeps whether it is the code's (`auto-injected/v1`) or the chart's
(`auto-injected-v1`). `Mutate(c)` is one review by a webhook with
configuration `c` (replicas of it may differ during a roll-out), `OtherWebhook`
another webhook that adds a container before or after it, `Admit` the end of the
review, with or without an answer (`failurePolicy: Ignore`, and `mutateHandler`
fails open), when the API server rejects a label value with a slash, `Resubmit`
the live manifest created again. `cfg` remembers the configuration the engine was injected with.

In `Sidecar` the pod runs. `Boot` is `run()` on the environment that
`buildEngineContainer` wrote: every error return is a failed engine, which the
kubelet restarts. `LoadAuthority` reads two files, so it is two steps, `Boot` and
`LoadKey`, and `RotateSecret` may come between; it may also come between the
start of the engine and that of the agent. `PlainCall` and `HTTPSCall` say how a
call of the agent ends: refused, routed by the mux, denied, untrusted, or served
by the upstream. Patterns are texts that `parseAllowlist` turns into sets of
patterns, and a pattern matches the host it is named after; `[` stands for a
pattern `path.Match` rejects. `Numbers` and `Rates` say what `ParseInt` and
`ParseRateSpec` read in a text: a number that is not positive is no cap, a text that
is no number keeps the engine from starting. Any container of the pod may hold the
engine's port; when another than the agent binds it is left open. The agent's TLS
is one that `SSL_CERT_FILE` or `REQUESTS_CA_BUNDLE` gives its roots, in place of the
system's, as OpenSSL, Go and `requests` have it; Node, which appends
`NODE_EXTRA_CA_CERTS` to the system's (`CHANGELOG.md:137`), reaches every allowed
host and is not in the model. Hosts `NO_PROXY` names are not called.

## Runs

| Run | Shows | Bounds |
|---|---|---|
| `filesink` | intact prefixes verify, later records commit to acknowledged ones, the sink implements `AuditLog` | 2 goroutines, 2 bodies, 4 chunks, all faults |
| `filesink_torn` | **violation** of `sink_file.go:14-16`: a torn line swallows the next record | power loss only |
| `proxy_plain` | the request cap, the budget check, the bound on its overshoot | 2 connections, 4 calls, cap 3, budget 2, usage up to 2 |
| `proxy_mitm` | one event per decision, deny by default, shutdown ends | 2 connections, 4 calls, one decrypted host |
| `proxy_mitm_budget` | **violation** of `proxy.go:56-61`: decrypted requests are not checked | as needed |
| `proxy_abort` | **violation** of `proxy.go:5-6` and `limits.go:81-82` (`EveryCallSettled`): a response that breaks off leaves no event, and its tokens are not charged | as needed |
| `proxy_redirect` | **violation** of `docs/proxy-design.md:12`: redirects leave the allowlist | as needed |
| `proxy_terminator` | **violation** of `proxy.go:214-215`: events follow `engine_shutdown` | as needed |
| `tunnel` | no byte moves after the event; one end tears down both | 2 bytes a direction |
| `webhook` | one engine per pod, traffic of the earlier containers routed to its port, nothing of the user's lost, pods rejected for two reasons only (`RejectionsKnown`); a running engine enforces what was configured (`ConfigEnforced`), fails to start for listed reasons only (`EngineStarts`), and allowed calls work exactly where trust and interception fit (`AllowedCallsWork`) | 1 or 2 user containers, 3 in all, 35 configurations, 4 contents of the Secret |
| `sidecar_promises` | **violation** of `mutator.go:12` and `CHANGELOG.md:126-127` (`PatchDelivers`): a pod without mounts is rejected, and any other gets no volume for its audit file | one configuration, with a CA and file mode |
| `gateway` | the limiter implements `RateWindow` and its bucket is exact, no text turns a limit off, cached leaves stay valid and are shared, every reported input and output token is charged once on both paths (`UsageCharged`) | 3 requests at the limiter, 3 pauses, 10 rate texts, 2 connections, 3 kinds of host, all kinds of URL, 2 responses, no gap |

The runs that pass leave out exactly what the violating ones show: `proxy_plain`
has no MITM host (inner requests are not limited), `proxy_mitm` no broken plain
response and no redirect. In `webhook` the exceptions are part of the properties
(`RejectionsKnown`, `EngineStarts`), and `sidecar_promises` shows that they break
what the documentation promises. `gateway` opens no gap; what the gaps do is under
"Where code and documentation disagree". Four chunks are a fault, a restart, a
record after it and one more that must link past both. Four calls on two connections are enough
to exhaust the cap of three with a refusal, and to have two responses in flight
that each use up the budget. In `gateway` three attempts and
three pauses are a grant, a refusal part of the way to the next token, and an
attempt that a wrong refill would grant; two long pauses pass the end of a cache
entry and of the CA. In `webhook` three containers leave room for another
webhook's before or after the engine; the settings that concern the CA and the
port are combined in every way, the others are tried one by one, since `run()`
stops at the first it cannot use. Deadlock is not checked in the runs: an engine
that has exited, a full file, a tunnel that has ended and a rejected pod are
where the models may stop.

Fairness. `ShutdownCompletes` assumes weak fairness of the steps `run()` takes
after the signal: each either does not wait or, as `srv.Shutdown`, has a timeout.
(`sink.Close` waits for the sink's mutex, so it also relies on fsync returning.)
Nothing is assumed of clients, upstreams or handlers. `TeardownPropagates`
assumes weak fairness of each relay and of the handler's emit: the Go scheduler
runs what can run, and closing a socket wakes whoever is blocked on it. Nothing
is assumed of the peers.

## Proofs

`FileSinkProofs`, for any set of goroutines and bodies, files of any length, and
any set of faults:

* `Invariant`: the inductive invariant. None of the properties is inductive: that
  later records commit to earlier ones needs to know that `lastHash` does
  (`HeadCommits`), which needs that the goroutine in `Emit` holds the mutex
  (`Mutex`), that its event is linked to the present head (`InFlight`), and that
  recovery finds a head at or above the last acknowledged readable record.
  `Linked` and `HeadLinked` say the same of an undamaged file, chunk by chunk;
  `AckedDurable` is what power loss needs.
* `TypeCorrect`, `IntactPrefix`, `TamperEvidence`: the three invariants of the run.
* `Refinement`: the sink implements `AuditLog`. Only `EmitSync` maps to a step
  (`Acknowledge`); every other action, power loss included, maps to a stutter,
  because acknowledged chunks are durable.

`ProxyProofs`, for any finite set of connections, any hosts, limits and number
of calls:

* `Invariant`: a conjunction over the process (`Process`) and, per connection,
  over its step and its call (`Good`): past the policy the host is allowlisted;
  a call that found the budget gone still finds it gone, as `used` never
  shrinks, and is stopped at the check; the event of a call is outstanding
  exactly until its handler is through. `OneMoves` reduces a step of one
  connection to that connection; each handler has a lemma.
* `TypeCorrect`; `BudgetEnforced` assumes that no host is decrypted;
  `DenyByDefault` that no upstream redirects; `OneEventPerDecision` that no plain
  response breaks off. Each assumption is one that a violating run shows to be
  needed.

`GatewayProofs`, for any set of rate texts with whole counts, any parts to a
token, and any attempts and pauses:

* `LimiterInv`: the inductive invariant. `BucketExact` speaks of the bucket
  refilled to now, and the bucket is stored as of the last attempt, so the
  invariant says at that time: it is at most the burst and at most what each window
  leaves, and equals one of them. `RefillTight` carries that to now; `AvailableFits`
  concludes that there is a token exactly if `RateWindow` grants.
* `LimiterImplements`: every step of the engine is a step of `RateWindow` or a
  stutter. `BucketStaysExact` and `LimitNeverSilent`: the two invariants.

* `NoOvercharge`, for every set of gaps: no parser returns more than the input and
  output tokens of the response, so no charge exceeds its report.
* `MeteringExact`, where there is no gap: what is charged equals what is reported.
  `ParserReadsAll` is the argument: for every kind of endpoint that reports usage
  `Recognise` finds a parser, and that parser reads the names the provider uses.

`GatewayLeafProofs`, for any connections, lifetimes of the CA and pauses:

* `LeafInv`: the cache holds for each host the newest leaf minted (`CacheOK`), and
  what a connection holds is that leaf or one minted at least a day before it
  (`HeldOK`), with a lifetime that reaches a day beyond the moment it was handed
  out. `LeavesReused` alone does not say that a leaf still to be minted will be
  later than those held. From it `LeavesStayValid` and `LeavesAreReused`.

`ProxyLimitsProofs` extends `ProxyProofs` with the counting arguments, for any
finite set of connections. Each adds to the invariant of `ProxyProofs` how many
connections are at certain steps, and each action moves one connection between
them (`At`, `CountMove`):

* `CapHolds`: `served` plus the calls that passed the counter and have not reached
  an upstream is at most `n` and at most the cap (`WithinCap`).
* `OvershootHolds`: `used` plus `MaxUsage` for each call past the check and not yet
  charged stays below the budget plus `MaxUsage` for each connection
  (`WithinOvershoot`): a call passes the check only below the budget.
* `AccountsBalance`: `AccountingExact` is inductive, given `Invariant`, where
  `Interrupted` is empty. The tokens
  in flight are counted as pairs of a connection and a number (`HeldTokens`).

The first two assume that no host is decrypted; decrypted requests pass no
counter and no check, which `proxy_mitm_budget` shows. The third assumes that no
response breaks off, which `proxy_abort` shows to be needed; TLC checked it on two
connections with three calls.

`TunnelProofs`, for any number of bytes: no relay counts more than its source sent
(`NothingInvented`), sockets are closed in the order of the deferred calls
(`Closes`), and the event follows the handler's relay (`EventLast`). That makes
`QuietTunnel` hold: both sockets are closed by then, so the goroutine that may
still be running can only return.

`WebhookProofs`, for every set of configurations and pods of any size:

* What a patch does. `PatchDone` says it in closed form: the patch of a pod without
  an engine fails exactly if it is `Unpatchable` (a CA, and no volumes or a
  container without mounts), and gives `Injected(p, c)` otherwise. It rests on a
  lemma per operation and, for the loops, on `UpTo`: induction up to a number, with
  the property as a set of numbers, from the well-foundedness of the order.
  `ApplyBoth` splits a patch in two, `ContainersDone` is the loop over the
  containers, `AppendedOneByOne` the one over the variables.
* What variables say. `SettingBoth`: the last setting wins, in an environment made
  of two. `ProxiedSettings` and `EngineSettings` read each variable back out of what
  the patch wrote.
* `WebInv`: a pod has no engine and nothing of the webhook's, or it has one, and the
  engine and all that comes before it were made for `cfg`. `InjectedOnce` alone
  would not say what the engine's neighbours were made for. `IdentityKnown` adds
  that a label value with a slash is `cfg`'s default. From it
  `EngineInjectedOnce`, `EngineHasIdentity`, `RejectionsExplained`,
  `TrafficStaysRouted` and `TrustStaysMounted`; and with `PatchDone` the action
  property, `UserConfigStays`.

The texts a pod is made of are `Texts`, which names the literals of the model, as
the provers do not know a string literal to be a string.

`SidecarProofs`, for the same and every set of Secrets and hosts:

* `ConfFromWebhook` and `BootsAsWritten`: `run()`, on the environment of an injected
  engine, arrives at `Conf`, a function of what the operator wrote; it refuses
  exactly what is `Unusable` and loads a CA exactly if it `Intercepts`.
* `RunInv`: only a scheduled pod has processes, and no process outlives a change of
  its pod (`Scheduled`); a running engine works with `Conf` and, until the Secret
  changes, with what the Secret holds (`EngineLoaded`), also between the two files
  of `LoadAuthority`; so does the agent's trust (`AgentTrusts`); a failed engine has
  a reason (`FailureExplained`). That the agent stays the first container is
  `UserConfigKept`'s argument.
* `ConfigAlwaysEnforced`, `FailuresExplained`, `CallsWork`: the three invariants of
  the run. The last assumes that the operator's CA is not a public root
  (`SecretsAssumption`): an agent that trusts only the CA would else reach hosts
  that are not intercepted.

Every invariant of the passing runs, every action property and both refinements
are proved. Only model-checked are the liveness properties, `ShutdownCompletes` and
`TeardownPropagates`, since TLAPS has no proof rules here for fairness and
`ENABLED`; and what the violating runs show, which is a counterexample each.
TLC checked each inductive invariant on the run of its component before it was
proved (`WebInv` with the sets of texts and containers made finite). A
theorem holds of the model: the abstractions below are its limits, and
in particular the counts and times are whole numbers of any size, and a list of
patterns that `parseAllowlist` is not defined for has some value it leaves open.

`AccountingExact` and `NeverOvercharged` are stated by theorems and by no run: TLC
checked the first without interruptions, the second with every gap open, before they
were proved.

## Where code and documentation disagree

Six runs show it, and `PROJECT.json` has the quotations. Their properties are the
documentation's, and the passing runs and the theorems leave out just what they show:

* `filesink_torn`: one file is one verifiable chain, also over interruptions;
* `proxy_mitm_budget`: no call is served once the budget is gone;
* `proxy_abort`: every decision leaves an event, and every call is charged;
* `proxy_redirect`: egress goes to allowlisted hosts;
* `proxy_terminator`: `engine_shutdown` ends the chain;
* `sidecar_promises`: the patch mounts what it says it does.

Others have no run of their own:

* the webhook's own default identity, `auto-injected/v1` (`cmd/aegrail-webhook/main.go:118`),
  is no label value (`values.yaml:189`, `CHANGELOG.md:496`): unlabelled pods are
  rejected where the chart does not set another. `RejectionsKnown` has it as its
  second reason;
* the relays of a tunnel have each other's counters (`connect.go:133-134`), so the
  event's `bytes_to_upstream` and `bytes_from_upstream` are swapped
  (`CHANGELOG.md:628-630`); and it may come before the goroutine has stored its own;
* a tunnel that is open at shutdown leaves no event, although `connect.go:16` has
  "egress_allowed on tunnel close (or shutdown)": `srv.Shutdown` does not wait for
  hijacked connections, and nothing closes them;
* metering (`UsageCharged`, with the gap opened): an origin-form request to Bedrock or
  Vertex is forwarded and not metered, because `Recognise` is given a URL without a
  host (`http.go:81`, against `http.go:155-157`, "We try both"); usage that comes with
  an error status is charged on the decrypted path (`mitm.go:217`) and not on the plain
  one (`http.go:101`). Streams are not metered either, as `CHANGELOG.md:324-331` says,
  and names of their own that Converse or `:predict` responses may have in the body are
  not read.

Two properties have an exception that contradicts nothing written: a pod given the
CA reaches no allowed host outside `MITMHosts` (`AllowedCallsWork`); a leaf for an IPv6
address names it as a DNS name, and no leaf outlives its CA (`LeafStaysValid`).

## Not modelled

Byte formats (canonical JSON, X.509, HTTP), glob matching, float64 rounding in
the limiter and the infinite or NaN counts `ParseFloat` accepts, command-line flags,
session identifiers, the stdout sink's own chain (the
file sink's without recovery and fsync), the webhook's TLS server and the
deployment files. `PROJECT.json` gives the reason for each.

## Plan

Done: the sink, the proxy with its handlers and lifecycle, the tunnel, limits,
leaves and metering over time, the webhook's patch and the pod it makes; the
theorems about all of them.
Next:

1. `Proxy` and `FileSink` composed, so that `EveryDecisionAudited` speaks of
   records in the file, with a sink that fails while the proxy goes on.
2. The order of `run()`'s last steps as an action property, with the events of
   handlers a drain has given up on.
