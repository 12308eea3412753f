------------------------------ MODULE Sidecar ------------------------------
(***************************************************************************)
(* An injected pod at run time.  The kubelet starts its containers from    *)
(* what the patch put there; the engine boots (run() of cmd/aegrail-engine) *)
(* or gives up and is restarted; the agent loads its trust; the operator   *)
(* may replace the Secret that holds the CA, and the mounted files follow. *)
(*                                                                         *)
(* agent is the first container of the pod.  What a request meets once the *)
(* proxy has it is in Proxy, and the life of its leaf in Gateway.          *)
(***************************************************************************)
EXTENDS Webhook, RateSpec

CONSTANTS Secrets,   \* contents of the CA's Secret, as [cert, key]
          Hosts,     \* destinations of the agent's calls
          Numbers,   \* the texts strconv.ParseInt reads, and what each is
          Rates      \* the texts of rates, and what RateSpec tells apart of each

Blank == {"", " "}

\* "public" is what the upstreams' own certificates lead to, which the
\* operator's CA is not.
ASSUME SecretsAssumption == \A s \in Secrets : s.cert # "public"

ASSUME TextsAssumption ==
  /\ \A text \in DOMAIN Numbers : text \notin Blank /\ Numbers[text] \in Int
  /\ \A text \in DOMAIN Rates :
       /\ Rates[text].count \in Int
       /\ Rates[text].form = "empty" <=> text \in Blank
  /\ \A c \in Configs : c.rateLimit \in DOMAIN Rates

VARIABLES secret,   \* the Secret, or NoSecret
          engine,   \* the engine's process
          agent     \* the agent's process

vars == <<webhookVars, secret, engine, agent>>

NoSecret == [cert |-> "none", key |-> "none"]

\* rotated: the Secret has changed since the process began.
Waiting == [state |-> "waiting", rotated |-> FALSE]

Init ==
  /\ WebhookInit
  /\ secret = NoSecret
  /\ engine = Waiting /\ agent = Waiting

-----------------------------------------------------------------------------
(* What run() makes of the environment.                                    *)

EngineContainer == pod.containers[CHOOSE e \in Engines : TRUE]

EngineEnv(name) == Env(EngineContainer, name)

envDefault(value, fallback) == IF value = "" THEN fallback ELSE value

\* The patterns of a comma-separated list.  "[" is no pattern to path.Match,
\* and any other matches the host it is named after.
parseAllowlist(text) ==
  CASE text \in {"", ","} -> {}
    [] text = "llm"       -> {"llm"}
    [] text = "llm,web"   -> {"llm", "web"}
    [] text = "llm,["     -> {"llm", "["}

NewPolicyFails(patterns) == "[" \in patterns

MatchesAny(patterns, host) == host \in patterns \ {"["}

\* The cap of a RequestCounter or TokenBudget, 0 for the nil one, which limits
\* nothing: run() makes one only of a number above zero.
Cap(ok, max) == [ok |-> ok, max |-> max]

ParseCap(text) ==
  IF text \in Blank THEN Cap(TRUE, 0)
  ELSE IF text \notin DOMAIN Numbers THEN Cap(FALSE, 0)
  ELSE Cap(TRUE, IF Numbers[text] > 0 THEN Numbers[text] ELSE 0)

\* NewFileSink makes the directory and opens the file for writing.
Writable(container) == container.mounts \ {CAVolume} # {}

openSinkFails ==
  /\ EngineEnv("AUDIT_FILE") # ""
  /\ EngineEnv("AUDIT_STDOUT") = "1" \/ ~ Writable(EngineContainer)

\* The value of the pod's label, through the downward API.
AgentIdentity ==
  envDefault(IF EngineEnv("AGENT_IDENTITY") = "label" /\ pod.identity # "none"
             THEN pod.identity ELSE "", "egress-proxy/v1")

\* What a booted engine works with.
EngineConf ==
  [identity  |-> AgentIdentity,
   listen    |-> envDefault(EngineEnv("LISTEN"), "8080"),
   allowlist |-> parseAllowlist(EngineEnv("ALLOWLIST")),
   counter   |-> ParseCap(EngineEnv("MAX_REQUESTS")),
   limiter   |-> ParseRateSpec(Rates[EngineEnv("RATE_LIMIT")]),
   budget    |-> ParseCap(EngineEnv("MAX_TOKENS")),
   mitmHosts |-> parseAllowlist(EngineEnv("MITM_HOSTS"))]

\* run() returns an error before it comes to the CA.
ConfFails(conf) ==
  \/ conf.allowlist = {} \/ NewPolicyFails(conf.allowlist)
  \/ openSinkFails
  \/ ~ conf.counter.ok \/ ~ conf.limiter.ok \/ ~ conf.budget.ok

WantsMITMAlways(conf) == EngineEnv("MITM_CA_CERT_FILE") # ""

\* buildMITMConfig; without hosts it never looks at the CA.
WantsMITM(conf) == conf.mitmHosts # {}

\* A CA is loaded if both paths are given, and made otherwise.
LoadsCA ==
  EngineEnv("MITM_CA_CERT_FILE") # "" /\ EngineEnv("MITM_CA_KEY_FILE") # ""

\* main() logs the error and exits.
GaveUp == [state |-> "failed", rotated |-> engine.rotated]

\* The containers of a pod share their ports.
OnPort(port) ==
  {i \in DOMAIN pod.containers \ Engines : pod.containers[i].port = port}

\* ListenAndServe may find the port taken: by the agent if that is up, or by
\* another container, which may be up by then or not.
PortTaken(conf) ==
  {taken \in BOOLEAN :
     IF taken THEN \E i \in OnPort(conf.listen) : i = 1 => agent.state = "up"
              ELSE ~ (1 \in OnPort(conf.listen) /\ agent.state = "up")}

\* What may become of the engine when it listens; log.Fatalf ends it if it
\* cannot.
Serving(conf, cert, key) ==
  {IF taken THEN GaveUp
   ELSE [state |-> "up", rotated |-> engine.rotated, conf |-> conf,
         cert |-> cert, key |-> key] : taken \in PortTaken(conf)}

-----------------------------------------------------------------------------
(* The kubelet (external) starts the pod once its volumes are there.       *)
Schedule ==
  /\ stage = "admitted"
  /\ Engines # {}
  /\ CAVolume \in pod.volumes => secret # NoSecret
  /\ stage' = "running"
  /\ UNCHANGED <<pod, cfg, secret, engine, agent>>

\* run(), up to the first of the two files LoadAuthority reads.
Boot ==
  /\ stage = "running"
  /\ engine.state = "waiting"
  /\ engine' \in
       IF ConfFails(EngineConf) THEN {GaveUp}
       ELSE IF ~ WantsMITM(EngineConf) THEN Serving(EngineConf, "none", "none")
       ELSE IF ~ LoadsCA THEN Serving(EngineConf, "own", "own")
       ELSE IF CAVolume \notin EngineContainer.mounts THEN {GaveUp}
       ELSE {[state |-> "loading", rotated |-> FALSE, cert |-> secret.cert]}
  /\ UNCHANGED <<webhookVars, secret, agent>>

\* The rest of LoadAuthority, which does not compare the two, and of run().
LoadKey ==
  /\ engine.state = "loading"
  /\ engine' \in
       IF "malformed" \in {engine.cert, secret.key} THEN {GaveUp}
       ELSE Serving(EngineConf, engine.cert, secret.key)
  /\ UNCHANGED <<webhookVars, secret, agent>>

\* The kubelet tries again, or the engine was killed.
RestartEngine ==
  /\ engine.state # "waiting"
  /\ engine' = Waiting
  /\ UNCHANGED <<webhookVars, secret, agent>>

\* The agent's TLS library reads SSL_CERT_FILE, in place of the system's roots,
\* when the process starts (external).
StartAgent ==
  /\ stage = "running"
  /\ agent.state = "waiting"
  /\ ~ (engine.state = "up" /\ pod.containers[1].port = engine.conf.listen)
  /\ agent' = [state |-> "up", rotated |-> FALSE,
               trusts |-> IF Env(pod.containers[1], "SSL_CERT_FILE") = ""
                          THEN "public" ELSE secret.cert]
  /\ UNCHANGED <<webhookVars, secret, engine>>

RestartAgent ==
  /\ agent.state = "up"
  /\ agent' = Waiting
  /\ UNCHANGED <<webhookVars, secret, engine>>

\* The operator makes or replaces the Secret of the namespace.
RotateSecret(s) ==
  /\ stage \in {"admitted", "running"} /\ CAVolume \in pod.volumes
  /\ s # secret
  /\ secret' = s
  /\ engine' = [engine EXCEPT !.rotated = engine.state # "waiting"]
  /\ agent' = [agent EXCEPT !.rotated = agent.state # "waiting"]
  /\ UNCHANGED webhookVars

Next ==
  \/ \E c \in Configs : Mutate(c) /\ UNCHANGED <<secret, engine, agent>>
  \/ OtherWebhook /\ UNCHANGED <<secret, engine, agent>>
  \/ Admit /\ UNCHANGED <<secret, engine, agent>>
  \/ Resubmit /\ engine' = Waiting /\ agent' = Waiting /\ UNCHANGED secret
  \/ Schedule \/ Boot \/ LoadKey \/ RestartEngine
  \/ StartAgent \/ RestartAgent
  \/ \E s \in Secrets : RotateSecret(s)

Spec == Init /\ [][Next]_vars

-----------------------------------------------------------------------------
(* What a call of the agent meets.                                         *)

\* The root handler; the mux knows the engine's own paths for any host, and
\* sends the client of an unclean path to the clean one.
Route(method, path) ==
  IF method = "CONNECT"                 THEN "proxy"
  ELSE IF path \in {"/healthz", "/readyz"} THEN "engine"
  ELSE IF path = "//v1"                  THEN "redirect"
  ELSE "proxy"

\* The agent's proxy variable leads to a listening engine.
Reaches(var) ==
  engine.state = "up" /\ Env(pod.containers[1], var) = engine.conf.listen

PlainCall(host, path) ==
  IF ~ Reaches("HTTP_PROXY") THEN "refused"
  ELSE IF Route("GET", path) # "proxy" THEN Route("GET", path)
  ELSE IF MatchesAny(engine.conf.allowlist, host) THEN "upstream"
  ELSE "denied"

\* The certificate the agent is shown: a leaf if the engine's key can sign for
\* its certificate, or the upstream's.
Shown(host) ==
  IF MatchesAny(engine.conf.mitmHosts, host)
  THEN IF engine.cert = engine.key THEN engine.cert ELSE "no leaf"
  ELSE "public"

HTTPSCall(host) ==
  IF ~ Reaches("HTTPS_PROXY") THEN "refused"
  ELSE IF Route("CONNECT", "") # "proxy" THEN Route("CONNECT", "")
  ELSE IF ~ MatchesAny(engine.conf.allowlist, host) THEN "denied"
  ELSE IF Shown(host) = agent.trusts THEN "upstream" ELSE "untrusted"

-----------------------------------------------------------------------------
(***************************************************************************)
(* mutator.go:392-396: an agent's trust and its engine's interception fit. *)
(* As long as the Secret holds a pair and neither process has lived        *)
(* through a change of it, HTTPS to an allowed host works if the agent's   *)
(* trust was left alone or the host is intercepted, and only then: a pod   *)
(* given the CA cannot reach hosts that are allowed but not in MITMHosts,  *)
(* be it for a malformed pattern, which nothing reports (mitm.go:66).      *)
(* Plain HTTP works but for the engine's own paths and unclean ones.  The  *)
(* agent's TLS is one that SSL_CERT_FILE or REQUESTS_CA_BUNDLE speaks to;  *)
(* Node adds the CA to the system's roots (CHANGELOG.md:137) and reaches   *)
(* every allowed host.                                                     *)
(***************************************************************************)
AllowedCallsWork ==
  (/\ engine.state = "up" /\ agent.state = "up"
   /\ ~ engine.rotated /\ ~ agent.rotated
   /\ cfg.mitmCASecret => secret.cert = secret.key) =>
    \A h \in Hosts :
      LET allowed == MatchesAny(parseAllowlist(cfg.allowlist), h)
          intercepted == MatchesAny(parseAllowlist(cfg.mitmHosts), h)
      IN  /\ HTTPSCall(h) = "upstream"
               <=> allowed /\ (cfg.mitmCASecret => intercepted)
          /\ \A path \in {"/v1", "/healthz", "/readyz", "//v1"} :
               PlainCall(h, path) = "upstream" <=> allowed /\ path = "/v1"

\* An engine's cap, against the text it was to come from.
CapObeys(text, cap) ==
  IF text \in DOMAIN Numbers /\ Numbers[text] > 0 THEN cap.max = Numbers[text]
  ELSE cap.max = 0 /\ (text \in Blank \/ text \in DOMAIN Numbers)

\* A limiter, against its text: the count is its burst, refilled in a period.
RateObeys(text, l) ==
  IF text \in Blank THEN l = Unlimited
  ELSE /\ l.burst = Rates[text].count /\ l.burst > 0
       /\ Rates[text].unit \in DOMAIN Period
       /\ l.rate = Rates[text].count \div Period[Rates[text].unit] /\ l.rate > 0

(***************************************************************************)
(* What the operator wrote on the webhook is what a running engine         *)
(* enforces, however the pod came to be patched: the allowlist, and each   *)
(* cap that is a number above zero (limits.go:41-42, "A max of 0 (or       *)
(* negative)" is no limit) and the rate, for the identity on the pod.  No  *)
(* other text than a blank one lifts them: with one that cannot be read    *)
(* there is no running engine.                                             *)
(***************************************************************************)
ConfigEnforced ==
  engine.state = "up" =>
    /\ engine.conf.allowlist = parseAllowlist(cfg.allowlist)
    /\ engine.conf.allowlist \notin SUBSET {"["}
    /\ CapObeys(cfg.maxRequests, engine.conf.counter)
    /\ CapObeys(cfg.maxTokens, engine.conf.budget)
    /\ RateObeys(cfg.rateLimit, engine.conf.limiter.limit)
    /\ pod.identity # "" => engine.conf.identity = pod.identity

\* An engine that is told to write a file has a volume for it.
AuditVolumeMounted ==
  \A e \in Engines :
    Env(pod.containers[e], "AUDIT_FILE") # "" => Writable(pod.containers[e])

(***************************************************************************)
(* mutator.go:5-14 says of the patch that "for each pod" it adds the       *)
(* engine, "an audit volume mount if file-sink mode is configured" and the *)
(* identity label, and CHANGELOG.md:126-127 that it adds the CA's mount to *)
(* "every user container": no pod is rejected for it, and an engine told   *)
(* to write a file can.                                                    *)
(***************************************************************************)
PatchDelivers == stage # "rejected" /\ AuditVolumeMounted

(***************************************************************************)
(* The webhook checks nothing of what it passes on, so some pods get an    *)
(* engine that cannot start.  Only these: no allowlist, a malformed        *)
(* pattern, cap or rate, a malformed CA for hosts to intercept, any other  *)
(* container on its port, or a file to write without a volume, which is    *)
(* the webhook's own doing (PatchDelivers).                                *)
(***************************************************************************)
EngineStarts ==
  engine.state = "failed" =>
    \/ parseAllowlist(cfg.allowlist) = {} \/ "[" \in parseAllowlist(cfg.allowlist)
    \/ ~ AuditVolumeMounted
    \/ \E text \in {cfg.maxRequests, cfg.maxTokens} :
         text \notin DOMAIN Numbers \cup Blank
    \/ ~ ParseRateSpec(Rates[cfg.rateLimit]).ok
    \/ /\ cfg.mitmCASecret /\ parseAllowlist(cfg.mitmHosts) # {}
       /\ engine.rotated \/ "malformed" \in {secret.cert, secret.key}
    \/ \E i \in DOMAIN pod.containers :
         /\ pod.containers[i].name # EngineContainerName
         /\ pod.containers[i].port = engineListenPort(cfg)
=============================================================================
