--------------------------- MODULE SidecarProofs ---------------------------
(***************************************************************************)
(* Proofs about Sidecar: what a booted engine makes of the variables the   *)
(* webhook gave it, and what it then does for the agent, for every         *)
(* configuration, pod and content of the Secret.                           *)
(***************************************************************************)
EXTENDS WebhookProofs

-----------------------------------------------------------------------------
(* What run() makes of a Config that came through the webhook.             *)

Conf ==
  [identity  |-> IF pod.identity = "" THEN "egress-proxy/v1" ELSE pod.identity,
   listen    |-> engineListenPort(cfg),
   allowlist |-> parseAllowlist(cfg.allowlist),
   counter   |-> ParseCap(cfg.maxRequests),
   limiter   |-> ParseRateSpec(Rates[cfg.rateLimit]),
   budget    |-> ParseCap(cfg.maxTokens),
   mitmHosts |-> parseAllowlist(IF cfg.mitmCASecret THEN cfg.mitmHosts ELSE "")]

\* A Config no engine starts with.
Unusable ==
  \/ parseAllowlist(cfg.allowlist) = {} \/ "[" \in parseAllowlist(cfg.allowlist)
  \/ cfg.auditMode = "file"
  \/ ~ ParseCap(cfg.maxRequests).ok \/ ~ ParseCap(cfg.maxTokens).ok
  \/ ~ ParseRateSpec(Rates[cfg.rateLimit]).ok

Intercepts == cfg.mitmCASecret /\ parseAllowlist(cfg.mitmHosts) # {}

\* Another container has the engine's port.
Contended ==
  \E i \in DOMAIN pod.containers :
    /\ pod.containers[i].name # EngineContainerName
    /\ pod.containers[i].port = engineListenPort(cfg)

-----------------------------------------------------------------------------
(* The inductive invariant.                                                *)

\* The first container is the agent's, and only a scheduled pod has processes.
Scheduled ==
  /\ 1 \in DOMAIN pod.containers
  /\ pod.containers[1].name # EngineContainerName
  /\ stage = "running" => Engines # {}
  /\ stage # "running" => engine = Waiting /\ agent = Waiting

\* The fields of each state of the engine's process.
EngineFields ==
  /\ engine.state \in {"waiting", "loading", "up", "failed"}
  /\ engine.state = "waiting" => engine = Waiting
  /\ {"state", "rotated"} \subseteq DOMAIN engine
  /\ engine.state = "loading" => "cert" \in DOMAIN engine
  /\ engine.state = "up" => {"conf", "cert", "key"} \subseteq DOMAIN engine

\* An engine that got past its configuration works with the webhook's, and
\* with the CA the Secret held then.
EngineLoaded ==
  /\ engine.state \in {"loading", "up"} => ~ Unusable
  /\ engine.state = "loading" =>
       Intercepts /\ (engine.rotated \/ engine.cert = secret.cert)
  /\ engine.state = "up" =>
       /\ engine.conf = Conf
       /\ Intercepts => \/ engine.rotated
                        \/ engine.cert = secret.cert /\ engine.key = secret.key

AgentTrusts ==
  /\ agent.state \in {"waiting", "up"}
  /\ agent.state = "waiting" => agent = Waiting
  /\ {"state", "rotated"} \subseteq DOMAIN agent
  /\ agent.state = "up" =>
       /\ "trusts" \in DOMAIN agent
       /\ \/ agent.rotated
          \/ agent.trusts = IF cfg.mitmCASecret THEN secret.cert ELSE "public"

\* Why an engine gave up.
FailureExplained ==
  engine.state = "failed" =>
    \/ Unusable
    \/ Intercepts /\ (engine.rotated \/ "malformed" \in {secret.cert, secret.key})
    \/ Contended

RunInv ==
  /\ Scheduled
  /\ EngineFields
  /\ EngineLoaded
  /\ FailureExplained
  /\ AgentTrusts
  /\ secret.cert # "public"

-----------------------------------------------------------------------------
(* The containers of a pod that runs.                                      *)

\* EngineContainer is the one the webhook built.
LEMMA TheEngine ==
  ASSUME WebInv, Engines # {}
  PROVE  cfg \in Configs /\ cfg \in ConfigType /\ pod.identity # "none"
         /\ Engines # {} /\ (\A e \in Engines : pod.containers[e] = EngineContainer)
         /\ EngineContainer = buildEngineContainer(cfg)
<1>1. WasInjected
  BY EngineAlone DEF WebInv
<1>2. PICK e \in DOMAIN pod.containers : InjectedAt(e)
  BY <1>1 DEF WasInjected
<1>3. Engines = {e}
  BY <1>2, EngineAlone
<1>4. (CHOOSE i \in Engines : TRUE) = e
  BY <1>3
<1> QED
  BY <1>1, <1>2, <1>3, <1>4 DEF EngineContainer, InjectedAt, WasInjected

\* The agent's container was there before the engine.
LEMMA TheAgent ==
  ASSUME WebInv, Engines # {}, Scheduled
  PROVE  /\ Env(pod.containers[1], "HTTP_PROXY") = engineListenPort(cfg)
         /\ Env(pod.containers[1], "HTTPS_PROXY") = engineListenPort(cfg)
         /\ ~ cfg.mitmCASecret => Env(pod.containers[1], "SSL_CERT_FILE") = ""
         /\ cfg.mitmCASecret => Env(pod.containers[1], "SSL_CERT_FILE") = "tls.crt"
<1>1. WasInjected
  BY EngineAlone DEF WebInv
<1>2. PICK e \in DOMAIN pod.containers : InjectedAt(e)
  BY <1>1 DEF WasInjected
<1>3. 1 # e
  BY <1>2 DEF InjectedAt, buildEngineContainer, Scheduled
<1>4. PICK n \in Nat : DOMAIN pod.containers = 1 .. n
  BY DEF WebInv, Pods
<1>5. 1 \in 1 .. e - 1
  BY <1>3, <1>4
<1>6. PICK x \in Containers : Bare(x) /\ pod.containers[1] = Proxied(x, cfg)
  BY <1>2, <1>5 DEF InjectedAt
<1>7. cfg \in ConfigType
  BY <1>1 DEF WasInjected
<1>8. Bare(x)
  BY <1>6
<1>9. /\ Env(Proxied(x, cfg), "HTTP_PROXY") = engineListenPort(cfg)
      /\ Env(Proxied(x, cfg), "HTTPS_PROXY") = engineListenPort(cfg)
      /\ ~ cfg.mitmCASecret => Env(Proxied(x, cfg), "SSL_CERT_FILE") = ""
      /\ cfg.mitmCASecret => Env(Proxied(x, cfg), "SSL_CERT_FILE") = "tls.crt"
  BY ONLY <1>7, <1>8, ProxiedSettings
<1> QED
  BY <1>6, <1>9

LEMMA NoPatterns == parseAllowlist("") = {}
BY DEF parseAllowlist

\* No volume to write to was given to the engine.
LEMMA SinkNeedsVolume ==
  ASSUME WebInv, Engines # {}
  PROVE  /\ openSinkFails <=> cfg.auditMode = "file"
         /\ cfg.auditMode = "file" => ~ AuditVolumeMounted
<1>1. cfg \in ConfigType /\ EngineContainer = buildEngineContainer(cfg)
  BY TheEngine
<1>2. EngineEnv("AUDIT_FILE") # "" <=> cfg.auditMode = "file"
  <2>1. Env(buildEngineContainer(cfg), "AUDIT_FILE") =
          IF cfg.auditMode = "file" THEN "/var/log/aegrail" ELSE ""
    BY <1>1, EngineSettings
  <2> QED
    BY <1>1, <2>1 DEF EngineEnv
<1>3. ~ Writable(EngineContainer)
  BY <1>1 DEF Writable, buildEngineContainer
<1>4. cfg.auditMode = "file" => ~ AuditVolumeMounted
  BY <1>2, <1>3, TheEngine DEF AuditVolumeMounted, EngineEnv
<1> QED
  BY <1>2, <1>3, <1>4 DEF openSinkFails

LEMMA ConfFromWebhook ==
  ASSUME WebInv, Engines # {}
  PROVE  EngineConf = Conf
<1>1. /\ cfg \in ConfigType /\ pod.identity # "none"
      /\ EngineContainer = buildEngineContainer(cfg)
  BY TheEngine
<1>2. /\ EngineEnv("ALLOWLIST") = cfg.allowlist
      /\ EngineEnv("AGENT_IDENTITY") = "label"
      /\ EngineEnv("LISTEN") = engineListenPort(cfg)
      /\ EngineEnv("MAX_REQUESTS") = cfg.maxRequests
      /\ EngineEnv("RATE_LIMIT") = cfg.rateLimit
      /\ EngineEnv("MAX_TOKENS") = cfg.maxTokens
      /\ EngineEnv("MITM_HOSTS") = IF cfg.mitmCASecret THEN cfg.mitmHosts ELSE ""
  BY <1>1, EngineSettings DEF EngineEnv
<1>3. engineListenPort(cfg) # ""
  BY <1>1 DEF engineListenPort, ConfigType
<1>4. AgentIdentity = IF pod.identity = "" THEN "egress-proxy/v1" ELSE pod.identity
  BY <1>1, <1>2 DEF AgentIdentity, envDefault
<1>5. envDefault(EngineEnv("LISTEN"), "8080") = engineListenPort(cfg)
  BY <1>2, <1>3 DEF envDefault
<1> QED
  BY <1>2, <1>4, <1>5 DEF EngineConf, Conf

LEMMA BootsAsWritten ==
  ASSUME WebInv, Engines # {}
  PROVE  /\ ConfFails(EngineConf) <=> Unusable
         /\ WantsMITM(EngineConf) <=> Intercepts
         /\ cfg.mitmCASecret => LoadsCA /\ CAVolume \in EngineContainer.mounts
<1>1. cfg \in ConfigType /\ EngineContainer = buildEngineContainer(cfg)
  BY TheEngine
<1>2. EngineConf = Conf
  BY ConfFromWebhook
<1>3. ConfFails(EngineConf) <=> Unusable
  BY <1>2, SinkNeedsVolume DEF ConfFails, NewPolicyFails, Conf, Unusable
<1>4. WantsMITM(EngineConf) <=> Intercepts
  BY <1>2, NoPatterns DEF WantsMITM, Conf, Intercepts
<1>5. ASSUME cfg.mitmCASecret PROVE LoadsCA
  BY <1>1, <1>5, EngineSettings DEF LoadsCA, EngineEnv
<1>6. ASSUME cfg.mitmCASecret PROVE CAVolume \in EngineContainer.mounts
  BY <1>1, <1>6 DEF buildEngineContainer
<1> QED
  BY <1>3, <1>4, <1>5, <1>6

-----------------------------------------------------------------------------
(* RunInv is inductive.                                                    *)

LEMMA SameConfig ==
  ASSUME UNCHANGED <<pod, cfg>>
  PROVE  /\ Conf' = Conf /\ Unusable' = Unusable /\ Intercepts' = Intercepts
         /\ Engines' = Engines /\ Contended' = Contended
BY DEF Conf, Unusable, Intercepts, Engines, Contended

LEMMA WaitingFields ==
  /\ Waiting.state = "waiting" /\ Waiting.rotated = FALSE
  /\ DOMAIN Waiting = {"state", "rotated"}
  /\ [Waiting EXCEPT !.rotated = FALSE] = Waiting
<1>1. Waiting.state = "waiting" /\ Waiting.rotated = FALSE
  BY DEF Waiting
<1>2. DOMAIN Waiting = {"state", "rotated"}
  BY DEF Waiting
<1>3. [Waiting EXCEPT !.rotated = FALSE] = Waiting
  <2> DEFINE w == [Waiting EXCEPT !.rotated = FALSE]
  <2>1. DOMAIN w = {"state", "rotated"} /\ w = [f \in DOMAIN w |-> w[f]]
    BY <1>2
  <2>2. w["state"] = "waiting" /\ w["rotated"] = FALSE
    BY <1>1, <1>2
  <2>3. Waiting = [f \in {"state", "rotated"} |-> Waiting[f]]
    BY DEF Waiting
  <2> HIDE DEF w
  <2>4. \A f \in {"state", "rotated"} : w[f] = Waiting[f]
    BY <1>1, <2>2
  <2>5. w = Waiting
    BY <2>1, <2>3, <2>4
  <2> QED
    BY <2>5 DEF w
<1> QED
  BY <1>1, <1>2, <1>3

\* While nothing runs there is little to say.
LEMMA NothingRuns ==
  (engine = Waiting /\ agent = Waiting /\ Scheduled /\ secret.cert # "public") => RunInv
BY WaitingFields DEF RunInv, EngineFields, EngineLoaded, FailureExplained, AgentTrusts

LEMMA NothingRunsNext ==
  ASSUME engine' = Waiting, agent' = Waiting, Scheduled', secret'.cert # "public"
  PROVE  RunInv'
BY WaitingFields DEF RunInv, EngineFields, EngineLoaded, FailureExplained, AgentTrusts

LEMMA RunInitially == Init => RunInv
<1> SUFFICES ASSUME Init PROVE RunInv
  OBVIOUS
<1>1. /\ pod \in UserPods /\ stage = "review" /\ secret.cert # "public"
      /\ engine = Waiting /\ agent = Waiting
  BY DEF Init, WebhookInit, NoSecret
<1>2. 1 \in DOMAIN pod.containers
  <2>1. PICK k \in 1 .. 2 : pod.containers \in [1 .. k -> UserContainers]
    BY <1>1 DEF UserPods
  <2> QED
    BY <2>1
<1>3. pod.containers[1].name # EngineContainerName
  BY <1>1, <1>2, UserPodsTyped DEF Bare
<1>4. Scheduled
  BY <1>1, <1>2, <1>3 DEF Scheduled
<1> QED
  BY <1>1, <1>4, NothingRuns

\* A review leaves the agent first.
LEMMA ReviewKeeps ==
  ASSUME WebInv, RunInv, stage = "review", stage' # "running", PodKept(pod, pod'),
         pod' \in Pods, UNCHANGED <<secret, engine, agent>>
  PROVE  RunInv'
<1>1. PICK n \in Nat : n = Len(pod.containers) /\ DOMAIN pod.containers = 1 .. n
  BY DEF WebInv, Pods
<1>2. PICK m \in Nat : m = Len(pod'.containers) /\ DOMAIN pod'.containers = 1 .. m
  BY DEF Pods
<1>3. n <= m /\ 1 \in 1 .. n
  BY <1>1, <1>2 DEF PodKept, RunInv, Scheduled
<1>4. 1 \in DOMAIN pod'.containers
  BY <1>2, <1>3
<1>5. pod'.containers[1].name = pod.containers[1].name
  BY <1>1, <1>3 DEF PodKept, ContainerKept
<1>6. engine' = Waiting /\ agent' = Waiting
  BY DEF RunInv, Scheduled
<1>7. Scheduled'
  BY <1>4, <1>5, <1>6 DEF RunInv, Scheduled, EngineContainerName, Waiting
<1> QED
  BY <1>6, <1>7, NothingRunsNext DEF RunInv

\* A step of the engine's process that keeps the engine's part.
LEMMA EngineStepKeeps ==
  ASSUME RunInv, stage = "running", UNCHANGED <<webhookVars, secret, agent>>,
         EngineFields', EngineLoaded', FailureExplained'
  PROVE  RunInv'
<1>1. UNCHANGED <<pod, cfg, stage, secret, agent>>
  BY DEF webhookVars
<1>2. Scheduled'
  BY <1>1, SameConfig DEF RunInv, Scheduled
<1>3. AgentTrusts'
  BY <1>1 DEF RunInv, AgentTrusts
<1> QED
  BY <1>1, <1>2, <1>3 DEF RunInv

LEMMA GaveUpFields ==
  /\ GaveUp.state = "failed" /\ GaveUp.rotated = engine.rotated
  /\ DOMAIN GaveUp = {"state", "rotated"}
BY DEF GaveUp

\* The engine exits with a reason.
LEMMA GivingUpKeeps ==
  ASSUME RunInv, stage = "running", UNCHANGED <<webhookVars, secret, agent>>,
         engine' = GaveUp,
         \/ Unusable
         \/ Intercepts /\ (engine.rotated \/ "malformed" \in {secret.cert, secret.key})
         \/ Contended
  PROVE  RunInv'
<1>1. UNCHANGED <<pod, cfg, secret>>
  BY DEF webhookVars
<1>2. /\ engine'.state = "failed" /\ engine'.rotated = engine.rotated
      /\ DOMAIN engine' = {"state", "rotated"}
  BY GaveUpFields
<1>3. EngineFields' /\ EngineLoaded'
  BY <1>2 DEF EngineFields, EngineLoaded
<1>4. FailureExplained'
  BY <1>1, <1>2, SameConfig DEF FailureExplained
<1> QED
  BY <1>3, <1>4, EngineStepKeeps

\* The engine listens, unless its port is taken.
LEMMA ServingKeeps ==
  ASSUME WebInv, RunInv, stage = "running", NEW cert, NEW key,
         UNCHANGED <<webhookVars, secret, agent>>,
         engine' \in Serving(EngineConf, cert, key), ~ Unusable,
         Intercepts => engine.rotated \/ (cert = secret.cert /\ key = secret.key)
  PROVE  RunInv'
<1>1. EngineConf = Conf
  BY ConfFromWebhook DEF RunInv, Scheduled
<1> DEFINE up == [state |-> "up", rotated |-> engine.rotated, conf |-> Conf,
                 cert |-> cert, key |-> key]
<1>0. PICK taken \in PortTaken(Conf) : engine' = IF taken THEN GaveUp ELSE up
  BY <1>1 DEF Serving
<1>2. CASE taken
  <2>1. \E i \in OnPort(Conf.listen) : i = 1 => agent.state = "up"
    BY <1>0, <1>2 DEF PortTaken
  <2>2. Contended
    BY <2>1 DEF OnPort, Conf, Contended, Engines
  <2>3. engine' = GaveUp
    BY <1>0, <1>2
  <2> QED
    BY <2>2, <2>3, GivingUpKeeps
<1>3. CASE ~ taken
  <2>1. engine' = up
    BY <1>0, <1>3
  <2>2. /\ engine'.state = "up" /\ engine'.rotated = engine.rotated
        /\ engine'.conf = Conf /\ engine'.cert = cert /\ engine'.key = key
        /\ {"state", "rotated", "conf", "cert", "key"} \subseteq DOMAIN engine'
    BY <2>1
  <2>3. UNCHANGED <<pod, cfg, secret>>
    BY DEF webhookVars
  <2>4. EngineFields' /\ FailureExplained'
    BY <2>2 DEF EngineFields, FailureExplained
  <2>5. EngineLoaded'
    BY <2>2, <2>3, SameConfig DEF EngineLoaded
  <2> QED
    BY <2>4, <2>5, EngineStepKeeps
<1> QED
  BY <1>2, <1>3

LEMMA BootKeeps ==
  ASSUME WebInv, RunInv, Boot
  PROVE  RunInv'
<1>1. /\ stage = "running" /\ UNCHANGED <<webhookVars, secret, agent>>
      /\ Engines # {} /\ engine = Waiting
  BY DEF Boot, RunInv, Scheduled, EngineFields
<1>2. ~ engine.rotated
  BY <1>1, WaitingFields
<1>3. CASE Unusable
  <2>1. engine' \in {GaveUp}
    BY <1>1, <1>3, BootsAsWritten DEF Boot
  <2> QED
    BY <1>1, <1>3, <2>1, GivingUpKeeps
<1>4. CASE ~ Unusable /\ ~ Intercepts
  <2>1. engine' \in Serving(EngineConf, "none", "none")
    BY <1>1, <1>4, BootsAsWritten DEF Boot
  <2> QED
    BY <1>1, <1>4, <2>1, ServingKeeps
<1>5. CASE ~ Unusable /\ Intercepts
  <2>1. engine' \in {[state |-> "loading", rotated |-> FALSE, cert |-> secret.cert]}
    BY <1>1, <1>5, BootsAsWritten DEF Boot, Intercepts
  <2>2. /\ engine'.state = "loading" /\ engine'.cert = secret.cert
        /\ {"state", "rotated", "cert"} \subseteq DOMAIN engine'
    BY <2>1
  <2>3. UNCHANGED <<pod, cfg, secret>>
    BY <1>1 DEF webhookVars
  <2>4. EngineFields' /\ FailureExplained'
    BY <2>2 DEF EngineFields, FailureExplained
  <2>5. EngineLoaded'
    BY <1>5, <2>2, <2>3, SameConfig DEF EngineLoaded
  <2> QED
    BY <1>1, <2>4, <2>5, EngineStepKeeps
<1> QED
  BY <1>3, <1>4, <1>5

LEMMA LoadKeyKeeps ==
  ASSUME WebInv, RunInv, LoadKey
  PROVE  RunInv'
<1>1. engine.state = "loading" /\ UNCHANGED <<webhookVars, secret, agent>>
  BY DEF LoadKey
<1>2. stage = "running"
  BY <1>1, WaitingFields DEF RunInv, Scheduled
<1>3. ~ Unusable /\ Intercepts /\ (engine.rotated \/ engine.cert = secret.cert)
  BY <1>1 DEF RunInv, EngineLoaded
<1>4. CASE "malformed" \in {engine.cert, secret.key}
  <2>1. engine' \in {GaveUp}
    BY <1>4 DEF LoadKey
  <2>2. engine.rotated \/ "malformed" \in {secret.cert, secret.key}
    BY <1>3, <1>4
  <2> QED
    BY <1>1, <1>2, <1>3, <2>1, <2>2, GivingUpKeeps
<1>5. CASE "malformed" \notin {engine.cert, secret.key}
  <2>1. engine' \in Serving(EngineConf, engine.cert, secret.key)
    BY <1>5 DEF LoadKey
  <2> QED
    BY <1>1, <1>2, <1>3, <2>1, ServingKeeps
<1> QED
  BY <1>4, <1>5

LEMMA RestartEngineKeeps ==
  ASSUME RunInv, RestartEngine
  PROVE  RunInv'
<1>1. /\ engine.state # "waiting" /\ engine' = Waiting
      /\ UNCHANGED <<webhookVars, secret, agent>>
  BY DEF RestartEngine
<1>2. stage = "running"
  BY <1>1, WaitingFields DEF RunInv, Scheduled
<1>3. EngineFields' /\ EngineLoaded' /\ FailureExplained'
  BY <1>1, WaitingFields DEF EngineFields, EngineLoaded, FailureExplained
<1> QED
  BY <1>1, <1>2, <1>3, EngineStepKeeps

\* A step of the agent's process.
LEMMA AgentStepKeeps ==
  ASSUME RunInv, stage = "running", UNCHANGED <<webhookVars, secret, engine>>,
         AgentTrusts'
  PROVE  RunInv'
<1>1. UNCHANGED <<pod, cfg, stage, secret, engine>>
  BY DEF webhookVars
<1>2. Scheduled' /\ EngineFields'
  BY <1>1, SameConfig DEF RunInv, Scheduled, EngineFields
<1>3. EngineLoaded' /\ FailureExplained'
  BY <1>1, SameConfig DEF RunInv, EngineLoaded, FailureExplained
<1> QED
  BY <1>1, <1>2, <1>3 DEF RunInv

LEMMA StartAgentKeeps ==
  ASSUME WebInv, RunInv, StartAgent
  PROVE  RunInv'
<1>1. stage = "running" /\ UNCHANGED <<webhookVars, secret, engine>>
  BY DEF StartAgent
<1>2. UNCHANGED <<cfg, secret>>
  BY <1>1 DEF webhookVars
<1>3. WebInv /\ Engines # {} /\ Scheduled
  BY <1>1 DEF RunInv, Scheduled
<1> DEFINE trusts == IF cfg.mitmCASecret THEN secret.cert ELSE "public"
<1>4. agent' = [state |-> "up", rotated |-> FALSE, trusts |-> trusts]
  <2>1. (Env(pod.containers[1], "SSL_CERT_FILE") = "") <=> ~ cfg.mitmCASecret
    BY <1>3, TheAgent
  <2> QED
    BY <2>1 DEF StartAgent
<1>5. /\ agent'.state = "up" /\ agent'.trusts = trusts
      /\ {"state", "rotated", "trusts"} \subseteq DOMAIN agent'
  BY <1>4
<1>6. AgentTrusts'
  BY <1>2, <1>5 DEF AgentTrusts
<1> QED
  BY <1>1, <1>6, AgentStepKeeps

LEMMA RestartAgentKeeps ==
  ASSUME RunInv, RestartAgent
  PROVE  RunInv'
<1>1. /\ agent.state = "up" /\ agent' = Waiting
      /\ UNCHANGED <<webhookVars, secret, engine>>
  BY DEF RestartAgent
<1>2. stage = "running"
  BY <1>1, WaitingFields DEF RunInv, Scheduled
<1>3. AgentTrusts'
  BY <1>1, WaitingFields DEF AgentTrusts
<1> QED
  BY <1>1, <1>2, <1>3, AgentStepKeeps

\* Each process that is there knows that its Secret has changed.
LEMMA RotateKeeps ==
  ASSUME RunInv, NEW s \in Secrets, RotateSecret(s)
  PROVE  RunInv'
<1>1. /\ UNCHANGED <<pod, cfg, stage>> /\ secret' = s
      /\ engine' = [engine EXCEPT !.rotated = engine.state # "waiting"]
      /\ agent' = [agent EXCEPT !.rotated = agent.state # "waiting"]
  BY DEF RotateSecret, webhookVars
<1>2. secret'.cert # "public"
  BY <1>1, SecretsAssumption
<1>3. /\ DOMAIN engine' = DOMAIN engine /\ DOMAIN agent' = DOMAIN agent
      /\ \A f \in DOMAIN engine : f # "rotated" => engine'[f] = engine[f]
      /\ \A f \in DOMAIN agent : f # "rotated" => agent'[f] = agent[f]
      /\ engine.state # "waiting" => engine'.rotated
      /\ agent.state # "waiting" => agent'.rotated
  BY <1>1 DEF RunInv, EngineFields, AgentTrusts
<1>4. engine.state = "waiting" => engine' = Waiting
  <2> SUFFICES ASSUME engine.state = "waiting" PROVE engine' = Waiting
    OBVIOUS
  <2>1. engine = Waiting
    BY DEF RunInv, EngineFields
  <2>2. (engine.state # "waiting") = FALSE
    OBVIOUS
  <2> QED
    BY <1>1, <2>1, <2>2, WaitingFields
<1>5. agent.state = "waiting" => agent' = Waiting
  <2> SUFFICES ASSUME agent.state = "waiting" PROVE agent' = Waiting
    OBVIOUS
  <2>1. agent = Waiting
    BY DEF RunInv, AgentTrusts
  <2>2. (agent.state # "waiting") = FALSE
    OBVIOUS
  <2> QED
    BY <1>1, <2>1, <2>2, WaitingFields
<1>6. engine'.state = engine.state /\ agent'.state = agent.state
  BY <1>3 DEF RunInv, EngineFields, AgentTrusts
<1>7. Scheduled'
  BY <1>1, <1>4, <1>5, WaitingFields, SameConfig DEF RunInv, Scheduled
<1>8. EngineFields'
  BY <1>3, <1>4, <1>6 DEF RunInv, EngineFields
<1>9. EngineLoaded'
  <2>1. engine.state = "up" => engine'.conf = engine.conf
    BY <1>3 DEF RunInv, EngineFields
  <2> QED
    BY <1>1, <1>3, <1>6, <2>1, SameConfig DEF RunInv, EngineLoaded
<1>10. FailureExplained'
  BY <1>1, <1>3, <1>6, SameConfig DEF RunInv, FailureExplained
<1>11. AgentTrusts'
  BY <1>3, <1>5, <1>6 DEF RunInv, AgentTrusts
<1> QED
  BY <1>2, <1>7, <1>8, <1>9, <1>10, <1>11 DEF RunInv

\* The pod goes from one stage to the next, with nothing running.
LEMMA StageKeeps ==
  ASSUME RunInv, UNCHANGED <<pod, secret>>, engine' = Waiting, agent' = Waiting,
         stage' = "running" => Engines # {}
  PROVE  RunInv'
<1>1. Engines' = Engines
  BY DEF Engines
<1>2. Scheduled'
  BY <1>1 DEF RunInv, Scheduled
<1> QED
  BY <1>2, NothingRunsNext DEF RunInv

LEMMA RunStep == WebInv /\ RunInv /\ [Next]_vars => RunInv'
<1> SUFFICES ASSUME WebInv, RunInv, [Next]_vars PROVE RunInv'
  OBVIOUS
<1>1. pod' \in Pods
  BY WebStep DEF WebInv
<1>2. ASSUME NEW c \in Configs, Mutate(c), UNCHANGED <<secret, engine, agent>>
      PROVE  RunInv'
  <2>1. stage = "review" /\ stage' # "running" /\ PodKept(pod, pod')
    BY <1>2, MutateAdds DEF Mutate
  <2> QED
    BY <1>1, <1>2, <2>1, ReviewKeeps
<1>3. CASE OtherWebhook /\ UNCHANGED <<secret, engine, agent>>
  <2>1. stage = "review" /\ stage' # "running" /\ PodKept(pod, pod')
    BY <1>3, OtherAdds DEF OtherWebhook
  <2> QED
    BY <1>1, <1>3, <2>1, ReviewKeeps
<1>4. CASE Admit /\ UNCHANGED <<secret, engine, agent>>
  BY <1>4, StageKeeps DEF Admit, RunInv, Scheduled
<1>5. CASE Resubmit /\ engine' = Waiting /\ agent' = Waiting /\ UNCHANGED secret
  BY <1>5, StageKeeps DEF Resubmit
<1>6. CASE Schedule
  BY <1>6, StageKeeps DEF Schedule, RunInv, Scheduled
<1>7. CASE UNCHANGED vars
  <2>1. UNCHANGED <<pod, cfg, stage, secret, engine, agent>>
    BY <1>7 DEF vars, webhookVars
  <2> QED
    BY <2>1, SameConfig
    DEF RunInv, Scheduled, EngineFields, EngineLoaded, FailureExplained, AgentTrusts
<1> QED
  BY <1>2, <1>3, <1>4, <1>5, <1>6, <1>7, BootKeeps, LoadKeyKeeps, RestartEngineKeeps,
     StartAgentKeeps, RestartAgentKeeps, RotateKeeps
  DEF Next

LEMMA RunAlways == Spec => [](WebInv /\ RunInv)
BY WebInitially, WebStep, RunInitially, RunStep, PTL DEF Spec

-----------------------------------------------------------------------------
(* What the invariant is for.                                              *)

LEMMA ConfFields ==
  /\ pod.identity # "" => Conf.identity = pod.identity
  /\ Conf.listen = engineListenPort(cfg)
  /\ Conf.allowlist = parseAllowlist(cfg.allowlist)
  /\ Conf.counter = ParseCap(cfg.maxRequests)
  /\ Conf.limiter = ParseRateSpec(Rates[cfg.rateLimit])
  /\ Conf.budget = ParseCap(cfg.maxTokens)
  /\ cfg.mitmCASecret => Conf.mitmHosts = parseAllowlist(cfg.mitmHosts)
  /\ ~ cfg.mitmCASecret => Conf.mitmHosts = {}
<1>1. parseAllowlist("") = {}
  BY NoPatterns
<1> QED
  BY <1>1 DEF Conf

\* run() reads a cap as CapObeys does, or not at all.
LEMMA CapRead ==
  ASSUME NEW text, ParseCap(text).ok
  PROVE  CapObeys(text, ParseCap(text))
<1>1. CASE text \in Blank
  BY <1>1, TextsAssumption DEF ParseCap, Cap, CapObeys
<1>2. CASE text \notin Blank /\ text \notin DOMAIN Numbers
  BY <1>2 DEF ParseCap, Cap
<1>3. CASE text \notin Blank /\ text \in DOMAIN Numbers
  BY <1>3, TextsAssumption DEF ParseCap, Cap, CapObeys
<1> QED
  BY <1>1, <1>2, <1>3

LEMMA CapRefused ==
  ASSUME NEW text
  PROVE  ~ ParseCap(text).ok <=> text \notin DOMAIN Numbers \cup Blank
BY TextsAssumption DEF ParseCap, Cap

\* The same of a rate.
LEMMA RateRead ==
  ASSUME NEW text \in DOMAIN Rates, ParseRateSpec(Rates[text]).ok
  PROVE  RateObeys(text, ParseRateSpec(Rates[text]).limit)
<1> DEFINE r == Rates[text]
<1>1. r.count \in Int /\ (r.form = "empty" <=> text \in Blank)
  BY TextsAssumption
<1>2. CASE text \in Blank
  BY <1>1, <1>2 DEF ParseRateSpec, Accepted, RateObeys
<1>3. CASE text \notin Blank
  <2> DEFINE rate == r.count \div Period[r.unit]
  <2>1. /\ r.count > 0 /\ r.unit \in DOMAIN Period /\ rate # 0
        /\ ParseRateSpec(r).limit = NewRateLimiter(rate, r.count)
    BY <1>1, <1>3 DEF ParseRateSpec, Accepted, Rejected
  <2>2. rate \in Nat
    BY <1>1, <2>1 DEF Period
  <2> HIDE DEF rate, r
  <2>3. ParseRateSpec(r).limit = [rate |-> rate, burst |-> r.count] /\ rate > 0
    BY <1>1, <2>1, <2>2 DEF NewRateLimiter
  <2> QED
    BY <1>3, <2>1, <2>3 DEF RateObeys, r, rate
<1> QED
  BY <1>2, <1>3

(***************************************************************************)
(* A running engine enforces what the operator wrote on the webhook, for   *)
(* every text, every pod and every order of reviews, restarts and changes  *)
(* of the Secret: a cap is the number in its text unless that is zero or   *)
(* less, a rate the one in its text unless that is blank.                  *)
(***************************************************************************)
THEOREM ConfigAlwaysEnforced == Spec => []ConfigEnforced
<1>1. ASSUME WebInv, RunInv PROVE ConfigEnforced
  <2> SUFFICES ASSUME engine.state = "up"
               PROVE  /\ engine.conf.allowlist = parseAllowlist(cfg.allowlist)
                      /\ engine.conf.allowlist \notin SUBSET {"["}
                      /\ CapObeys(cfg.maxRequests, engine.conf.counter)
                      /\ CapObeys(cfg.maxTokens, engine.conf.budget)
                      /\ RateObeys(cfg.rateLimit, engine.conf.limiter.limit)
                      /\ pod.identity # "" => engine.conf.identity = pod.identity
    BY DEF ConfigEnforced
  <2>1. engine.conf = Conf /\ ~ Unusable
    BY <1>1 DEF RunInv, EngineLoaded
  <2>2. Engines # {}
    BY <1>1, WaitingFields DEF RunInv, Scheduled
  <2>3. cfg.rateLimit \in DOMAIN Rates
    BY <1>1, <2>2, TheEngine, TextsAssumption
  <2>4. /\ CapObeys(cfg.maxRequests, Conf.counter)
        /\ CapObeys(cfg.maxTokens, Conf.budget)
    BY <2>1, ConfFields, CapRead DEF Unusable
  <2>5. RateObeys(cfg.rateLimit, Conf.limiter.limit)
    BY <2>1, <2>3, ConfFields, RateRead DEF Unusable
  <2> QED
    BY <2>1, <2>4, <2>5, ConfFields DEF Unusable
<1> QED
  BY <1>1, RunAlways, PTL

(***************************************************************************)
(* An engine the webhook injected gives up only for what the operator      *)
(* wrote, for want of a volume to write to, for a malformed CA it was to   *)
(* load, or for another container on its port.                             *)
(***************************************************************************)
THEOREM FailuresExplained == Spec => []EngineStarts
<1>1. ASSUME WebInv, RunInv PROVE EngineStarts
  <2> SUFFICES ASSUME engine.state = "failed" PROVE EngineStarts
    BY DEF EngineStarts
  <2>1. Engines # {}
    BY <1>1, WaitingFields DEF RunInv, Scheduled
  <2>2. cfg.auditMode = "file" => ~ AuditVolumeMounted
    BY <1>1, <2>1, SinkNeedsVolume
  <2>3. \A text \in {cfg.maxRequests, cfg.maxTokens} :
          ~ ParseCap(text).ok => text \notin DOMAIN Numbers \cup Blank
    BY CapRefused
  <2>4. \/ Unusable
        \/ Intercepts /\ (engine.rotated \/ "malformed" \in {secret.cert, secret.key})
        \/ Contended
    BY <1>1 DEF RunInv, FailureExplained
  <2> QED
    BY <2>2, <2>3, <2>4 DEF Unusable, Intercepts, Contended, EngineStarts
<1> QED
  BY <1>1, RunAlways, PTL

(***************************************************************************)
(* The agent's trust and its engine's interception fit: with a Secret that *)
(* holds a pair and that neither process has seen change, HTTPS to an      *)
(* allowed host works if and only if the agent's trust was left alone or   *)
(* the host is intercepted, and plain HTTP but for the engine's paths.     *)
(***************************************************************************)
THEOREM CallsWork == Spec => []AllowedCallsWork
<1>1. ASSUME WebInv, RunInv, engine.state = "up", agent.state = "up",
             ~ engine.rotated, ~ agent.rotated,
             cfg.mitmCASecret => secret.cert = secret.key, NEW h \in Hosts
      PROVE  LET allowed == MatchesAny(parseAllowlist(cfg.allowlist), h)
                 intercepted == MatchesAny(parseAllowlist(cfg.mitmHosts), h)
             IN  /\ HTTPSCall(h) = "upstream"
                      <=> allowed /\ (cfg.mitmCASecret => intercepted)
                 /\ \A path \in {"/v1", "/healthz", "/readyz", "//v1"} :
                      PlainCall(h, path) = "upstream" <=> allowed /\ path = "/v1"
  <2> DEFINE allowed == MatchesAny(parseAllowlist(cfg.allowlist), h)
             intercepted == MatchesAny(parseAllowlist(cfg.mitmHosts), h)
  <2>1. Engines # {} /\ Scheduled
    BY <1>1, WaitingFields DEF RunInv, Scheduled
  <2>2. /\ engine.conf = Conf
        /\ Intercepts => engine.cert = secret.cert /\ engine.key = secret.key
        /\ agent.trusts = IF cfg.mitmCASecret THEN secret.cert ELSE "public"
        /\ secret.cert # "public"
    BY <1>1 DEF RunInv, EngineLoaded, AgentTrusts
  <2>3. Reaches("HTTP_PROXY") /\ Reaches("HTTPS_PROXY")
    BY <1>1, <2>1, <2>2, TheAgent, ConfFields DEF Reaches
  <2>4. MatchesAny(engine.conf.allowlist, h) <=> allowed
    BY <2>2, ConfFields
  <2>5. (Shown(h) = agent.trusts) <=> (cfg.mitmCASecret => intercepted)
    <3>1. CASE ~ cfg.mitmCASecret
      <4>1. engine.conf.mitmHosts = {}
        BY <2>2, <3>1, ConfFields
      <4>2. Shown(h) = "public"
        BY <4>1 DEF Shown, MatchesAny
      <4> QED
        BY <2>2, <3>1, <4>2
    <3>2. CASE cfg.mitmCASecret /\ ~ intercepted
      <4>1. engine.conf.mitmHosts = parseAllowlist(cfg.mitmHosts)
        BY <2>2, <3>2, ConfFields
      <4>2. Shown(h) = "public"
        BY <3>2, <4>1 DEF Shown
      <4> QED
        BY <2>2, <3>2, <4>2
    <3>3. CASE cfg.mitmCASecret /\ intercepted
      <4>1. engine.conf.mitmHosts = parseAllowlist(cfg.mitmHosts)
        BY <2>2, <3>3, ConfFields
      <4>2. Intercepts
        BY <3>3 DEF Intercepts, MatchesAny
      <4>3. engine.cert = secret.cert /\ engine.key = secret.cert
        BY <1>1, <2>2, <3>3, <4>2
      <4>4. Shown(h) = secret.cert
        BY <3>3, <4>1, <4>3 DEF Shown
      <4> QED
        BY <2>2, <3>3, <4>4
    <3> QED
      BY <3>1, <3>2, <3>3
  <2>6. (HTTPSCall(h) = "upstream") <=> (allowed /\ (cfg.mitmCASecret => intercepted))
    <3> HIDE DEF allowed, intercepted
    <3>1. Route("CONNECT", "") = "proxy"
      BY DEF Route
    <3> QED
      BY <2>3, <2>4, <2>5, <3>1 DEF HTTPSCall
  <2>7. \A path \in {"/v1", "/healthz", "/readyz", "//v1"} :
          (PlainCall(h, path) = "upstream") <=> (allowed /\ path = "/v1")
    <3> HIDE DEF allowed
    <3>1. /\ Route("GET", "/v1") = "proxy" /\ Route("GET", "/healthz") = "engine"
          /\ Route("GET", "/readyz") = "engine" /\ Route("GET", "//v1") = "redirect"
      BY DEF Route
    <3> QED
      BY <2>3, <2>4, <3>1 DEF PlainCall
  <2> QED
    BY <2>6, <2>7
<1>2. ASSUME WebInv, RunInv PROVE AllowedCallsWork
  BY <1>1, <1>2 DEF AllowedCallsWork
<1> QED
  BY <1>2, RunAlways, PTL
=============================================================================
