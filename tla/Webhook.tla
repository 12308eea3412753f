------------------------------ MODULE Webhook ------------------------------
(***************************************************************************)
(* The sidecar injection of internal/webhook/mutator.go and                *)
(* cmd/aegrail-webhook: the API server shows a pod to the webhook, which   *)
(* answers with a JSON Patch, and applies the patch.  It may ask again for *)
(* the same pod (another webhook changed it, or its manifest is submitted  *)
(* once more), and it goes on without the webhook if that fails.           *)
(*                                                                         *)
(* A pod keeps what the patch reads or writes.  An array or map that is    *)
(* empty is absent, as the API server encodes it, and an "add" below an    *)
(* absent parent fails the whole patch (RFC 6902).                         *)
(***************************************************************************)
EXTENDS Naturals, Sequences, FiniteSets, SequencesExt

CONSTANTS Configs,         \* what the webhook may be configured with
          MaxContainers    \* bound: containers of a pod, the sidecar included

ASSUME ContainersAssumption == MaxContainers \in Nat \ {0}

VARIABLES pod,     \* the pod as the API server has it
          cfg,     \* the Config of the webhook that patched it, or NoConfig
          stage    \* "review": before admission; "admitted"; "rejected";
                   \* "running" (in Sidecar)

webhookVars == <<pod, cfg, stage>>

EngineContainerName == "aegrail-engine"
CAVolume == "aegrail-mitm-ca"

\* A Config, from the webhook's environment; texts are as the operator wrote
\* them, the paths of the CA's files always have their default, and the default
\* identity is the code's or the chart's, for any with a slash and without.
ConfigType ==
  [allowlist : STRING, auditMode : {"stdout", "file"}, maxRequests : STRING,
   rateLimit : STRING, maxTokens : STRING, listenPort : {"unset", "9090"},
   mitmCASecret : BOOLEAN, mitmHosts : STRING,
   defaultIdentity : {"auto-injected/v1", "auto-injected-v1"}]

\* The Config of a webhook whose environment sets none of it.
DefaultConfig ==
  [allowlist |-> "", auditMode |-> "stdout", maxRequests |-> "",
   rateLimit |-> "", maxTokens |-> "", listenPort |-> "unset",
   mitmCASecret |-> FALSE, mitmHosts |-> "",
   defaultIdentity |-> "auto-injected/v1"]

ASSUME ConfigsAssumption == \A c \in Configs : c \in ConfigType

NoConfig == [mitmCASecret |-> FALSE]

Var(name, value) == [name |-> name, value |-> value]

\* The author's containers: one may have a proxy of its own, mount a volume,
\* or listen on the engine's default port.
UserContainers ==
  [name : {"agent"}, env : {<<>>, <<Var("HTTP_PROXY", "theirs")>>},
   mounts : {{}, {"token"}}, port : {"none"}]
  \cup [name : {"agent"}, env : {<<>>}, mounts : {{"token"}}, port : {"8080"}]

\* A pod as its author submits it.  identity is the aegrail.io/identity label
\* ("none": not there; it may be empty), labels the others.
UserPods ==
  {p \in [identity : {"none", "", "theirs"}, labels : {{}, {"app"}},
          containers : UNION {[1 .. k -> UserContainers] : k \in 1 .. 2},
          volumes : {{}, {"token"}}] :
     /\ \A i \in DOMAIN p.containers : p.containers[i].mounts \subseteq p.volumes
     /\ p.identity # "none" => p.labels = {}}

WebhookInit == pod \in UserPods /\ cfg = NoConfig /\ stage = "review"

-----------------------------------------------------------------------------
(* BuildPatch: the operations, in the order they are sent.                 *)

Op(path, at, value) == [path |-> path, at |-> at, value |-> value]

NeverInjected(p) == FALSE

alreadyInjected(p) ==
  \E i \in DOMAIN p.containers : p.containers[i].name = EngineContainerName

\* metadata.labels is nil.
NoLabels(p) == p.identity = "none" /\ p.labels = {}

LabelOpsAssumed(p, c) ==
  IF p.identity = "none" THEN <<Op("labels/identity", 0, c.defaultIdentity)>> ELSE <<>>

LabelOpsWhenNil(p, c) ==
  IF NoLabels(p) THEN <<Op("labels", 0, c.defaultIdentity)>> ELSE <<>>

LabelOps(p, c) ==
  IF NoLabels(p) THEN <<Op("labels", 0, c.defaultIdentity)>>
  ELSE IF p.identity = "none" THEN <<Op("labels/identity", 0, c.defaultIdentity)>>
  ELSE <<>>

engineListenPort(c) == IF c.listenPort = "unset" THEN "8080" ELSE c.listenPort

proxyEnv(c) ==
  <<Var("HTTP_PROXY", engineListenPort(c)),
    Var("HTTPS_PROXY", engineListenPort(c)),
    Var("NO_PROXY", "local")>>
  \o IF c.mitmCASecret
     THEN <<Var("SSL_CERT_FILE", "tls.crt"),
            Var("REQUESTS_CA_BUNDLE", "tls.crt"),
            Var("NODE_EXTRA_CA_CERTS", "tls.crt")>>
     ELSE <<>>

EnvOpsReplace(p, i, c) == <<Op("env", i, proxyEnv(c))>>

EnvOpsWhenEmpty(p, i, c) ==
  IF p.containers[i].env = <<>> THEN <<Op("env", i, proxyEnv(c))>> ELSE <<>>

\* The whole array where there is none, else one operation per variable.
EnvOps(p, i, c) ==
  IF p.containers[i].env = <<>>
  THEN <<Op("env", i, proxyEnv(c))>>
  ELSE [j \in DOMAIN proxyEnv(c) |-> Op("env/-", i, proxyEnv(c)[j])]

mitmCAVolumeMountOpOmitted(i, c) == <<>>

mitmCAVolumeMountOp(i, c) ==
  IF c.mitmCASecret THEN <<Op("volumeMounts/-", i, CAVolume)>> ELSE <<>>

mitmCAVolumeOp(c) ==
  IF c.mitmCASecret THEN <<Op("volumes/-", 0, CAVolume)>> ELSE <<>>

\* A variable that is set only if the operator gave a text.
Given(name, text) == IF text = "" THEN <<>> ELSE <<Var(name, text)>>

SinkEnv(c) ==
  IF c.auditMode = "file" THEN <<Var("AUDIT_FILE", "/var/log/aegrail")>>
                          ELSE <<Var("AUDIT_STDOUT", "1")>>

LimitEnvWithoutTokens(c) ==
  Given("MAX_REQUESTS", c.maxRequests) \o Given("RATE_LIMIT", c.rateLimit)

LimitEnv(c) ==
  Given("MAX_REQUESTS", c.maxRequests) \o Given("RATE_LIMIT", c.rateLimit)
    \o Given("MAX_TOKENS", c.maxTokens)

MITMEnvOmitted(c) == <<>>

MITMEnv(c) ==
  IF c.mitmCASecret
  THEN <<Var("MITM_HOSTS", c.mitmHosts), Var("MITM_CA_CERT_FILE", "tls.crt"),
         Var("MITM_CA_KEY_FILE", "tls.key")>>
  ELSE <<>>

\* Names are without their prefix AEGRAIL_ENGINE_.  The root file system is
\* read-only, and the CA is all that is mounted.
buildEngineContainer(c) ==
  [name |-> EngineContainerName,
   env |-> <<Var("ALLOWLIST", c.allowlist), Var("AGENT_IDENTITY", "label"),
             Var("LISTEN", engineListenPort(c))>>
             \o SinkEnv(c) \o LimitEnv(c) \o MITMEnv(c),
   mounts |-> IF c.mitmCASecret THEN {CAVolume} ELSE {},
   port |-> engineListenPort(c)]

\* The operations for the first n containers.
ContainerOps(p, c, n) ==
  LET ops[k \in 0 .. n] ==
        IF k = 0 THEN <<>>
        ELSE ops[k - 1] \o EnvOps(p, k, c) \o mitmCAVolumeMountOp(k, c)
  IN  ops[n]

BuildPatch(p, c) ==
  IF alreadyInjected(p) THEN <<>>
  ELSE LabelOps(p, c) \o ContainerOps(p, c, Len(p.containers)) \o mitmCAVolumeOp(c)
         \o <<Op("containers/-", 0, buildEngineContainer(c))>>

-----------------------------------------------------------------------------
(* The API server (external).                                              *)

Failed == [failed |-> TRUE]

\* One operation of a patch; Failed if its parent is absent.
ApplyOp(p, op) ==
  IF p = Failed THEN Failed
  ELSE CASE op.path = "labels" ->
              [p EXCEPT !.identity = op.value, !.labels = {}]
         [] op.path = "labels/identity" ->
              IF NoLabels(p) THEN Failed ELSE [p EXCEPT !.identity = op.value]
         [] op.path = "env" ->
              [p EXCEPT !.containers[op.at].env = op.value]
         [] op.path = "env/-" ->
              IF p.containers[op.at].env = <<>> THEN Failed
              ELSE [p EXCEPT !.containers[op.at].env = Append(@, op.value)]
         [] op.path = "volumeMounts/-" ->
              IF p.containers[op.at].mounts = {} THEN Failed
              ELSE [p EXCEPT !.containers[op.at].mounts = @ \cup {op.value}]
         [] op.path = "volumes/-" ->
              IF p.volumes = {} THEN Failed
              ELSE [p EXCEPT !.volumes = @ \cup {op.value}]
         [] op.path = "containers/-" ->
              [p EXCEPT !.containers = Append(@, op.value)]

\* A patch, one operation after the other.
Apply(p, ops) ==
  LET after[k \in 0 .. Len(ops)] ==
        IF k = 0 THEN p ELSE ApplyOp(after[k - 1], ops[k])
  IN  after[Len(ops)]

Patched(p, c) == Apply(p, BuildPatch(p, c))

\* mutateHandler of a webhook with configuration c answers with a patch, and
\* the API server applies it.
Mutate(c) ==
  /\ stage = "review"
  /\ Len(pod.containers) < MaxContainers
  /\ cfg' = IF alreadyInjected(pod) THEN cfg ELSE c
  /\ IF Patched(pod, c) = Failed
     THEN stage' = "rejected" /\ UNCHANGED pod
     ELSE pod' = Patched(pod, c) /\ UNCHANGED stage

\* The other webhooks of the cluster may add a container of their own.
OtherWebhook ==
  /\ stage = "review"
  /\ Len(pod.containers) < MaxContainers
  /\ \E m \in SUBSET (pod.volumes \cap {"token"}) :
       pod' = [pod EXCEPT !.containers =
                 Append(@, [name |-> "mesh", env |-> <<>>, mounts |-> m,
                            port |-> "none"])]
  /\ UNCHANGED <<cfg, stage>>

\* The value of a label has no slash.
LabelsValid(p) == p.identity # "auto-injected/v1"

\* The review ends, whether or not the webhook could be reached, and the API
\* server validates what has become of the pod.
Admit ==
  /\ stage = "review"
  /\ stage' = IF LabelsValid(pod) THEN "admitted" ELSE "rejected"
  /\ UNCHANGED <<cfg, pod>>

\* The live manifest is submitted again.
Resubmit ==
  /\ stage \in {"admitted", "running"}
  /\ stage' = "review"
  /\ UNCHANGED <<cfg, pod>>

-----------------------------------------------------------------------------
Engines == {i \in DOMAIN pod.containers :
              pod.containers[i].name = EngineContainerName}

\* The last setting of a variable is the one a container sees (external).
Env(c, name) ==
  LET set == {i \in DOMAIN c.env : c.env[i].name = name}
  IN  IF set = {} THEN "" ELSE c.env[Max(set)].value

(***************************************************************************)
(* mutator.go:16-17, idempotent: however often the pod is reviewed, it has *)
(* at most one engine.                                                     *)
(***************************************************************************)
InjectedOnce == Cardinality(Engines) <= 1

(***************************************************************************)
(* mutator.go:9-11: every container that was there when the engine was     *)
(* injected (those before it) sends its traffic to the port this engine    *)
(* listens on, also if its author had set a proxy, whatever webhooks run   *)
(* before or after, and if a webhook with another port reviews it again.   *)
(***************************************************************************)
TrafficRouted ==
  \A e \in Engines : \A i \in 1 .. e - 1 :
    /\ Env(pod.containers[i], "HTTP_PROXY") = Env(pod.containers[e], "LISTEN")
    /\ Env(pod.containers[i], "HTTPS_PROXY") = Env(pod.containers[e], "LISTEN")

\* Nothing of a container is taken away or reordered.
ContainerKept(old, new) ==
  /\ new.name = old.name
  /\ IsPrefix(old.env, new.env)
  /\ old.mounts \subseteq new.mounts

PodKept(old, new) ==
  /\ Len(old.containers) <= Len(new.containers)
  /\ \A i \in DOMAIN old.containers :
       ContainerKept(old.containers[i], new.containers[i])
  /\ old.volumes \subseteq new.volumes
  /\ old.labels \subseteq new.labels
  /\ old.identity # "none" => new.identity = old.identity

(***************************************************************************)
(* The patch only adds: no step takes away or reorders a container, a      *)
(* variable, a mount, a volume or a label, or changes a given identity.    *)
(***************************************************************************)
UserConfigKept == [][PodKept(pod, pod')]_webhookVars

(***************************************************************************)
(* mutator.go:72-81: a container that is told to trust the engine's CA can *)
(* read it, the engine that signs with it can too, and the volume is there.*)
(***************************************************************************)
TrustMounted ==
  \A i \in DOMAIN pod.containers :
    Env(pod.containers[i], "SSL_CERT_FILE") # "" =>
      /\ CAVolume \in pod.containers[i].mounts
      /\ CAVolume \in pod.volumes
      /\ \A e \in Engines : CAVolume \in pod.containers[e].mounts

(***************************************************************************)
(* mutator.go:13-14: the engine finds an identity label to read.           *)
(***************************************************************************)
EngineIdentified == Engines # {} => pod.identity # "none"

(***************************************************************************)
(* What the patch does to a pod makes the API server reject it for two     *)
(* reasons only: a CA is to be mounted and the pod has no volumes, or a    *)
(* container no mounts, to add it to; or the default identity, which the   *)
(* pod was given, is no label value.  Neither is what the package promises *)
(* (see PatchDelivers in Sidecar).                                         *)
(***************************************************************************)
RejectionsKnown ==
  stage = "rejected" =>
    \/ /\ cfg.mitmCASecret
       /\ \/ pod.volumes = {}
          \/ \E i \in DOMAIN pod.containers : pod.containers[i].mounts = {}
    \/ /\ cfg.defaultIdentity = "auto-injected/v1"
       /\ pod.identity = cfg.defaultIdentity
=============================================================================
