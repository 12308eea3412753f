--------------------------- MODULE WebhookProofs ---------------------------
(***************************************************************************)
(* Proofs about Webhook: what a patch does to a pod, for any number of     *)
(* containers and any configuration, and from that what the webhook keeps  *)
(* true of a pod however it is reviewed.                                   *)
(***************************************************************************)
EXTENDS Sidecar, SequenceTheorems, FiniteSetTheorems, WellFoundedInduction, TLAPS

-----------------------------------------------------------------------------
(* Induction up to n, with the property as a set of numbers.               *)
LEMMA UpTo ==
  ASSUME NEW n \in Nat, NEW S, 0 \in S,
         \A k \in 1 .. n : k - 1 \in S => k \in S
  PROVE  \A k \in 0 .. n : k \in S
<1> SUFFICES ASSUME \E k \in 0 .. n : k \notin S PROVE FALSE
  OBVIOUS
<1> DEFINE T == {k \in 0 .. n : k \notin S}
<1>1. T \subseteq Nat /\ T # {}
  OBVIOUS
<1>2. PICK x \in T : \A y \in T : ~ (<<y, x>> \in OpToRel(<, Nat))
  BY <1>1, NatLessThanWellFounded, WFMin
<1>3. \A y \in T : ~ (y < x)
  BY <1>1, <1>2 DEF OpToRel
<1>4. x \in 1 .. n /\ x - 1 \in 0 .. n /\ x - 1 < x
  <2>1. x \in 0 .. n /\ x # 0
    OBVIOUS
  <2> QED
    BY <2>1
<1>5. x - 1 \in S
  BY <1>3, <1>4
<1> QED
  BY <1>2, <1>4, <1>5

-----------------------------------------------------------------------------
(* Apply, one operation at a time.                                         *)

\* The pods along a patch.
Along(p, ops, n, f) ==
  f = [k \in 0 .. n |-> IF k = 0 THEN p ELSE ApplyOp(f[k - 1], ops[k])]

LEMMA AlongExists ==
  ASSUME NEW p, NEW ops, NEW n \in Nat
  PROVE  \E f : Along(p, ops, n, f)
<1> DEFINE S == {k \in 0 .. n : \E f : Along(p, ops, k, f)}
<1>1. 0 \in S
  <2> DEFINE g == [k \in 0 .. 0 |-> p]
  <2>1. Along(p, ops, 0, g)
    BY DEF Along
  <2> QED
    BY <2>1
<1>2. ASSUME NEW k \in 1 .. n, k - 1 \in S PROVE k \in S
  <2>1. PICK f : Along(p, ops, k - 1, f)
    BY <1>2
  <2> DEFINE g == [j \in 0 .. k |-> IF j = k THEN ApplyOp(f[k - 1], ops[k]) ELSE f[j]]
  <2>2. ASSUME NEW j \in 0 .. k
        PROVE  g[j] = IF j = 0 THEN p ELSE ApplyOp(g[j - 1], ops[j])
    <3>1. CASE j = k
      <4>1. g[j - 1] = f[k - 1] /\ g[j] = ApplyOp(f[k - 1], ops[k])
        BY <3>1
      <4> QED
        BY <3>1, <4>1
    <3>2. CASE j # k
      <4>1. j \in 0 .. k - 1 /\ g[j] = f[j] /\ (j # 0 => g[j - 1] = f[j - 1])
        BY <3>2
      <4>2. f[j] = IF j = 0 THEN p ELSE ApplyOp(f[j - 1], ops[j])
        BY <2>1, <4>1 DEF Along
      <4> QED
        BY <4>1, <4>2
    <3> QED
      BY <3>1, <3>2
  <2>3. Along(p, ops, k, g)
    BY <2>2 DEF Along
  <2> QED
    BY <2>3
<1> HIDE DEF S
<1>3. n \in S
  BY <1>1, <1>2, UpTo
<1> QED
  BY <1>3 DEF S

LEMMA ApplyAlong ==
  ASSUME NEW p, NEW ops, Len(ops) \in Nat
  PROVE  \E f : Along(p, ops, Len(ops), f) /\ Apply(p, ops) = f[Len(ops)]
<1> DEFINE after == CHOOSE f : Along(p, ops, Len(ops), f)
<1>1. Along(p, ops, Len(ops), after)
  BY AlongExists
<1>2. Apply(p, ops) = after[Len(ops)]
  BY DEF Apply, Along
<1> QED
  BY <1>1, <1>2

\* The first n of two patches, or of the pods along them.
Alike(s, t, first, n) == \A k \in first .. n : s[k] = t[k]

\* Two patches go the same way as long as they say the same.
LEMMA SameWay ==
  ASSUME NEW p, NEW s, NEW t, NEW n \in Nat, NEW m \in Nat, n <= m,
         Alike(s, t, 1, n),
         NEW f, Along(p, s, n, f), NEW g, Along(p, t, m, g)
  PROVE  Alike(f, g, 0, n)
<1> DEFINE S == {k \in 0 .. n : f[k] = g[k]}
<1>1. 0 \in S
  BY DEF Along
<1>2. ASSUME NEW k \in 1 .. n, k - 1 \in S PROVE k \in S
  <2>1. k \in 0 .. n /\ k \in 0 .. m /\ k # 0
    OBVIOUS
  <2>2. f[k] = ApplyOp(f[k - 1], s[k])
    BY <2>1 DEF Along
  <2>3. g[k] = ApplyOp(g[k - 1], t[k])
    BY <2>1 DEF Along
  <2>4. s[k] = t[k]
    BY DEF Alike
  <2> QED
    BY <1>2, <2>1, <2>2, <2>3, <2>4
<1> HIDE DEF S
<1>3. \A k \in 0 .. n : k \in S
  BY <1>1, <1>2, UpTo
<1> QED
  BY <1>3 DEF S, Alike

LEMMA ApplyNone == ASSUME NEW p PROVE Apply(p, <<>>) = p
<1>1. Len(<<>>) = 0
  OBVIOUS
<1>2. PICK f : Along(p, <<>>, 0, f) /\ Apply(p, <<>>) = f[0]
  BY <1>1, ApplyAlong
<1> QED
  BY <1>2 DEF Along

\* First one patch and then the other.
LEMMA ApplyBoth ==
  ASSUME NEW p, NEW T, NEW s \in Seq(T), NEW t \in Seq(T)
  PROVE  Apply(p, s \o t) = Apply(Apply(p, s), t)
<1> DEFINE a == Len(s)
           b == Len(t)
           u == s \o t
<1>1. /\ a \in Nat /\ b \in Nat /\ Len(u) = a + b
      /\ \A k \in 1 .. a : u[k] = s[k]
      /\ \A k \in 1 .. b : u[a + k] = t[k]
  OBVIOUS
<1> HIDE DEF a, b, u
<1>2. PICK f : Along(p, s, a, f) /\ Apply(p, s) = f[a]
  BY <1>1, ApplyAlong DEF a
<1>3. PICK g : Along(p, u, a + b, g) /\ Apply(p, u) = g[a + b]
  <2>1. Len(u) \in Nat
    BY <1>1
  <2> QED
    BY <1>1, <2>1, ApplyAlong
<1>4. PICK h : Along(f[a], t, b, h) /\ Apply(f[a], t) = h[b]
  BY <1>1, ApplyAlong DEF b
<1>5. g[a] = f[a]
  <2>1. a + b \in Nat /\ a <= a + b /\ a \in 0 .. a
    BY <1>1
  <2> DEFINE m == a + b
  <2>2. m \in Nat /\ a <= m /\ Along(p, u, m, g) /\ Alike(s, u, 1, a)
    BY <1>1, <1>3, <2>1 DEF Alike
  <2> HIDE DEF m
  <2>a. a \in Nat /\ Along(p, s, a, f)
    BY <1>1, <1>2
  <2>3. Alike(f, g, 0, a)
    BY ONLY <2>a, <2>2, SameWay
  <2> QED
    BY <2>1, <2>3 DEF Alike
<1> DEFINE S == {k \in 0 .. b : g[a + k] = h[k]}
<1>6. 0 \in S
  BY <1>1, <1>4, <1>5 DEF Along
<1>7. ASSUME NEW k \in 1 .. b, k - 1 \in S PROVE k \in S
  <2>1. k \in 0 .. b /\ k # 0 /\ a + k \in 0 .. a + b /\ a + k # 0
        /\ (a + k) - 1 = a + (k - 1)
    BY <1>1
  <2>2. g[a + k] = ApplyOp(g[(a + k) - 1], u[a + k])
    BY <1>3, <2>1 DEF Along
  <2>3. h[k] = ApplyOp(h[k - 1], t[k])
    BY <1>4, <2>1 DEF Along
  <2>4. g[a + (k - 1)] = h[k - 1]
    BY <1>7
  <2>5. u[a + k] = t[k]
    BY <1>1
  <2>6. g[a + k] = h[k]
    BY <2>1, <2>2, <2>3, <2>4, <2>5
  <2> QED
    BY <2>1, <2>6
<1> HIDE DEF S
<1>8. b \in S
  <2>1. \A k \in 0 .. b : k \in S
    BY <1>1, <1>6, <1>7, UpTo
  <2> QED
    BY <1>1, <2>1
<1> QED
  BY <1>2, <1>3, <1>4, <1>8 DEF S, u

LEMMA ApplyOne ==
  ASSUME NEW p, NEW op
  PROVE  Apply(p, <<op>>) = ApplyOp(p, op)
<1>1. Len(<<op>>) = 1 /\ <<op>>[1] = op
  OBVIOUS
<1>2. PICK f : Along(p, <<op>>, 1, f) /\ Apply(p, <<op>>) = f[1]
  BY <1>1, ApplyAlong
<1>3. f[0] = p /\ f[1] = ApplyOp(f[0], <<op>>[1])
  BY <1>2 DEF Along
<1> QED
  BY <1>1, <1>2, <1>3

\* What failed stays so.
LEMMA ApplyFailed ==
  ASSUME NEW T, NEW ops \in Seq(T)
  PROVE  Apply(Failed, ops) = Failed
<1> DEFINE n == Len(ops)
<1>1. n \in Nat
  OBVIOUS
<1>2. PICK f : Along(Failed, ops, n, f) /\ Apply(Failed, ops) = f[n]
  BY <1>1, ApplyAlong
<1> HIDE DEF n
<1> DEFINE S == {k \in 0 .. n : f[k] = Failed}
<1>3. 0 \in S
  BY <1>1, <1>2 DEF Along
<1>4. ASSUME NEW k \in 1 .. n, k - 1 \in S PROVE k \in S
  <2>1. k \in 0 .. n /\ k # 0
    BY <1>1
  <2>2. f[k] = ApplyOp(f[k - 1], ops[k])
    BY <1>2, <2>1 DEF Along
  <2>3. f[k - 1] = Failed
    BY <1>4
  <2>4. f[k] = Failed
    BY <2>2, <2>3 DEF ApplyOp
  <2> QED
    BY <2>1, <2>4
<1> HIDE DEF S
<1>5. n \in S
  <2>1. \A k \in 0 .. n : k \in S
    BY <1>1, <1>3, <1>4, UpTo
  <2> QED
    BY <1>1, <2>1
<1> QED
  BY <1>2, <1>5 DEF S

-----------------------------------------------------------------------------
(* What one operation does.                                                *)

\* The texts the webhook writes itself.  They are strings, which the provers do
\* not know of a literal.
Literals ==
  {"HTTP_PROXY", "HTTPS_PROXY", "NO_PROXY", "SSL_CERT_FILE", "REQUESTS_CA_BUNDLE",
   "NODE_EXTRA_CA_CERTS", "ALLOWLIST", "AGENT_IDENTITY", "LISTEN", "AUDIT_FILE",
   "AUDIT_STDOUT", "MAX_REQUESTS", "RATE_LIMIT", "MAX_TOKENS", "MITM_HOSTS",
   "MITM_CA_CERT_FILE", "MITM_CA_KEY_FILE", "/var/log/aegrail", "1", "label",
   "local", "tls.crt", "tls.key", "8080", "9090", "unset", "none", "", "theirs",
   "agent", "mesh", "app", "token", "aegrail-engine", "aegrail-mitm-ca",
   "auto-injected/v1", "auto-injected-v1"}
Texts == STRING \cup Literals

Vars == [name : Texts, value : Texts]
Containers == [name : Texts, env : Seq(Vars), mounts : SUBSET Texts, port : Texts]
Pods == [identity : Texts, labels : SUBSET Texts, containers : Seq(Containers),
         volumes : SUBSET Texts]

LEMMA TextsKnown == STRING \subseteq Texts /\ Literals \subseteq Texts
BY DEF Texts

LEMMA CAVolumeKnown == CAVolume \in Texts
BY DEF Texts, Literals, CAVolume

Container(name, env, mounts, port) ==
  [name |-> name, env |-> env, mounts |-> mounts, port |-> port]
Pod(identity, labels, containers, volumes) ==
  [identity |-> identity, labels |-> labels, containers |-> containers,
   volumes |-> volumes]

WithEnv(x, env) == Container(x.name, env, x.mounts, x.port)
WithMount(x, volume) == Container(x.name, x.env, x.mounts \cup {volume}, x.port)
With(p, i, x) == Pod(p.identity, p.labels, [p.containers EXCEPT ![i] = x], p.volumes)

LEMMA NotFailed == Failed \notin Pods
<1>1. ASSUME NEW p \in Pods PROVE p # Failed
  <2>1. "identity" \in DOMAIN p
    BY DEF Pods
  <2>2. "identity" \notin DOMAIN Failed
    BY DEF Failed
  <2> QED
    BY <2>1, <2>2
<1> QED
  BY <1>1

LEMMA WithTyped ==
  ASSUME NEW p \in Pods, NEW i \in DOMAIN p.containers, NEW x \in Containers
  PROVE  /\ With(p, i, x) \in Pods
         /\ With(p, i, x).containers[i] = x
         /\ DOMAIN With(p, i, x).containers = DOMAIN p.containers
         /\ \A j \in DOMAIN p.containers \ {i} :
              With(p, i, x).containers[j] = p.containers[j]
BY DEF With, Pod, Pods

LEMMA WithTwice ==
  ASSUME NEW p \in Pods, NEW i \in DOMAIN p.containers, NEW x \in Containers,
         NEW y \in Containers
  PROVE  With(With(p, i, x), i, y) = With(p, i, y)
BY DEF With, Pod, Pods

LEMMA EnvReplaced ==
  ASSUME NEW p \in Pods, NEW i \in DOMAIN p.containers, NEW env \in Seq(Vars)
  PROVE  ApplyOp(p, Op("env", i, env)) = With(p, i, WithEnv(p.containers[i], env))
<1>1. p.containers[i] \in Containers /\ p # Failed
  BY NotFailed DEF Pods
<1>2. ApplyOp(p, Op("env", i, env)) = [p EXCEPT !.containers[i].env = env]
  BY <1>1 DEF ApplyOp, Op
<1> QED
  BY <1>1, <1>2 DEF With, WithEnv, Pod, Container, Pods, Containers

LEMMA EnvAppended ==
  ASSUME NEW p \in Pods, NEW i \in DOMAIN p.containers, NEW v \in Vars,
         p.containers[i].env # <<>>
  PROVE  ApplyOp(p, Op("env/-", i, v)) =
           With(p, i, WithEnv(p.containers[i], Append(p.containers[i].env, v)))
<1>1. p.containers[i] \in Containers /\ p # Failed
  BY NotFailed DEF Pods
<1>2. ApplyOp(p, Op("env/-", i, v)) =
        [p EXCEPT !.containers[i].env = Append(p.containers[i].env, v)]
  BY <1>1 DEF ApplyOp, Op
<1> QED
  BY <1>1, <1>2 DEF With, WithEnv, Pod, Container, Pods, Containers

LEMMA MountAdded ==
  ASSUME NEW p \in Pods, NEW i \in DOMAIN p.containers, NEW v \in Texts
  PROVE  /\ p.containers[i].mounts = {} =>
               ApplyOp(p, Op("volumeMounts/-", i, v)) = Failed
         /\ p.containers[i].mounts # {} =>
               ApplyOp(p, Op("volumeMounts/-", i, v)) =
                 With(p, i, WithMount(p.containers[i], v))
<1>1. p.containers[i] \in Containers /\ p # Failed
  BY NotFailed DEF Pods
<1>2. CASE p.containers[i].mounts = {}
  BY <1>1, <1>2 DEF ApplyOp, Op
<1>3. CASE p.containers[i].mounts # {}
  <2>1. ApplyOp(p, Op("volumeMounts/-", i, v)) =
          [p EXCEPT !.containers[i].mounts = p.containers[i].mounts \cup {v}]
    BY <1>1, <1>3 DEF ApplyOp, Op
  <2> QED
    BY <1>1, <1>3, <2>1 DEF With, WithMount, Pod, Container, Pods, Containers
<1> QED
  BY <1>2, <1>3

LEMMA VolumeAdded ==
  ASSUME NEW p \in Pods, NEW v \in Texts
  PROVE  /\ p.volumes = {} => ApplyOp(p, Op("volumes/-", 0, v)) = Failed
         /\ p.volumes # {} =>
              ApplyOp(p, Op("volumes/-", 0, v)) =
                Pod(p.identity, p.labels, p.containers, p.volumes \cup {v})
BY NotFailed DEF ApplyOp, Op, Pod, Pods

LEMMA ContainerAdded ==
  ASSUME NEW p \in Pods, NEW x \in Containers
  PROVE  ApplyOp(p, Op("containers/-", 0, x)) =
           Pod(p.identity, p.labels, Append(p.containers, x), p.volumes)
BY NotFailed DEF ApplyOp, Op, Pod, Pods

LEMMA Labelled ==
  ASSUME NEW p \in Pods, NEW c
  PROVE  Apply(p, LabelOps(p, c)) =
           Pod(IF p.identity = "none" THEN c.defaultIdentity ELSE p.identity,
               p.labels, p.containers, p.volumes)
<1>1. CASE NoLabels(p)
  <2>1. Apply(p, LabelOps(p, c)) = ApplyOp(p, Op("labels", 0, c.defaultIdentity))
    BY <1>1, ApplyOne DEF LabelOps
  <2>2. ApplyOp(p, Op("labels", 0, c.defaultIdentity)) =
          [p EXCEPT !.identity = c.defaultIdentity, !.labels = {}]
    BY NotFailed DEF ApplyOp, Op
  <2> QED
    BY <1>1, <2>1, <2>2 DEF NoLabels, Pod, Pods
<1>2. CASE ~ NoLabels(p) /\ p.identity = "none"
  <2>1. Apply(p, LabelOps(p, c)) = ApplyOp(p, Op("labels/identity", 0, c.defaultIdentity))
    BY <1>2, ApplyOne DEF LabelOps
  <2>2. ApplyOp(p, Op("labels/identity", 0, c.defaultIdentity)) =
          [p EXCEPT !.identity = c.defaultIdentity]
    BY <1>2, NotFailed DEF ApplyOp, Op
  <2> QED
    BY <1>2, <2>1, <2>2 DEF Pod, Pods
<1>3. CASE p.identity # "none"
  <2>1. LabelOps(p, c) = <<>>
    BY <1>3 DEF LabelOps, NoLabels
  <2>2. Apply(p, LabelOps(p, c)) = p
    BY <2>1, ApplyNone
  <2> QED
    BY <1>3, <2>2 DEF Pod, Pods
<1> QED
  BY <1>1, <1>2, <1>3

-----------------------------------------------------------------------------
(* A container's variables, in one operation or one by one.                *)

\* The first k of the new variables, after the old.
Grown(old, new, k) ==
  [j \in 1 .. Len(old) + k |-> IF j <= Len(old) THEN old[j] ELSE new[j - Len(old)]]

LEMMA Grows ==
  ASSUME NEW old \in Seq(Vars), NEW new \in Seq(Vars)
  PROVE  /\ Grown(old, new, 0) = old
         /\ \A k \in 0 .. Len(new) : Grown(old, new, k) \in Seq(Vars)
         /\ \A k \in 1 .. Len(new) :
              Grown(old, new, k) = Append(Grown(old, new, k - 1), new[k])
         /\ Grown(old, new, Len(new)) = old \o new
<1>1. Len(old) \in Nat /\ Len(new) \in Nat
  OBVIOUS
<1>2. Grown(old, new, 0) = old
  BY <1>1 DEF Grown
<1>3. ASSUME NEW k \in 0 .. Len(new)
      PROVE  Grown(old, new, k) \in Seq(Vars) /\ Len(Grown(old, new, k)) = Len(old) + k
  <2>1. \A j \in 1 .. Len(old) + k :
          (IF j <= Len(old) THEN old[j] ELSE new[j - Len(old)]) \in Vars
    BY <1>1
  <2>2. Len(old) + k \in Nat
    BY <1>1
  <2> QED
    BY <2>1, <2>2 DEF Grown
<1>4. ASSUME NEW k \in 1 .. Len(new)
      PROVE  Grown(old, new, k) = Append(Grown(old, new, k - 1), new[k])
  <2> DEFINE a == Grown(old, new, k)
             b == Append(Grown(old, new, k - 1), new[k])
  <2>1. k \in 0 .. Len(new) /\ k - 1 \in 0 .. Len(new) /\ new[k] \in Vars
    BY <1>1
  <2>2. a \in Seq(Vars) /\ Len(a) = Len(old) + k
    BY <1>3, <2>1
  <2>3. /\ Grown(old, new, k - 1) \in Seq(Vars)
        /\ Len(Grown(old, new, k - 1)) = Len(old) + (k - 1)
    BY <1>3, <2>1
  <2>4. b \in Seq(Vars) /\ Len(b) = Len(old) + k
    BY <1>1, <2>1, <2>3
  <2>5. ASSUME NEW j \in 1 .. Len(old) + k PROVE a[j] = b[j]
    <3>1. CASE j = Len(old) + k
      <4>1. a[j] = new[k]
        BY <1>1, <3>1 DEF Grown
      <4>2. b[j] = new[k]
        BY <1>1, <2>1, <2>3, <3>1
      <4> QED
        BY <4>1, <4>2
    <3>2. CASE j # Len(old) + k
      <4>1. j \in 1 .. Len(old) + (k - 1)
        BY <1>1, <3>2
      <4>2. b[j] = Grown(old, new, k - 1)[j]
        BY <2>1, <2>3, <4>1
      <4>3. Grown(old, new, k - 1)[j] = a[j]
        BY <1>1, <4>1 DEF Grown
      <4> QED
        BY <4>2, <4>3
    <3> QED
      BY <3>1, <3>2
  <2> HIDE DEF a, b
  <2>6. a = b
    BY <2>2, <2>4, <2>5
  <2> QED
    BY <2>6 DEF a, b
<1>5. Grown(old, new, Len(new)) = old \o new
  <2> DEFINE a == Grown(old, new, Len(new))
             b == old \o new
  <2>1. a \in Seq(Vars) /\ Len(a) = Len(old) + Len(new)
    BY <1>1, <1>3
  <2>2. b \in Seq(Vars) /\ Len(b) = Len(old) + Len(new)
    OBVIOUS
  <2>3. \A j \in 1 .. Len(old) + Len(new) : a[j] = b[j]
    BY <1>1 DEF Grown
  <2> HIDE DEF a, b
  <2>4. a = b
    BY <2>1, <2>2, <2>3
  <2> QED
    BY <2>4 DEF a, b
<1> QED
  BY <1>2, <1>3, <1>4, <1>5

\* One operation per variable, for a container that has some.
LEMMA AppendedOneByOne ==
  ASSUME NEW p \in Pods, NEW i \in DOMAIN p.containers, NEW new \in Seq(Vars),
         p.containers[i].env # <<>>
  PROVE  Apply(p, [j \in DOMAIN new |-> Op("env/-", i, new[j])]) =
           With(p, i, WithEnv(p.containers[i], p.containers[i].env \o new))
<1> DEFINE x == p.containers[i]
           n == Len(new)
           ops == [j \in DOMAIN new |-> Op("env/-", i, new[j])]
           At(k) == With(p, i, WithEnv(x, Grown(x.env, new, k)))
<1>1. x \in Containers /\ x.env \in Seq(Vars) /\ n \in Nat
  <2>1. x \in Containers
    BY DEF Pods
  <2> QED
    BY <2>1 DEF Containers
<1>2. Len(ops) = n /\ \A j \in 1 .. n : ops[j] = Op("env/-", i, new[j])
  OBVIOUS
<1> HIDE DEF ops
<1>3. PICK f : Along(p, ops, n, f) /\ Apply(p, ops) = f[n]
  BY <1>1, <1>2, ApplyAlong
<1> DEFINE S == {k \in 0 .. n : f[k] = At(k)}
<1>4. 0 \in S
  <2>1. f[0] = p
    BY <1>1, <1>3 DEF Along
  <2>2. Grown(x.env, new, 0) = x.env
    BY <1>1, Grows
  <2>3. At(0) = p
    BY <1>1, <2>2 DEF With, WithEnv, Pod, Container, Pods, Containers
  <2> QED
    BY <1>1, <2>1, <2>3
<1>5. ASSUME NEW k \in 1 .. n, k - 1 \in S PROVE k \in S
  <2> DEFINE e == Grown(x.env, new, k - 1)
             q == At(k - 1)
  <2>1. k \in 0 .. n /\ k # 0 /\ k - 1 \in 0 .. n /\ new[k] \in Vars
    BY <1>1
  <2>2. f[k] = ApplyOp(q, Op("env/-", i, new[k]))
    BY <1>2, <1>3, <1>5, <2>1 DEF Along
  <2>3. e \in Seq(Vars) /\ Grown(x.env, new, k) = Append(e, new[k])
    BY <1>1, <2>1, Grows
  <2>4. e # <<>>
    <3>1. DOMAIN e = 1 .. Len(x.env) + (k - 1) /\ Len(x.env) \in Nat /\ Len(x.env) # 0
      BY <1>1 DEF Grown
    <3>2. 1 \in DOMAIN e
      BY <3>1
    <3> QED
      BY <3>2
  <2>5. WithEnv(x, e) \in Containers /\ WithEnv(x, e).env = e
    BY <1>1, <2>3 DEF WithEnv, Container, Containers
  <2>6. q \in Pods /\ i \in DOMAIN q.containers /\ q.containers[i] = WithEnv(x, e)
    BY <2>5, WithTyped
  <2>7. f[k] = With(q, i, WithEnv(WithEnv(x, e), Append(e, new[k])))
    <3> HIDE DEF q, e
    <3> QED
      BY <2>1, <2>2, <2>4, <2>5, <2>6, EnvAppended
  <2>8. WithEnv(WithEnv(x, e), Append(e, new[k])) = WithEnv(x, Append(e, new[k]))
    BY DEF WithEnv, Container
  <2>9. WithEnv(x, Append(e, new[k])) \in Containers
    BY <1>1, <2>1, <2>3 DEF WithEnv, Container, Containers
  <2>10. f[k] = With(p, i, WithEnv(x, Append(e, new[k])))
    <3> DEFINE y == WithEnv(x, e)
               z == WithEnv(x, Append(e, new[k]))
    <3>1. f[k] = With(With(p, i, y), i, z)
      BY <2>7, <2>8
    <3>2. y \in Containers /\ z \in Containers
      BY <2>5, <2>9
    <3> HIDE DEF y, z
    <3>3. f[k] = With(p, i, z)
      BY <3>1, <3>2, WithTwice
    <3> QED
      BY <3>3 DEF z
  <2> QED
    BY <2>1, <2>3, <2>10
<1> HIDE DEF S
<1>6. n \in S
  <2>1. \A k \in 0 .. n : k \in S
    BY <1>1, <1>4, <1>5, UpTo
  <2> QED
    BY <1>1, <2>1
<1>7. f[n] = With(p, i, WithEnv(x, x.env \o new))
  BY <1>1, <1>6, Grows DEF S
<1> QED
  BY <1>3, <1>7 DEF ops

-----------------------------------------------------------------------------
(* The operations of one container.                                        *)

Values == Texts \cup Vars \cup Seq(Vars) \cup Containers
Ops == [path : {"labels", "labels/identity", "env", "env/-", "volumeMounts/-",
                "volumes/-", "containers/-"}, at : Nat, value : Values]

LEMMA ProxyEnvTyped ==
  ASSUME NEW c \in ConfigType
  PROVE  proxyEnv(c) \in Seq(Vars) /\ engineListenPort(c) \in Texts
<1>1. engineListenPort(c) \in Texts
  <2>1. engineListenPort(c) \in Literals
    BY DEF engineListenPort, ConfigType, Literals
  <2> QED
    BY <2>1, TextsKnown
<1>2. \A name \in Literals : \A value \in Texts : Var(name, value) \in Vars
  BY TextsKnown DEF Var, Vars
<1> DEFINE a == Var("HTTP_PROXY", engineListenPort(c))
           b == Var("HTTPS_PROXY", engineListenPort(c))
           d == Var("NO_PROXY", "local")
           e == Var("SSL_CERT_FILE", "tls.crt")
           f == Var("REQUESTS_CA_BUNDLE", "tls.crt")
           g == Var("NODE_EXTRA_CA_CERTS", "tls.crt")
<1>3. a \in Vars /\ b \in Vars
  BY <1>1, <1>2 DEF Literals
<1>4. d \in Vars /\ e \in Vars /\ f \in Vars /\ g \in Vars
  BY <1>2, TextsKnown DEF Literals
<1>5. proxyEnv(c) = <<a, b, d>> \o IF c.mitmCASecret THEN <<e, f, g>> ELSE <<>>
  BY DEF proxyEnv
<1> HIDE DEF a, b, d, e, f, g
<1> QED
  BY <1>1, <1>3, <1>4, <1>5

LEMMA EnvDone ==
  ASSUME NEW c \in ConfigType, NEW p, NEW q \in Pods, NEW i \in DOMAIN q.containers,
         q.containers[i] = p.containers[i]
  PROVE  Apply(q, EnvOps(p, i, c)) =
           With(q, i, WithEnv(q.containers[i], q.containers[i].env \o proxyEnv(c)))
<1> DEFINE new == proxyEnv(c)
           x == q.containers[i]
<1>1. new \in Seq(Vars)
  BY ProxyEnvTyped
<1>2. x.env \in Seq(Vars)
  <2>1. x \in Containers
    BY DEF Pods
  <2> QED
    BY <2>1 DEF Containers
<1> HIDE DEF new
<1>3. CASE x.env = <<>>
  <2>1. Apply(q, EnvOps(p, i, c)) = ApplyOp(q, Op("env", i, new))
    BY <1>3, ApplyOne DEF EnvOps, new
  <2>2. x.env \o new = new
    BY <1>1, <1>3
  <2>3. Apply(q, EnvOps(p, i, c)) = With(q, i, WithEnv(x, new))
    BY <1>1, <2>1, EnvReplaced
  <2> QED
    BY <2>2, <2>3 DEF new
<1>4. CASE x.env # <<>>
  <2>1. EnvOps(p, i, c) = [j \in DOMAIN new |-> Op("env/-", i, new[j])]
    BY <1>4 DEF EnvOps, new
  <2>2. Apply(q, [j \in DOMAIN new |-> Op("env/-", i, new[j])]) =
          With(q, i, WithEnv(x, x.env \o new))
    BY <1>1, <1>4, AppendedOneByOne
  <2> QED
    BY <2>1, <2>2 DEF new
<1> QED
  BY <1>3, <1>4

LEMMA OpTyped ==
  ASSUME NEW i \in Nat, NEW v \in Values, NEW path \in
           {"labels", "labels/identity", "env", "env/-", "volumeMounts/-",
            "volumes/-", "containers/-"}
  PROVE  Op(path, i, v) \in Ops
BY DEF Op, Ops

LEMMA OpsTyped ==
  ASSUME NEW c \in ConfigType, NEW p, NEW i \in Nat
  PROVE  /\ EnvOps(p, i, c) \in Seq(Ops)
         /\ mitmCAVolumeMountOp(i, c) \in Seq(Ops)
         /\ mitmCAVolumeOp(c) \in Seq(Ops)
         /\ LabelOps(p, c) \in Seq(Ops)
<1> DEFINE new == proxyEnv(c)
<1>1. new \in Seq(Vars)
  BY ProxyEnvTyped
<1> HIDE DEF new
<1>2. EnvOps(p, i, c) \in Seq(Ops)
  <2>1. new \in Values
    BY <1>1 DEF Values
  <2>2. Op("env", i, new) \in Ops
    BY <2>1, OpTyped
  <2>3. ASSUME NEW j \in DOMAIN new PROVE Op("env/-", i, new[j]) \in Ops
    <3>1. new[j] \in Vars
      BY <1>1
    <3>2. new[j] \in Values
      BY <3>1 DEF Values
    <3> QED
      BY <3>2, OpTyped
  <2>4. [j \in DOMAIN new |-> Op("env/-", i, new[j])] \in Seq(Ops)
    BY <1>1, <2>3
  <2> QED
    BY <2>2, <2>4 DEF EnvOps, new
<1>3. CAVolume \in Values /\ c.defaultIdentity \in Values
  <2>1. CAVolume \in Literals /\ c.defaultIdentity \in Literals
    BY DEF CAVolume, ConfigType, Literals
  <2> QED
    BY <2>1, TextsKnown DEF Values
<1>4. mitmCAVolumeMountOp(i, c) \in Seq(Ops)
  <2>1. Op("volumeMounts/-", i, CAVolume) \in Ops
    BY <1>3, OpTyped
  <2> QED
    BY <2>1 DEF mitmCAVolumeMountOp
<1>5. mitmCAVolumeOp(c) \in Seq(Ops)
  <2>1. Op("volumes/-", 0, CAVolume) \in Ops
    BY <1>3, OpTyped
  <2> QED
    BY <2>1 DEF mitmCAVolumeOp
<1>6. LabelOps(p, c) \in Seq(Ops)
  <2>1. /\ Op("labels", 0, c.defaultIdentity) \in Ops
        /\ Op("labels/identity", 0, c.defaultIdentity) \in Ops
    BY <1>3, OpTyped
  <2> QED
    BY <2>1 DEF LabelOps
<1> QED
  BY <1>2, <1>4, <1>5, <1>6

\* A container that was given the proxy variables and, with them, the CA.
Proxied(x, c) ==
  Container(x.name, x.env \o proxyEnv(c),
            IF c.mitmCASecret THEN x.mounts \cup {CAVolume} ELSE x.mounts, x.port)

LEMMA ProxiedTyped ==
  ASSUME NEW c \in ConfigType, NEW x \in Containers
  PROVE  Proxied(x, c) \in Containers
<1>1. proxyEnv(c) \in Seq(Vars)
  BY ProxyEnvTyped
<1>2. CAVolume \in Texts
  BY TextsKnown DEF CAVolume, Literals
<1>3. x.env \o proxyEnv(c) \in Seq(Vars)
  BY <1>1 DEF Containers
<1> QED
  BY <1>2, <1>3 DEF Proxied, Container, Containers

\* A CA cannot be mounted where nothing is.
NoRoom(p, c, n) == c.mitmCASecret /\ \E i \in 1 .. n : p.containers[i].mounts = {}

LEMMA ContainerDone ==
  ASSUME NEW c \in ConfigType, NEW p, NEW q \in Pods, NEW i \in DOMAIN q.containers,
         q.containers[i] = p.containers[i]
  PROVE  LET r == Apply(q, EnvOps(p, i, c) \o mitmCAVolumeMountOp(i, c))
             x == q.containers[i]
         IN  /\ c.mitmCASecret /\ x.mounts = {} => r = Failed
             /\ ~ (c.mitmCASecret /\ x.mounts = {}) => r = With(q, i, Proxied(x, c))
<1> DEFINE x == q.containers[i]
           y == WithEnv(x, x.env \o proxyEnv(c))
           r == Apply(q, EnvOps(p, i, c) \o mitmCAVolumeMountOp(i, c))
<1>1. x \in Containers /\ i \in Nat
  BY DEF Pods
<1>2. y \in Containers /\ y.mounts = x.mounts
  BY <1>1, ProxyEnvTyped DEF WithEnv, Container, Containers
<1>3. r = Apply(With(q, i, y), mitmCAVolumeMountOp(i, c))
  <2>1. EnvOps(p, i, c) \in Seq(Ops) /\ mitmCAVolumeMountOp(i, c) \in Seq(Ops)
    BY <1>1, OpsTyped
  <2>2. r = Apply(Apply(q, EnvOps(p, i, c)), mitmCAVolumeMountOp(i, c))
    BY <2>1, ApplyBoth
  <2> QED
    BY <2>2, EnvDone
<1> DEFINE p1 == With(q, i, y)
<1> HIDE DEF r, y
<1>4. p1 \in Pods /\ i \in DOMAIN p1.containers /\ p1.containers[i] = y
  BY <1>2, WithTyped
<1>5. CASE ~ c.mitmCASecret
  <2>1. r = With(q, i, y)
    BY <1>3, <1>5, ApplyNone DEF mitmCAVolumeMountOp
  <2>2. y = Proxied(x, c)
    BY <1>5 DEF y, WithEnv, Proxied, Container
  <2> QED
    BY <1>5, <2>1, <2>2 DEF r
<1>6. CASE c.mitmCASecret
  <2>1. r = ApplyOp(p1, Op("volumeMounts/-", i, CAVolume))
    BY <1>3, <1>6, ApplyOne DEF mitmCAVolumeMountOp
  <2>2. CAVolume \in Texts
    BY TextsKnown DEF CAVolume, Literals
  <2> HIDE DEF p1
  <2>3. y.mounts = {} => r = Failed
    BY <1>4, <2>1, <2>2, MountAdded
  <2>4. y.mounts # {} => r = With(p1, i, WithMount(y, CAVolume))
    BY <1>4, <2>1, <2>2, MountAdded
  <2>5. WithMount(y, CAVolume) = Proxied(x, c)
    BY <1>6 DEF y, WithEnv, WithMount, Proxied, Container
  <2>6. With(p1, i, Proxied(x, c)) = With(q, i, Proxied(x, c))
    <3> DEFINE z == Proxied(x, c)
    <3>1. z \in Containers
      BY <1>1, ProxiedTyped
    <3> HIDE DEF z
    <3>2. With(p1, i, z) = With(q, i, z)
      BY <1>2, <3>1, WithTwice DEF p1
    <3> QED
      BY <3>2 DEF z
  <2> QED
    BY <1>2, <1>6, <2>3, <2>4, <2>5, <2>6 DEF r
<1> QED
  BY <1>5, <1>6

-----------------------------------------------------------------------------
(* The operations of all containers.                                       *)

Listed(p, c, n, f) ==
  f = [k \in 0 .. n |->
         IF k = 0 THEN <<>>
         ELSE f[k - 1] \o EnvOps(p, k, c) \o mitmCAVolumeMountOp(k, c)]

LEMMA ListedExists ==
  ASSUME NEW p, NEW c, NEW n \in Nat
  PROVE  \E f : Listed(p, c, n, f)
<1> DEFINE S == {k \in 0 .. n : \E f : Listed(p, c, k, f)}
           more(f, k) == f[k - 1] \o EnvOps(p, k, c) \o mitmCAVolumeMountOp(k, c)
<1>1. 0 \in S
  <2> DEFINE g == [k \in 0 .. 0 |-> <<>>]
  <2>1. Listed(p, c, 0, g)
    BY DEF Listed
  <2> QED
    BY <2>1
<1>2. ASSUME NEW k \in 1 .. n, k - 1 \in S PROVE k \in S
  <2>1. PICK f : Listed(p, c, k - 1, f)
    BY <1>2
  <2> DEFINE g == [j \in 0 .. k |-> IF j = k THEN more(f, k) ELSE f[j]]
  <2>2. ASSUME NEW j \in 0 .. k
        PROVE  g[j] = IF j = 0 THEN <<>> ELSE more(g, j)
    <3>1. CASE j = k
      <4>1. g[j - 1] = f[k - 1] /\ g[j] = more(f, k) /\ j # 0
        BY <3>1
      <4>2. more(g, j) = more(f, k)
        BY <3>1, <4>1
      <4> QED
        BY <4>1, <4>2
    <3>2. CASE j # k
      <4>1. j \in 0 .. k - 1 /\ g[j] = f[j] /\ (j # 0 => g[j - 1] = f[j - 1])
        BY <3>2
      <4>2. f[j] = IF j = 0 THEN <<>> ELSE more(f, j)
        BY <2>1, <4>1 DEF Listed
      <4> QED
        BY <4>1, <4>2
    <3> QED
      BY <3>1, <3>2
  <2>3. Listed(p, c, k, g)
    BY <2>2 DEF Listed
  <2> QED
    BY <2>3
<1> HIDE DEF S
<1>3. n \in S
  BY <1>1, <1>2, UpTo
<1> QED
  BY <1>3 DEF S

LEMMA ContainerOpsListed ==
  ASSUME NEW p, NEW c, NEW n \in Nat
  PROVE  \E f : Listed(p, c, n, f) /\ ContainerOps(p, c, n) = f[n]
<1> DEFINE ops == CHOOSE f : Listed(p, c, n, f)
<1>1. Listed(p, c, n, ops)
  BY ListedExists
<1>2. ContainerOps(p, c, n) = ops[n]
  BY DEF ContainerOps, Listed
<1> QED
  BY <1>1, <1>2

\* The first k containers are done.
ProxiedUpTo(q, c, k) ==
  Pod(q.identity, q.labels,
      [i \in DOMAIN q.containers |->
         IF i <= k THEN Proxied(q.containers[i], c) ELSE q.containers[i]],
      q.volumes)

LEMMA ProxiedUpToTyped ==
  ASSUME NEW c \in ConfigType, NEW q \in Pods, NEW k \in 0 .. Len(q.containers)
  PROVE  /\ ProxiedUpTo(q, c, k) \in Pods
         /\ DOMAIN ProxiedUpTo(q, c, k).containers = DOMAIN q.containers
<1> DEFINE xs == [i \in DOMAIN q.containers |->
                    IF i <= k THEN Proxied(q.containers[i], c) ELSE q.containers[i]]
<1>1. q.containers \in Seq(Containers)
  BY DEF Pods
<1>2. ASSUME NEW i \in DOMAIN q.containers PROVE xs[i] \in Containers
  <2>1. q.containers[i] \in Containers
    BY <1>1
  <2>2. Proxied(q.containers[i], c) \in Containers
    BY <2>1, ProxiedTyped
  <2> QED
    BY <2>1, <2>2
<1>3. DOMAIN xs = DOMAIN q.containers
  OBVIOUS
<1> HIDE DEF xs
<1>4. xs \in Seq(Containers)
  <2> DEFINE n == Len(q.containers)
  <2>1. n \in Nat /\ DOMAIN q.containers = 1 .. n
    BY <1>1
  <2>2. xs = [i \in DOMAIN q.containers |-> xs[i]]
    BY DEF xs
  <2> HIDE DEF n
  <2>3. xs \in [1 .. n -> Containers]
    BY <1>2, <2>1, <2>2
  <2> QED
    BY <2>1, <2>3, SeqDef
<1>5. ProxiedUpTo(q, c, k) = Pod(q.identity, q.labels, xs, q.volumes)
  BY DEF ProxiedUpTo, xs
<1> QED
  BY <1>3, <1>4, <1>5 DEF Pod, Pods

LEMMA OneMoreProxied ==
  ASSUME NEW c \in ConfigType, NEW q \in Pods, NEW k \in 1 .. Len(q.containers)
  PROVE  With(ProxiedUpTo(q, c, k - 1), k, Proxied(q.containers[k], c)) =
           ProxiedUpTo(q, c, k)
<1> DEFINE all(m) == [i \in DOMAIN q.containers |->
                        IF i <= m THEN Proxied(q.containers[i], c) ELSE q.containers[i]]
<1>1. DOMAIN q.containers = 1 .. Len(q.containers) /\ Len(q.containers) \in Nat
  BY DEF Pods
<1>2. [all(k - 1) EXCEPT ![k] = Proxied(q.containers[k], c)] = all(k)
  <2> DEFINE a == [all(k - 1) EXCEPT ![k] = Proxied(q.containers[k], c)]
  <2>1. DOMAIN a = DOMAIN q.containers /\ a = [i \in DOMAIN q.containers |-> a[i]]
    OBVIOUS
  <2>2. ASSUME NEW i \in DOMAIN q.containers PROVE a[i] = all(k)[i]
    <3>1. CASE i = k
      BY <1>1, <3>1
    <3>2. CASE i # k
      <4>1. i <= k - 1 <=> i <= k
        BY <1>1, <3>2
      <4> QED
        BY <3>2, <4>1
    <3> QED
      BY <3>1, <3>2
  <2> QED
    BY <2>1, <2>2
<1> QED
  BY <1>2 DEF With, ProxiedUpTo, Pod

LEMMA ContainersDone ==
  ASSUME NEW c \in ConfigType, NEW p \in Pods, NEW q \in Pods,
         q.containers = p.containers
  PROVE  LET n == Len(p.containers)
             ops == ContainerOps(p, c, n)
         IN  /\ ops \in Seq(Ops)
             /\ NoRoom(p, c, n) => Apply(q, ops) = Failed
             /\ ~ NoRoom(p, c, n) => Apply(q, ops) = ProxiedUpTo(q, c, n)
<1> DEFINE n == Len(p.containers)
           Done(ops, k) == /\ ops \in Seq(Ops)
                           /\ NoRoom(p, c, k) => Apply(q, ops) = Failed
                           /\ ~ NoRoom(p, c, k) => Apply(q, ops) = ProxiedUpTo(q, c, k)
<1>1. n \in Nat /\ DOMAIN p.containers = 1 .. n /\ n = Len(q.containers)
  BY DEF Pods
<1> HIDE DEF n
<1>2. PICK f : Listed(p, c, n, f) /\ ContainerOps(p, c, n) = f[n]
  BY <1>1, ContainerOpsListed
<1> DEFINE S == {k \in 0 .. n : Done(f[k], k)}
<1>3. 0 \in S
  <2>1. f[0] = <<>>
    BY <1>1, <1>2 DEF Listed
  <2>2. ProxiedUpTo(q, c, 0) = q
    <3>1. q.containers \in Seq(Containers)
      BY DEF Pods
    <3>2. [i \in DOMAIN q.containers |->
             IF i <= 0 THEN Proxied(q.containers[i], c) ELSE q.containers[i]]
            = q.containers
      BY <3>1
    <3> QED
      BY <3>2 DEF ProxiedUpTo, Pod, Pods
  <2>3. ~ NoRoom(p, c, 0)
    BY DEF NoRoom
  <2>4. Apply(q, <<>>) = q /\ <<>> \in Seq(Ops)
    BY ApplyNone
  <2>5. Done(f[0], 0)
    BY <2>1, <2>2, <2>3, <2>4
  <2> QED
    BY <1>1, <2>5
<1>4. ASSUME NEW k \in 1 .. n, k - 1 \in S PROVE k \in S
  <2> DEFINE old == f[k - 1]
             e == EnvOps(p, k, c)
             m == mitmCAVolumeMountOp(k, c)
             q1 == ProxiedUpTo(q, c, k - 1)
             x == q.containers[k]
  <2>1. k \in 0 .. n /\ k # 0 /\ k - 1 \in 0 .. n /\ k \in Nat /\ k \in DOMAIN q.containers
    BY <1>1
  <2>2. Done(old, k - 1)
    BY <1>4
  <2>3. e \in Seq(Ops) /\ m \in Seq(Ops) /\ e \o m \in Seq(Ops) /\ old \in Seq(Ops)
    BY <2>1, <2>2, OpsTyped
  <2>4. f[k] = old \o (e \o m)
    <3>1. f[k] = (old \o e) \o m
      BY <1>2, <2>1 DEF Listed
    <3> HIDE DEF old, e, m
    <3>2. e \in Seq(Ops) /\ m \in Seq(Ops) /\ old \in Seq(Ops)
      BY <2>3
    <3>3. (old \o e) \o m = old \o (e \o m)
      BY ONLY <3>2, ConcatAssociative
    <3> QED
      BY <3>1, <3>3
  <2>5. f[k] \in Seq(Ops)
    BY <2>3, <2>4
  <2>6. Apply(q, f[k]) = Apply(Apply(q, old), e \o m)
    <3> DEFINE em == e \o m
    <3>1. em \in Seq(Ops) /\ f[k] = old \o em
      BY <2>3, <2>4
    <3> HIDE DEF old, em
    <3>2. Apply(q, old \o em) = Apply(Apply(q, old), em)
      BY <2>3, <3>1, ApplyBoth
    <3>3. Apply(q, f[k]) = Apply(Apply(q, old), em)
      BY <3>1, <3>2
    <3> QED
      BY <3>3 DEF em
  <2>7. NoRoom(p, c, k) <=> NoRoom(p, c, k - 1) \/ (c.mitmCASecret /\ x.mounts = {})
    <3>1. \A i : i \in 1 .. k <=> i \in 1 .. k - 1 \/ i = k
      BY <2>1
    <3>2. x = p.containers[k]
      OBVIOUS
    <3> QED
      BY <3>1, <3>2, Zenon DEF NoRoom
  <2>8. CASE NoRoom(p, c, k - 1)
    <3>1. Apply(q, f[k]) = Failed
      BY <2>2, <2>3, <2>6, <2>8, ApplyFailed
    <3> QED
      BY <2>1, <2>5, <2>7, <2>8, <3>1
  <2>9. CASE ~ NoRoom(p, c, k - 1)
    <3>1. Apply(q, f[k]) = Apply(q1, e \o m)
      BY <2>2, <2>6, <2>9
    <3>2. q1 \in Pods /\ k \in DOMAIN q1.containers
      BY <1>1, <2>1, ProxiedUpToTyped
    <3>3. q1.containers[k] = x /\ x = p.containers[k]
      BY <2>1 DEF ProxiedUpTo, Pod
    <3>4. /\ c.mitmCASecret /\ x.mounts = {} => Apply(q1, e \o m) = Failed
          /\ ~ (c.mitmCASecret /\ x.mounts = {}) =>
               Apply(q1, e \o m) = With(q1, k, Proxied(x, c))
      <4> HIDE DEF q1, x
      <4> QED
        BY <3>2, <3>3, ContainerDone
    <3>5. With(q1, k, Proxied(x, c)) = ProxiedUpTo(q, c, k)
      BY <1>1, OneMoreProxied
    <3> QED
      BY <2>1, <2>5, <2>7, <2>9, <3>1, <3>4, <3>5
  <2> QED
    BY <2>8, <2>9
<1> HIDE DEF S
<1>5. n \in S
  <2>1. \A k \in 0 .. n : k \in S
    BY <1>1, <1>3, <1>4, UpTo
  <2> QED
    BY <1>1, <2>1
<1> QED
  BY <1>2, <1>5 DEF S, n

-----------------------------------------------------------------------------
(* The whole patch.                                                        *)

LEMMA EngineTyped ==
  ASSUME NEW c \in ConfigType
  PROVE  buildEngineContainer(c) \in Containers
<1>1. \A name \in Literals : \A value \in Texts : Var(name, value) \in Vars
  BY TextsKnown DEF Var, Vars
<1>2. /\ c.allowlist \in Texts /\ c.maxRequests \in Texts /\ c.rateLimit \in Texts
      /\ c.maxTokens \in Texts /\ c.mitmHosts \in Texts
  BY TextsKnown DEF ConfigType
<1>3. engineListenPort(c) \in Texts
  BY ProxyEnvTyped
<1>4. \A name \in Literals : \A text \in Texts : Given(name, text) \in Seq(Vars)
  <2> SUFFICES ASSUME NEW name \in Literals, NEW text \in Texts
               PROVE  Given(name, text) \in Seq(Vars)
    OBVIOUS
  <2> DEFINE v == Var(name, text)
  <2>1. v \in Vars
    BY <1>1
  <2>2. Given(name, text) = IF text = "" THEN <<>> ELSE <<v>>
    BY DEF Given
  <2> HIDE DEF v
  <2>3. <<v>> \in Seq(Vars) /\ <<>> \in Seq(Vars)
    BY <2>1
  <2> QED
    BY <2>2, <2>3
<1>5. LimitEnv(c) \in Seq(Vars)
  <2> DEFINE a == Given("MAX_REQUESTS", c.maxRequests)
             b == Given("RATE_LIMIT", c.rateLimit)
             d == Given("MAX_TOKENS", c.maxTokens)
  <2>1. a \in Seq(Vars) /\ b \in Seq(Vars) /\ d \in Seq(Vars)
    BY <1>2, <1>4 DEF Literals
  <2>2. LimitEnv(c) = a \o b \o d
    BY DEF LimitEnv
  <2> HIDE DEF a, b, d
  <2> QED
    BY <2>1, <2>2
<1>6. SinkEnv(c) \in Seq(Vars)
  <2> DEFINE a == Var("AUDIT_FILE", "/var/log/aegrail")
             b == Var("AUDIT_STDOUT", "1")
  <2>1. a \in Vars /\ b \in Vars
    BY <1>1, TextsKnown DEF Literals
  <2>2. SinkEnv(c) \in {<<a>>, <<b>>}
    BY DEF SinkEnv
  <2> HIDE DEF a, b
  <2>3. <<a>> \in Seq(Vars) /\ <<b>> \in Seq(Vars)
    BY <2>1
  <2> QED
    BY <2>2, <2>3
<1>7. MITMEnv(c) \in Seq(Vars)
  <2> DEFINE a == Var("MITM_HOSTS", c.mitmHosts)
             b == Var("MITM_CA_CERT_FILE", "tls.crt")
             d == Var("MITM_CA_KEY_FILE", "tls.key")
  <2>1. a \in Vars /\ b \in Vars /\ d \in Vars
    BY <1>1, <1>2, TextsKnown DEF Literals
  <2>2. MITMEnv(c) \in {<<a, b, d>>, <<>>}
    BY DEF MITMEnv
  <2> HIDE DEF a, b, d
  <2>3. <<a, b, d>> \in Seq(Vars) /\ <<>> \in Seq(Vars)
    BY <2>1
  <2> QED
    BY <2>2, <2>3
<1> DEFINE a == Var("ALLOWLIST", c.allowlist)
           b == Var("AGENT_IDENTITY", "label")
           d == Var("LISTEN", engineListenPort(c))
<1>8. a \in Vars /\ b \in Vars /\ d \in Vars
  BY <1>1, <1>2, <1>3, TextsKnown DEF Literals
<1>9. buildEngineContainer(c) =
        Container(EngineContainerName,
                  <<a, b, d>> \o SinkEnv(c) \o LimitEnv(c) \o MITMEnv(c),
                  IF c.mitmCASecret THEN {CAVolume} ELSE {}, engineListenPort(c))
  BY DEF buildEngineContainer, Container
<1> HIDE DEF a, b, d
<1>10. <<a, b, d>> \o SinkEnv(c) \o LimitEnv(c) \o MITMEnv(c) \in Seq(Vars)
  BY <1>5, <1>6, <1>7, <1>8
<1>11. EngineContainerName \in Texts /\ CAVolume \in Texts
  BY TextsKnown DEF EngineContainerName, CAVolume, Literals
<1> QED
  BY <1>3, <1>9, <1>10, <1>11 DEF Container, Containers

\* The pod BuildPatch is after.
Injected(p, c) ==
  Pod(IF p.identity = "none" THEN c.defaultIdentity ELSE p.identity, p.labels,
      Append([i \in DOMAIN p.containers |-> Proxied(p.containers[i], c)],
             buildEngineContainer(c)),
      IF c.mitmCASecret THEN p.volumes \cup {CAVolume} ELSE p.volumes)

\* It has nowhere to put the CA.
Unpatchable(p, c) ==
  /\ c.mitmCASecret
  /\ p.volumes = {} \/ \E i \in DOMAIN p.containers : p.containers[i].mounts = {}

LEMMA AllProxied ==
  ASSUME NEW c \in ConfigType, NEW p \in Pods
  PROVE  [i \in DOMAIN p.containers |-> Proxied(p.containers[i], c)] \in Seq(Containers)
<1> DEFINE n == Len(p.containers)
           xs == [i \in DOMAIN p.containers |-> Proxied(p.containers[i], c)]
<1>1. n \in Nat /\ DOMAIN p.containers = 1 .. n
      /\ \A i \in 1 .. n : p.containers[i] \in Containers
  BY DEF Pods
<1>2. xs \in [1 .. n -> Containers]
  BY <1>1, ProxiedTyped
<1> HIDE DEF n, xs
<1>3. xs \in Seq(Containers)
  BY <1>1, <1>2, SeqDef
<1> QED
  BY <1>3 DEF xs

LEMMA PatchDone ==
  ASSUME NEW c \in ConfigType, NEW p \in Pods, ~ alreadyInjected(p)
  PROVE  /\ Unpatchable(p, c) => Patched(p, c) = Failed
         /\ ~ Unpatchable(p, c) => Patched(p, c) = Injected(p, c)
<1> DEFINE n == Len(p.containers)
           L == LabelOps(p, c)
           C == ContainerOps(p, c, n)
           V == mitmCAVolumeOp(c)
           x == buildEngineContainer(c)
           X == <<Op("containers/-", 0, x)>>
           p1 == Apply(p, L)
           p2 == Apply(p1, C)
           p3 == Apply(p2, V)
<1>1. n \in Nat /\ DOMAIN p.containers = 1 .. n
  BY DEF Pods
<1>2. /\ p1 = Pod(IF p.identity = "none" THEN c.defaultIdentity ELSE p.identity,
                  p.labels, p.containers, p.volumes)
      /\ p1 \in Pods /\ p1.containers = p.containers /\ p1.volumes = p.volumes
  <2>1. c.defaultIdentity \in Texts
    BY TextsKnown DEF ConfigType, Literals
  <2>2. p1 = Pod(IF p.identity = "none" THEN c.defaultIdentity ELSE p.identity,
                 p.labels, p.containers, p.volumes)
    BY Labelled
  <2> QED
    BY <2>1, <2>2 DEF Pod, Pods
<1> HIDE DEF p1
<1>3. /\ C \in Seq(Ops)
      /\ NoRoom(p, c, n) => p2 = Failed
      /\ ~ NoRoom(p, c, n) => p2 = ProxiedUpTo(p1, c, n)
  BY <1>2, ContainersDone
<1>4. x \in Containers /\ X \in Seq(Ops) /\ L \in Seq(Ops) /\ V \in Seq(Ops)
  <2>1. x \in Containers
    BY EngineTyped
  <2>2. x \in Values
    BY <2>1 DEF Values
  <2> DEFINE op == Op("containers/-", 0, x)
  <2>3. op \in Ops
    BY <2>2, OpTyped
  <2>4. X = <<op>>
    OBVIOUS
  <2>5. L \in Seq(Ops) /\ V \in Seq(Ops)
    BY OpsTyped
  <2> HIDE DEF op, L, V, X, x
  <2>6. X \in Seq(Ops)
    BY <2>3, <2>4
  <2> QED
    BY <2>1, <2>5, <2>6
<1> HIDE DEF L, C, V, x, X
<1>5. Patched(p, c) = Apply(p3, X)
  <2> DEFINE LC == L \o C
             LCV == LC \o V
  <2>1. LC \in Seq(Ops) /\ LCV \in Seq(Ops)
    BY <1>3, <1>4
  <2>2. Patched(p, c) = Apply(p, LCV \o X)
    BY DEF Patched, BuildPatch, L, C, V, X, x
  <2>3. Apply(p, LC) = p2
    BY <1>3, <1>4, ApplyBoth DEF p1
  <2> HIDE DEF LC
  <2>4. Apply(p, LCV) = p3
    BY <1>4, <2>1, <2>3, ApplyBoth
  <2> HIDE DEF LCV
  <2> QED
    BY <1>4, <2>1, <2>2, <2>4, ApplyBoth
<1> HIDE DEF p2, p3
<1>6. NoRoom(p, c, n) => Patched(p, c) = Failed
  <2> SUFFICES ASSUME NoRoom(p, c, n) PROVE Patched(p, c) = Failed
    OBVIOUS
  <2>1. p3 = Failed
    BY <1>3, <1>4, ApplyFailed DEF p3
  <2> QED
    BY <1>4, <1>5, <2>1, ApplyFailed
<1> DEFINE q == ProxiedUpTo(p1, c, n)
           xs == [i \in DOMAIN p.containers |-> Proxied(p.containers[i], c)]
           vs == IF c.mitmCASecret THEN p.volumes \cup {CAVolume} ELSE p.volumes
<1>7. q \in Pods /\ q = Pod(p1.identity, p1.labels, xs, p.volumes)
  <2>1. q \in Pods
    BY <1>1, <1>2, ProxiedUpToTyped
  <2>2. [i \in DOMAIN p.containers |->
           IF i <= n THEN Proxied(p.containers[i], c) ELSE p.containers[i]] = xs
    BY <1>1
  <2> QED
    BY <1>2, <2>1, <2>2 DEF ProxiedUpTo
<1>8. ASSUME ~ NoRoom(p, c, n), c.mitmCASecret, p.volumes = {}
      PROVE  Patched(p, c) = Failed
  <2>1. p3 = ApplyOp(q, Op("volumes/-", 0, CAVolume))
    BY <1>3, <1>8, ApplyOne DEF p3, V, mitmCAVolumeOp
  <2>2. CAVolume \in Texts /\ q.volumes = {}
    BY <1>7, <1>8, CAVolumeKnown DEF Pod
  <2> HIDE DEF q
  <2>3. p3 = Failed
    BY <1>7, <2>1, <2>2, VolumeAdded
  <2> QED
    BY <1>4, <1>5, <2>3, ApplyFailed
<1>9. ASSUME ~ NoRoom(p, c, n), ~ (c.mitmCASecret /\ p.volumes = {})
      PROVE  Patched(p, c) = Injected(p, c)
  <2>1. p3 \in Pods /\ p3 = Pod(p1.identity, p1.labels, xs, vs)
    <3>1. CASE ~ c.mitmCASecret
      <4>1. p3 = q
        BY <1>3, <1>9, <3>1, ApplyNone DEF p3, V, mitmCAVolumeOp
      <4> QED
        BY <1>7, <3>1, <4>1
    <3>2. CASE c.mitmCASecret
      <4>1. p3 = ApplyOp(q, Op("volumes/-", 0, CAVolume))
        BY <1>3, <1>9, <3>2, ApplyOne DEF p3, V, mitmCAVolumeOp
      <4>2. /\ CAVolume \in Texts /\ q.volumes = p.volumes /\ q.volumes # {}
            /\ q.identity = p1.identity /\ q.labels = p1.labels /\ q.containers = xs
        BY <1>7, <1>9, <3>2, CAVolumeKnown DEF Pod
      <4> HIDE DEF q, xs
      <4>3. p3 = Pod(q.identity, q.labels, q.containers, q.volumes \cup {CAVolume})
        BY <1>7, <4>1, <4>2, VolumeAdded
      <4>4. p3 \in Pods
        BY <1>7, <4>2, <4>3 DEF Pod, Pods
      <4> QED
        BY <3>2, <4>2, <4>3, <4>4
    <3> QED
      BY <3>1, <3>2
  <2>2. Patched(p, c) = ApplyOp(p3, Op("containers/-", 0, x))
    BY <1>5, ApplyOne DEF X
  <2>3. Patched(p, c) = Pod(p3.identity, p3.labels, Append(p3.containers, x), p3.volumes)
    BY <1>4, <2>1, <2>2, ContainerAdded
  <2> HIDE DEF xs, vs
  <2>4. Patched(p, c) = Pod(p1.identity, p1.labels, Append(xs, x), vs)
    BY <2>1, <2>3 DEF Pod
  <2> QED
    BY <1>2, <2>4 DEF Injected, xs, vs, x, Pod
<1> QED
  BY <1>1, <1>6, <1>8, <1>9 DEF Unpatchable, NoRoom

-----------------------------------------------------------------------------
(* What a container sees of its variables.                                 *)

Sets(s, name) == \E i \in DOMAIN s : s[i].name = name
Setting(s, name) == Env([env |-> s], name)

LEMMA EnvSetting ==
  ASSUME NEW x, NEW name
  PROVE  Env(x, name) = Setting(x.env, name)
BY DEF Env, Setting

\* A nonempty set of positions up to n has a largest one.
LEMMA LargestPosition ==
  ASSUME NEW n \in Nat, NEW S \in SUBSET (1 .. n), S # {}
  PROVE  \E i \in S : \A j \in S : j <= i
<1> DEFINE T == {k \in 0 .. n : \A R \in SUBSET (1 .. k) :
                                R # {} => \E i \in R : \A j \in R : j <= i}
<1>1. 0 \in T
  <2>1. \A R \in SUBSET (1 .. 0) : R = {}
    OBVIOUS
  <2>2. 0 \in 0 .. n
    OBVIOUS
  <2> QED
    BY <2>1, <2>2, Zenon
<1>2. ASSUME NEW k \in 1 .. n, k - 1 \in T PROVE k \in T
  <2> SUFFICES ASSUME NEW R \in SUBSET (1 .. k), R # {}
               PROVE  \E i \in R : \A j \in R : j <= i
    OBVIOUS
  <2>1. CASE k \in R
    BY <2>1
  <2>2. CASE k \notin R
    <3>1. R \in SUBSET (1 .. k - 1)
      BY <2>2
    <3> QED
      BY <1>2, <3>1
  <2> QED
    BY <2>1, <2>2
<1> HIDE DEF T
<1>3. \A k \in 0 .. n : k \in T
  BY <1>1, <1>2, UpTo
<1>4. n \in T
  BY <1>3
<1> QED
  BY <1>4 DEF T

\* The setting is the last one there is.
LEMMA LastSetting ==
  ASSUME NEW s \in Seq(Vars), NEW name, NEW j \in DOMAIN s, s[j].name = name,
         \A k \in DOMAIN s : s[k].name = name => k <= j
  PROVE  Setting(s, name) = s[j].value
<1> DEFINE set == {i \in DOMAIN s : s[i].name = name}
<1>1. DOMAIN s \subseteq Nat
  OBVIOUS
<1>2. j \in set /\ \A k \in set : j >= k
  BY <1>1
<1>3. set \subseteq Nat
  BY <1>1
<1>4. Setting(s, name) = IF set = {} THEN "" ELSE s[Max(set)].value
  BY DEF Setting, Env
<1> HIDE DEF set
<1>5. Max(set) \in set /\ \A k \in set : Max(set) >= k
  BY <1>2 DEF Max
<1>6. Max(set) = j
  BY <1>2, <1>3, <1>5
<1> QED
  BY <1>2, <1>4, <1>6

LEMMA NoSetting ==
  ASSUME NEW s, NEW name, ~ Sets(s, name)
  PROVE  Setting(s, name) = ""
BY DEF Setting, Env, Sets

LEMMA SomeSetting ==
  ASSUME NEW s \in Seq(Vars), NEW name, Sets(s, name)
  PROVE  \E j \in DOMAIN s :
           /\ s[j].name = name /\ Setting(s, name) = s[j].value
           /\ \A k \in DOMAIN s : s[k].name = name => k <= j
<1> DEFINE set == {i \in DOMAIN s : s[i].name = name}
<1>1. Len(s) \in Nat /\ DOMAIN s = 1 .. Len(s)
  OBVIOUS
<1>2. set \in SUBSET (1 .. Len(s)) /\ set # {}
  BY <1>1 DEF Sets
<1> HIDE DEF set
<1>3. PICK j \in set : \A k \in set : k <= j
  BY <1>1, <1>2, LargestPosition
<1>4. j \in DOMAIN s /\ s[j].name = name /\ \A k \in DOMAIN s : s[k].name = name => k <= j
  BY <1>3 DEF set
<1> QED
  BY <1>4, LastSetting

\* Variables that are added count first.
LEMMA SettingBoth ==
  ASSUME NEW s \in Seq(Vars), NEW t \in Seq(Vars), NEW name
  PROVE  /\ Sets(s \o t, name) <=> Sets(s, name) \/ Sets(t, name)
         /\ Sets(t, name) => Setting(s \o t, name) = Setting(t, name)
         /\ ~ Sets(t, name) => Setting(s \o t, name) = Setting(s, name)
<1> DEFINE a == Len(s)
           b == Len(t)
           u == s \o t
<1>1. /\ a \in Nat /\ b \in Nat /\ u \in Seq(Vars) /\ DOMAIN u = 1 .. a + b
      /\ DOMAIN s = 1 .. a /\ DOMAIN t = 1 .. b
      /\ \A k \in 1 .. a : u[k] = s[k]
      /\ \A k \in 1 .. b : u[a + k] = t[k]
  OBVIOUS
<1> HIDE DEF a, b, u
<1>2. \A k \in 1 .. a + b : k \in 1 .. a \/ (k - a \in 1 .. b /\ u[k] = t[k - a])
  <2> SUFFICES ASSUME NEW k \in 1 .. a + b, k \notin 1 .. a
               PROVE  k - a \in 1 .. b /\ u[k] = t[k - a]
    OBVIOUS
  <2>1. k - a \in 1 .. b /\ a + (k - a) = k
    BY <1>1
  <2> QED
    BY <1>1, <2>1
<1>3. /\ \A k \in 1 .. a : k \in 1 .. a + b
      /\ \A k \in 1 .. b : a + k \in 1 .. a + b
  BY <1>1
<1>4. Sets(u, name) <=> Sets(s, name) \/ Sets(t, name)
  <2>1. ASSUME Sets(s, name) PROVE Sets(u, name)
    BY <1>1, <1>3, <2>1 DEF Sets
  <2>2. ASSUME Sets(t, name) PROVE Sets(u, name)
    <3>1. PICK k \in 1 .. b : t[k].name = name
      BY <1>1, <2>2 DEF Sets
    <3>2. a + k \in DOMAIN u /\ u[a + k].name = name
      BY <1>1, <1>3, <3>1
    <3> QED
      BY <3>2 DEF Sets
  <2>3. ASSUME Sets(u, name) PROVE Sets(s, name) \/ Sets(t, name)
    <3>1. PICK k \in 1 .. a + b : u[k].name = name
      BY <1>1, <2>3 DEF Sets
    <3>2. CASE k \in 1 .. a
      BY <1>1, <3>1, <3>2 DEF Sets
    <3>3. CASE k - a \in 1 .. b /\ u[k] = t[k - a]
      BY <1>1, <3>1, <3>3 DEF Sets
    <3> QED
      BY <1>2, <3>2, <3>3
  <2> QED
    BY <2>1, <2>2, <2>3
<1>5. ASSUME Sets(t, name) PROVE Setting(u, name) = Setting(t, name)
  <2>1. PICK j \in DOMAIN t :
          /\ t[j].name = name /\ Setting(t, name) = t[j].value
          /\ \A k \in DOMAIN t : t[k].name = name => k <= j
    BY <1>5, SomeSetting
  <2> DEFINE i == a + j
  <2>2. i \in DOMAIN u /\ u[i] = t[j]
    BY <1>1, <1>3
  <2>3. ASSUME NEW k \in DOMAIN u, u[k].name = name PROVE k <= i
    <3>1. CASE k \in 1 .. a
      BY <1>1, <3>1
    <3>2. CASE k \notin 1 .. a
      <4>1. k - a \in 1 .. b /\ t[k - a].name = name
        BY <1>1, <1>2, <2>3, <3>2
      <4>2. k - a <= j
        BY <1>1, <2>1, <4>1
      <4> QED
        BY <1>1, <4>2
    <3> QED
      BY <3>1, <3>2
  <2> HIDE DEF i
  <2>4. Setting(u, name) = u[i].value
    BY <1>1, <2>1, <2>2, <2>3, LastSetting
  <2> QED
    BY <2>1, <2>2, <2>4
<1>6. ASSUME ~ Sets(t, name), Sets(s, name) PROVE Setting(u, name) = Setting(s, name)
  <2>1. PICK j \in DOMAIN s :
          /\ s[j].name = name /\ Setting(s, name) = s[j].value
          /\ \A k \in DOMAIN s : s[k].name = name => k <= j
    BY <1>6, SomeSetting
  <2>2. j \in DOMAIN u /\ u[j] = s[j]
    BY <1>1, <1>3
  <2>3. ASSUME NEW k \in DOMAIN u, u[k].name = name PROVE k <= j
    <3>1. k \in 1 .. a
      BY <1>1, <1>2, <1>6, <2>3 DEF Sets
    <3> QED
      BY <1>1, <2>1, <2>3, <3>1
  <2>4. Setting(u, name) = u[j].value
    BY <1>1, <2>1, <2>2, <2>3, LastSetting
  <2> QED
    BY <2>1, <2>2, <2>4
<1>7. ASSUME ~ Sets(t, name), ~ Sets(s, name) PROVE Setting(u, name) = Setting(s, name)
  BY <1>4, <1>7, NoSetting
<1> QED
  BY <1>4, <1>5, <1>6, <1>7 DEF u

LEMMA SettingOne ==
  ASSUME NEW v \in Vars, NEW name
  PROVE  /\ Sets(<<v>>, name) <=> v.name = name
         /\ v.name = name => Setting(<<v>>, name) = v.value
<1> DEFINE s == <<v>>
<1>1. s \in Seq(Vars) /\ DOMAIN s = {1} /\ s[1] = v
  OBVIOUS
<1> HIDE DEF s
<1>2. Sets(s, name) <=> v.name = name
  BY <1>1 DEF Sets
<1>3. ASSUME v.name = name PROVE Setting(s, name) = v.value
  <2>1. 1 \in DOMAIN s /\ s[1].name = name /\ \A k \in DOMAIN s : k <= 1
    BY <1>1, <1>3
  <2> QED
    BY <1>1, <2>1, LastSetting
<1> QED
  BY <1>2, <1>3 DEF s

LEMMA SettingThree ==
  ASSUME NEW a \in Vars, NEW b \in Vars, NEW d \in Vars, NEW name
  PROVE  LET s == <<a, b, d>>
         IN  /\ s \in Seq(Vars)
             /\ Sets(s, name) <=> a.name = name \/ b.name = name \/ d.name = name
             /\ d.name = name => Setting(s, name) = d.value
             /\ d.name # name /\ b.name = name => Setting(s, name) = b.value
             /\ d.name # name /\ b.name # name /\ a.name = name =>
                  Setting(s, name) = a.value
<1> DEFINE s == <<a, b, d>>
<1>1. s \in Seq(Vars) /\ DOMAIN s = 1 .. 3 /\ s[1] = a /\ s[2] = b /\ s[3] = d
  OBVIOUS
<1> HIDE DEF s
<1>2. \A k : k \in DOMAIN s <=> k = 1 \/ k = 2 \/ k = 3
  BY <1>1
<1>3. Sets(s, name) <=> a.name = name \/ b.name = name \/ d.name = name
  BY <1>1, <1>2 DEF Sets
<1>4. ASSUME d.name = name PROVE Setting(s, name) = d.value
  <2>1. 3 \in DOMAIN s /\ s[3].name = name /\ \A k \in DOMAIN s : k <= 3
    BY <1>1, <1>2, <1>4
  <2> QED
    BY <1>1, <2>1, LastSetting
<1>5. ASSUME d.name # name, b.name = name PROVE Setting(s, name) = b.value
  <2>1. /\ 2 \in DOMAIN s /\ s[2].name = name
        /\ \A k \in DOMAIN s : s[k].name = name => k <= 2
    BY <1>1, <1>2, <1>5
  <2> QED
    BY <1>1, <2>1, LastSetting
<1>6. ASSUME d.name # name, b.name # name, a.name = name
      PROVE  Setting(s, name) = a.value
  <2>1. /\ 1 \in DOMAIN s /\ s[1].name = name
        /\ \A k \in DOMAIN s : s[k].name = name => k <= 1
    BY <1>1, <1>2, <1>6
  <2> QED
    BY <1>1, <2>1, LastSetting
<1> QED
  BY <1>1, <1>3, <1>4, <1>5, <1>6 DEF s

-----------------------------------------------------------------------------
(* What the webhook keeps true of a pod.                                   *)

\* As an author or another webhook writes a container.
Bare(x) ==
  /\ x.name # EngineContainerName
  /\ \A j \in DOMAIN x.env : x.env[j].name = "HTTP_PROXY"

NotInjected == \A i \in DOMAIN pod.containers : Bare(pod.containers[i])

\* The engine is at e, made for cfg like everything before it.
InjectedAt(e) ==
  /\ pod.containers[e] = buildEngineContainer(cfg)
  /\ \A i \in 1 .. e - 1 :
       \E x \in Containers : Bare(x) /\ pod.containers[i] = Proxied(x, cfg)
  /\ \A i \in e + 1 .. Len(pod.containers) : Bare(pod.containers[i])

WasInjected ==
  /\ cfg \in Configs /\ cfg \in ConfigType
  /\ pod.identity # "none"
  /\ cfg.mitmCASecret => CAVolume \in pod.volumes
  /\ \E e \in DOMAIN pod.containers : InjectedAt(e)

\* An identity is the author's, or ours.
IdentityKnown ==
  \/ pod.identity \in {"none", "", "theirs"}
  \/ WasInjected /\ pod.identity = cfg.defaultIdentity

(***************************************************************************)
(* The inductive invariant: a pod has no engine and nothing of ours, or it *)
(* has one engine, and all that is ours comes from one configuration.      *)
(***************************************************************************)
WebInv ==
  /\ pod \in Pods
  /\ NotInjected \/ WasInjected
  /\ IdentityKnown
  /\ RejectionsKnown

LEMMA UserPodsTyped ==
  ASSUME NEW p \in UserPods
  PROVE  /\ p \in Pods /\ p.identity \in {"none", "", "theirs"}
         /\ \A i \in DOMAIN p.containers : Bare(p.containers[i])
<1>1. ASSUME NEW x \in UserContainers PROVE x \in Containers /\ Bare(x)
  <2> DEFINE v == Var("HTTP_PROXY", "theirs")
  <2>1. v \in Vars /\ v.name = "HTTP_PROXY"
    BY TextsKnown DEF Var, Vars, Literals
  <2>2. /\ x.name = "agent" /\ x.env \in {<<>>, <<v>>}
        /\ x.mounts \in {{}, {"token"}} /\ x.port \in {"none", "8080"}
        /\ x = Container(x.name, x.env, x.mounts, x.port)
    BY DEF UserContainers, Container
  <2> HIDE DEF v
  <2>3. x.env \in Seq(Vars) /\ \A j \in DOMAIN x.env : x.env[j].name = "HTTP_PROXY"
    <3>1. CASE x.env = <<>>
      BY <3>1
    <3>2. CASE x.env = <<v>>
      BY <2>1, <3>2
    <3> QED
      BY <2>2, <3>1, <3>2
  <2>4. /\ "agent" \in Texts /\ "token" \in Texts /\ "none" \in Texts /\ "8080" \in Texts
    BY TextsKnown DEF Literals
  <2>5. x.name \in Texts /\ x.mounts \in SUBSET Texts /\ x.port \in Texts
    BY <2>2, <2>4
  <2>6. x \in Containers
    BY <2>2, <2>3, <2>5 DEF Container, Containers
  <2> QED
    BY <2>2, <2>3, <2>6 DEF Bare, EngineContainerName
<1>2. /\ p.identity \in {"none", "", "theirs"} /\ p.labels \in {{}, {"app"}}
      /\ p.volumes \in {{}, {"token"}}
      /\ p.containers \in UNION {[1 .. k -> UserContainers] : k \in 1 .. 2}
      /\ p = Pod(p.identity, p.labels, p.containers, p.volumes)
  BY DEF UserPods, Pod
<1>3. PICK k \in 1 .. 2 : p.containers \in [1 .. k -> UserContainers]
  BY <1>2
<1>4. p.containers \in [1 .. k -> Containers]
  BY <1>1, <1>3
<1>5. p.containers \in Seq(Containers)
  BY <1>4, SeqDef
<1>6. "none" \in Texts /\ "" \in Texts /\ "theirs" \in Texts /\ "app" \in Texts
      /\ "token" \in Texts
  BY TextsKnown DEF Literals
<1>7. p.identity \in Texts /\ p.labels \in SUBSET Texts /\ p.volumes \in SUBSET Texts
  BY <1>2, <1>6
<1>8. p \in Pods
  BY <1>2, <1>5, <1>7 DEF Pod, Pods
<1> QED
  BY <1>1, <1>2, <1>3, <1>8

LEMMA WebInitially == Init => WebInv
<1> SUFFICES ASSUME Init PROVE WebInv
  OBVIOUS
<1>1. pod \in UserPods /\ stage = "review"
  BY DEF Init, WebhookInit
<1> QED
  BY <1>1, UserPodsTyped DEF WebInv, NotInjected, IdentityKnown, RejectionsKnown

LEMMA InjectedOrNot ==
  ASSUME WebInv
  PROVE  /\ NotInjected <=> ~ alreadyInjected(pod)
         /\ WasInjected <=> alreadyInjected(pod)
<1>1. NotInjected => ~ alreadyInjected(pod)
  BY DEF NotInjected, alreadyInjected, Bare
<1>2. WasInjected => alreadyInjected(pod)
  BY DEF WasInjected, InjectedAt, alreadyInjected, buildEngineContainer
<1> QED
  BY <1>1, <1>2 DEF WebInv

\* The patch is applied.
LEMMA InjectKeeps ==
  ASSUME WebInv, NotInjected, NEW c \in Configs, cfg' = c,
         pod' = Injected(pod, c), stage' = stage, stage = "review"
  PROVE  WebInv'
<1>c. c \in ConfigType
  BY ConfigsAssumption
<1>0. PICK n \in Nat : n = Len(pod.containers)
  BY DEF WebInv, Pods
<1> DEFINE xs == [i \in DOMAIN pod.containers |-> Proxied(pod.containers[i], c)]
           x == buildEngineContainer(c)
           ys == Append(xs, x)
           id == IF pod.identity = "none" THEN c.defaultIdentity ELSE pod.identity
           vs == IF c.mitmCASecret THEN pod.volumes \cup {CAVolume} ELSE pod.volumes
<1>1. /\ pod \in Pods /\ DOMAIN pod.containers = 1 .. n
      /\ \A i \in 1 .. n : pod.containers[i] \in Containers
  BY <1>0 DEF WebInv, Pods
<1>2. xs \in Seq(Containers) /\ x \in Containers /\ Len(xs) = n
  <2>1. xs \in Seq(Containers) /\ DOMAIN xs = 1 .. n
    BY <1>c, <1>1, AllProxied
  <2> HIDE DEF xs
  <2> QED
    BY <1>c, <2>1, EngineTyped
<1>3. /\ id \in Texts /\ id # "none" /\ vs \in SUBSET Texts
      /\ pod.labels \in SUBSET Texts
      /\ c.mitmCASecret => CAVolume \in vs
  <2>1. c.defaultIdentity \in Texts /\ c.defaultIdentity # "none"
    BY <1>c, TextsKnown DEF ConfigType, Literals
  <2> QED
    BY <1>1, <2>1, CAVolumeKnown DEF Pods
<1>4. \A i \in 1 .. n : xs[i] = Proxied(pod.containers[i], c) /\ Bare(pod.containers[i])
  BY <1>1 DEF NotInjected
<1>5. pod' = Pod(id, pod.labels, ys, vs)
  BY DEF Injected
<1> HIDE DEF xs, x, id, vs
<1>6. /\ ys \in Seq(Containers) /\ Len(ys) = n + 1 /\ ys[n + 1] = x
      /\ \A i \in 1 .. n : ys[i] = xs[i]
  BY <1>1, <1>2
<1> HIDE DEF ys
<1>7. pod' \in Pods /\ pod'.containers = ys /\ pod'.identity = id /\ pod'.volumes = vs
  BY <1>3, <1>5, <1>6 DEF Pod, Pods
<1>8. n + 1 \in DOMAIN ys
  BY <1>1, <1>6
<1>9. /\ \A i \in 1 .. (n + 1) - 1 :
             \E y \in Containers : Bare(y) /\ ys[i] = Proxied(y, c)
      /\ \A i \in (n + 1) + 1 .. Len(ys) : Bare(ys[i])
  <2>1. (n + 1) - 1 = n /\ (n + 1) + 1 .. Len(ys) = {}
    BY <1>1, <1>6
  <2> QED
    BY <1>1, <1>4, <1>6, <2>1
<1>10. InjectedAt(n + 1)'
  BY <1>6, <1>7, <1>9 DEF InjectedAt, x
<1>11. WasInjected'
  BY <1>c, <1>3, <1>7, <1>8, <1>10 DEF WasInjected
<1>12. IdentityKnown'
  <2>1. ~ WasInjected
    BY InjectedOrNot
  <2>2. pod.identity \in {"none", "", "theirs"}
    BY <2>1 DEF WebInv, IdentityKnown
  <2> QED
    BY <1>7, <1>11, <2>2 DEF IdentityKnown, id
<1> QED
  BY <1>7, <1>11, <1>12 DEF WebInv, RejectionsKnown

LEMMA MutateKeeps ==
  ASSUME WebInv, NEW c \in Configs, Mutate(c)
  PROVE  WebInv'
<1>1. c \in ConfigType /\ pod \in Pods
  BY ConfigsAssumption DEF WebInv
<1>2. CASE alreadyInjected(pod)
  <2>1. Patched(pod, c) = pod
    BY <1>2, ApplyNone DEF Patched, BuildPatch
  <2>2. UNCHANGED <<pod, cfg, stage>>
    BY <1>1, <1>2, <2>1, NotFailed DEF Mutate
  <2> QED
    BY <2>2 DEF WebInv, NotInjected, WasInjected, InjectedAt, IdentityKnown, RejectionsKnown
<1>3. CASE ~ alreadyInjected(pod) /\ Unpatchable(pod, c)
  <2>1. Patched(pod, c) = Failed
    BY <1>1, <1>3, PatchDone
  <2>2. pod' = pod /\ cfg' = c /\ stage' = "rejected"
    BY <1>3, <2>1 DEF Mutate
  <2>3. NotInjected'
    BY <1>3, <2>2, InjectedOrNot DEF NotInjected
  <2>4. IdentityKnown'
    BY <1>3, <2>2, InjectedOrNot DEF WebInv, IdentityKnown
  <2> QED
    BY <1>1, <1>3, <2>2, <2>3, <2>4 DEF WebInv, RejectionsKnown, Unpatchable
<1>4. CASE ~ alreadyInjected(pod) /\ ~ Unpatchable(pod, c)
  <2>1. Patched(pod, c) = Injected(pod, c)
    BY <1>1, <1>4, PatchDone
  <2>2. Injected(pod, c) # Failed
    <3>1. "identity" \in DOMAIN Injected(pod, c) /\ "identity" \notin DOMAIN Failed
      BY DEF Injected, Pod, Failed
    <3> QED
      BY <3>1
  <2>3. pod' = Injected(pod, c) /\ cfg' = c /\ stage' = stage /\ stage = "review"
    BY <1>4, <2>1, <2>2 DEF Mutate
  <2>4. NotInjected
    BY <1>4, InjectedOrNot
  <2> QED
    BY <2>3, <2>4, InjectKeeps
<1> QED
  BY <1>2, <1>3, <1>4

\* A container of another webhook.
LEMMA OtherKeeps ==
  ASSUME WebInv, OtherWebhook
  PROVE  WebInv'
<1>0. PICK n \in Nat : n = Len(pod.containers)
  BY DEF WebInv, Pods
<1>1. PICK m \in SUBSET (pod.volumes \cap {"token"}) :
        pod' = [pod EXCEPT !.containers =
                  Append(pod.containers, [name |-> "mesh", env |-> <<>>, mounts |-> m,
                                          port |-> "none"])]
  BY DEF OtherWebhook
<1> DEFINE z == [name |-> "mesh", env |-> <<>>, mounts |-> m, port |-> "none"]
           xs == pod.containers
           ys == Append(xs, z)
<1>2. z \in Containers /\ Bare(z)
  <2>1. "mesh" \in Texts /\ "none" \in Texts
    BY TextsKnown DEF Literals
  <2>2. m \in SUBSET Texts
    BY DEF WebInv, Pods
  <2>3. <<>> \in Seq(Vars)
    OBVIOUS
  <2> QED
    BY <2>1, <2>2, <2>3 DEF Containers, Bare, EngineContainerName
<1>3. pod \in Pods /\ xs \in Seq(Containers) /\ stage = "review"
      /\ UNCHANGED <<cfg, stage>>
  BY DEF WebInv, Pods, OtherWebhook
<1> HIDE DEF z
<1>4. /\ ys \in Seq(Containers) /\ Len(ys) = n + 1 /\ ys[n + 1] = z
      /\ \A i \in 1 .. n : ys[i] = xs[i]
      /\ DOMAIN xs = 1 .. n /\ DOMAIN ys = 1 .. n + 1
  BY <1>0, <1>2, <1>3
<1>5. pod' \in Pods /\ pod'.containers = ys /\ pod'.identity = pod.identity
      /\ pod'.volumes = pod.volumes
  BY <1>1, <1>3, <1>4 DEF Pods, z
<1> HIDE DEF ys
<1>6. \A i \in 1 .. n + 1 : i \in 1 .. n \/ i = n + 1
  BY <1>0
<1>7. CASE NotInjected
  <2>1. NotInjected'
    BY <1>2, <1>4, <1>5, <1>6, <1>7 DEF NotInjected
  <2>2. IdentityKnown'
    BY <1>5, <1>7, InjectedOrNot DEF WebInv, IdentityKnown
  <2> QED
    BY <1>3, <1>5, <2>1, <2>2 DEF WebInv, RejectionsKnown
<1>8. CASE WasInjected
  <2>1. PICK e \in DOMAIN xs : InjectedAt(e)
    BY <1>8 DEF WasInjected
  <2>2. e \in 1 .. n /\ e \in DOMAIN ys /\ ys[e] = xs[e]
    BY <1>4, <2>1
  <2>3. \A i \in 1 .. e - 1 : ys[i] = xs[i]
    BY <1>4, <2>2
  <2>4. \A i \in e + 1 .. n + 1 : Bare(ys[i])
    <3> SUFFICES ASSUME NEW i \in e + 1 .. n + 1 PROVE Bare(ys[i])
      OBVIOUS
    <3>1. CASE i = n + 1
      BY <1>2, <1>4, <3>1
    <3>2. CASE i # n + 1
      <4>1. i \in e + 1 .. n /\ i \in 1 .. n
        BY <2>2, <3>2
      <4> QED
        BY <1>0, <1>4, <2>1, <4>1 DEF InjectedAt
    <3> QED
      BY <3>1, <3>2
  <2>5. InjectedAt(e)'
    BY <1>3, <1>4, <1>5, <2>1, <2>2, <2>3, <2>4 DEF InjectedAt
  <2>6. WasInjected'
    BY <1>3, <1>5, <1>8, <2>2, <2>5 DEF WasInjected
  <2>7. IdentityKnown'
    BY <1>3, <1>5, <2>6 DEF WebInv, IdentityKnown
  <2> QED
    BY <1>3, <1>5, <2>6, <2>7 DEF WebInv, RejectionsKnown
<1> QED
  BY <1>7, <1>8 DEF WebInv

\* Of the pod's life, only the webhooks change it.
LEMMA OthersKeepPod ==
  ASSUME [Next]_vars
  PROVE  \/ \E c \in Configs : Mutate(c)
         \/ OtherWebhook
         \/ /\ UNCHANGED <<pod, cfg>>
            /\ stage' = "rejected" => stage = "rejected" \/ ~ LabelsValid(pod)
BY DEF Next, vars, webhookVars, Admit, Resubmit, Schedule, Boot, LoadKey, RestartEngine,
       StartAgent, RestartAgent, RotateSecret

LEMMA WebStep == WebInv /\ [Next]_vars => WebInv'
<1> SUFFICES ASSUME WebInv, [Next]_vars PROVE WebInv'
  OBVIOUS
<1>1. CASE /\ UNCHANGED <<pod, cfg>>
           /\ stage' = "rejected" => stage = "rejected" \/ ~ LabelsValid(pod)
  <2>1. pod' \in Pods /\ (NotInjected' \/ WasInjected') /\ IdentityKnown'
    BY <1>1 DEF WebInv, NotInjected, WasInjected, InjectedAt, IdentityKnown
  <2>2. ~ LabelsValid(pod) => /\ cfg.defaultIdentity = "auto-injected/v1"
                              /\ pod.identity = cfg.defaultIdentity
    BY DEF WebInv, IdentityKnown, LabelsValid
  <2>3. RejectionsKnown'
    BY <1>1, <2>2 DEF WebInv, RejectionsKnown
  <2> QED
    BY <2>1, <2>3 DEF WebInv
<1> QED
  BY <1>1, OthersKeepPod, MutateKeeps, OtherKeeps

LEMMA WebAlways == Spec => []WebInv
BY WebInitially, WebStep, PTL DEF Spec

-----------------------------------------------------------------------------
(* The containers of an injected pod.                                      *)

LEMMA EngineAlone ==
  ASSUME WebInv
  PROVE  /\ NotInjected => Engines = {}
         /\ \A e \in DOMAIN pod.containers : InjectedAt(e) => Engines = {e}
<1>1. NotInjected => Engines = {}
  BY DEF NotInjected, Bare, Engines
<1>2. ASSUME NEW e \in DOMAIN pod.containers, InjectedAt(e) PROVE Engines = {e}
  <2>1. PICK n \in Nat : n = Len(pod.containers) /\ DOMAIN pod.containers = 1 .. n
    BY DEF WebInv, Pods
  <2>2. e \in Engines
    BY <1>2 DEF Engines, InjectedAt, buildEngineContainer
  <2>3. ASSUME NEW i \in DOMAIN pod.containers, i # e PROVE i \notin Engines
    <3>1. CASE i \in 1 .. e - 1
      <4>1. PICK x \in Containers : Bare(x) /\ pod.containers[i] = Proxied(x, cfg)
        BY <1>2, <3>1 DEF InjectedAt
      <4>2. pod.containers[i].name = x.name
        BY <4>1 DEF Proxied, Container
      <4> QED
        BY <4>1, <4>2 DEF Bare, Engines
    <3>2. CASE i \in e + 1 .. Len(pod.containers)
      BY <1>2, <3>2 DEF InjectedAt, Bare, Engines
    <3> QED
      BY <2>1, <2>3, <3>1, <3>2
  <2> QED
    BY <2>2, <2>3 DEF Engines
<1> QED
  BY <1>1, <1>2

(***************************************************************************)
(* However often and by whichever webhook a pod is reviewed, and whatever  *)
(* other webhooks add, it has at most one engine.                          *)
(***************************************************************************)
THEOREM EngineInjectedOnce == Spec => []InjectedOnce
<1>1. WebInv => InjectedOnce
  <2> SUFFICES ASSUME WebInv PROVE Cardinality(Engines) <= 1
    BY DEF InjectedOnce
  <2>1. Engines = {} \/ \E e \in DOMAIN pod.containers : Engines = {e}
    BY EngineAlone DEF WebInv, WasInjected
  <2>2. Cardinality({}) = 0
    BY FS_EmptySet
  <2>3. \A e : Cardinality({e}) = 1
    BY FS_Singleton
  <2> QED
    BY <2>1, <2>2, <2>3
<1> QED
  BY <1>1, WebAlways, PTL

(***************************************************************************)
(* An engine that was injected always finds an identity label to read.     *)
(***************************************************************************)
THEOREM EngineHasIdentity == Spec => []EngineIdentified
<1>1. WebInv => EngineIdentified
  BY EngineAlone DEF WebInv, WasInjected, EngineIdentified
<1> QED
  BY <1>1, WebAlways, PTL

(***************************************************************************)
(* A pod is rejected only for want of something to add the CA to, or for   *)
(* the default identity it was given, whatever the pod, the configuration  *)
(* and the order of reviews.                                               *)
(***************************************************************************)
THEOREM RejectionsExplained == Spec => []RejectionsKnown
<1>1. WebInv => RejectionsKnown
  BY DEF WebInv
<1> QED
  BY <1>1, WebAlways, PTL

-----------------------------------------------------------------------------
(* What the variables of an injected pod say.                              *)

LEMMA ProxySettings ==
  ASSUME NEW c \in ConfigType
  PROVE  /\ \A name \in {"HTTP_PROXY", "HTTPS_PROXY"} :
              /\ Sets(proxyEnv(c), name)
              /\ Setting(proxyEnv(c), name) = engineListenPort(c)
         /\ Sets(proxyEnv(c), "SSL_CERT_FILE") <=> c.mitmCASecret
         /\ c.mitmCASecret => Setting(proxyEnv(c), "SSL_CERT_FILE") = "tls.crt"
<1> DEFINE a == Var("HTTP_PROXY", engineListenPort(c))
           b == Var("HTTPS_PROXY", engineListenPort(c))
           d == Var("NO_PROXY", "local")
           e == Var("SSL_CERT_FILE", "tls.crt")
           f == Var("REQUESTS_CA_BUNDLE", "tls.crt")
           g == Var("NODE_EXTRA_CA_CERTS", "tls.crt")
           s == <<a, b, d>>
           t == <<e, f, g>>
<1>1. \A name \in Literals : \A value \in Texts : Var(name, value) \in Vars
  BY TextsKnown DEF Var, Vars
<1>2. a \in Vars /\ b \in Vars
  BY <1>1, ProxyEnvTyped DEF Literals
<1>3. d \in Vars /\ e \in Vars /\ f \in Vars /\ g \in Vars
  BY <1>1, TextsKnown DEF Literals
<1>4. proxyEnv(c) = s \o IF c.mitmCASecret THEN t ELSE <<>>
  BY DEF proxyEnv
<1>5. /\ a.name = "HTTP_PROXY" /\ a.value = engineListenPort(c)
      /\ b.name = "HTTPS_PROXY" /\ b.value = engineListenPort(c)
      /\ d.name = "NO_PROXY"
      /\ e.name = "SSL_CERT_FILE" /\ e.value = "tls.crt"
      /\ f.name = "REQUESTS_CA_BUNDLE" /\ g.name = "NODE_EXTRA_CA_CERTS"
  BY DEF Var
<1> HIDE DEF a, b, d, e, f, g
<1>6. /\ s \in Seq(Vars)
      /\ \A name \in {"HTTP_PROXY", "HTTPS_PROXY"} :
           Sets(s, name) /\ Setting(s, name) = engineListenPort(c)
      /\ ~ Sets(s, "SSL_CERT_FILE")
  BY <1>2, <1>3, <1>5, SettingThree
<1>7. /\ t \in Seq(Vars)
      /\ ~ Sets(t, "HTTP_PROXY") /\ ~ Sets(t, "HTTPS_PROXY")
      /\ Sets(t, "SSL_CERT_FILE") /\ Setting(t, "SSL_CERT_FILE") = "tls.crt"
  BY <1>3, <1>5, SettingThree
<1> HIDE DEF s, t
<1>8. CASE c.mitmCASecret
  <2>1. proxyEnv(c) = s \o t
    BY <1>4, <1>8
  <2> QED
    BY <1>6, <1>7, <1>8, <2>1, SettingBoth
<1>9. CASE ~ c.mitmCASecret
  <2>1. proxyEnv(c) = s
    BY <1>4, <1>6, <1>9
  <2> QED
    BY <1>6, <1>9, <2>1
<1> QED
  BY <1>8, <1>9

LEMMA ProxiedSettings ==
  ASSUME NEW c \in ConfigType, NEW x \in Containers, Bare(x)
  PROVE  /\ Env(Proxied(x, c), "HTTP_PROXY") = engineListenPort(c)
         /\ Env(Proxied(x, c), "HTTPS_PROXY") = engineListenPort(c)
         /\ ~ c.mitmCASecret => Env(Proxied(x, c), "SSL_CERT_FILE") = ""
         /\ c.mitmCASecret => Env(Proxied(x, c), "SSL_CERT_FILE") = "tls.crt"
<1> DEFINE s == x.env
           t == proxyEnv(c)
<1>1. s \in Seq(Vars) /\ t \in Seq(Vars)
  BY ProxyEnvTyped DEF Containers
<1>2. \A name : Env(Proxied(x, c), name) = Setting(s \o t, name)
  BY EnvSetting DEF Proxied, Container
<1>3. ~ Sets(s, "SSL_CERT_FILE")
  BY DEF Bare, Sets
<1>4. /\ Setting(s \o t, "HTTP_PROXY") = engineListenPort(c)
      /\ Setting(s \o t, "HTTPS_PROXY") = engineListenPort(c)
      /\ ~ c.mitmCASecret => ~ Sets(s \o t, "SSL_CERT_FILE")
      /\ c.mitmCASecret => Setting(s \o t, "SSL_CERT_FILE") = "tls.crt"
  <2> HIDE DEF s, t
  <2>1. /\ Sets(t, "HTTP_PROXY") /\ Setting(t, "HTTP_PROXY") = engineListenPort(c)
        /\ Sets(t, "HTTPS_PROXY") /\ Setting(t, "HTTPS_PROXY") = engineListenPort(c)
        /\ Sets(t, "SSL_CERT_FILE") <=> c.mitmCASecret
        /\ c.mitmCASecret => Setting(t, "SSL_CERT_FILE") = "tls.crt"
    BY ProxySettings DEF t
  <2> QED
    BY <1>1, <1>3, <2>1, SettingBoth
<1> QED
  BY <1>2, <1>4, NoSetting

\* A bare container has no trust of ours.
LEMMA BareSettings ==
  ASSUME NEW x, Bare(x)
  PROVE  Env(x, "SSL_CERT_FILE") = ""
<1>1. ~ Sets(x.env, "SSL_CERT_FILE")
  BY DEF Bare, Sets
<1> QED
  BY <1>1, EnvSetting, NoSetting

LEMMA GivenSettings ==
  ASSUME NEW n \in Literals, NEW text \in Texts
  PROVE  /\ Given(n, text) \in Seq(Vars)
         /\ \A name : Sets(Given(n, text), name) <=> text # "" /\ name = n
         /\ Setting(Given(n, text), n) = text
<1> DEFINE v == Var(n, text)
<1>1. v \in Vars /\ v.name = n /\ v.value = text
  BY TextsKnown DEF Var, Vars
<1>2. Given(n, text) = IF text = "" THEN <<>> ELSE <<v>>
  BY DEF Given
<1> HIDE DEF v
<1>3. CASE text = ""
  <2>1. Given(n, text) = <<>>
    BY <1>2, <1>3
  <2>2. <<>> \in Seq(Vars) /\ \A name : ~ Sets(<<>>, name)
    BY DEF Sets
  <2> QED
    BY <1>3, <2>1, <2>2, NoSetting
<1>4. CASE text # ""
  <2>0. <<v>> \in Seq(Vars)
    BY <1>1
  <2>1. Given(n, text) = <<v>> /\ <<v>> \in Seq(Vars)
    BY <1>2, <1>4, <2>0
  <2> QED
    BY <1>1, <1>4, <2>1, SettingOne
<1> QED
  BY <1>3, <1>4

LEMMA LimitSettings ==
  ASSUME NEW c \in ConfigType
  PROVE  /\ LimitEnv(c) \in Seq(Vars)
         /\ \A name : Sets(LimitEnv(c), name) =>
                        name \in {"MAX_REQUESTS", "RATE_LIMIT", "MAX_TOKENS"}
         /\ Setting(LimitEnv(c), "MAX_REQUESTS") = c.maxRequests
         /\ Setting(LimitEnv(c), "RATE_LIMIT") = c.rateLimit
         /\ Setting(LimitEnv(c), "MAX_TOKENS") = c.maxTokens
<1> DEFINE r == Given("MAX_REQUESTS", c.maxRequests)
           s == Given("RATE_LIMIT", c.rateLimit)
           t == Given("MAX_TOKENS", c.maxTokens)
           rs == r \o s
<1>1. /\ c.maxRequests \in Texts /\ c.rateLimit \in Texts /\ c.maxTokens \in Texts
      /\ "MAX_REQUESTS" \in Literals /\ "RATE_LIMIT" \in Literals
      /\ "MAX_TOKENS" \in Literals
  BY TextsKnown DEF ConfigType, Literals
<1>2. LimitEnv(c) = rs \o t
  BY DEF LimitEnv
<1>3. /\ r \in Seq(Vars) /\ Setting(r, "MAX_REQUESTS") = c.maxRequests
      /\ \A name : Sets(r, name) => name = "MAX_REQUESTS"
  <2> DEFINE n == "MAX_REQUESTS"
  <2>1. n \in Literals /\ c.maxRequests \in Texts
    BY <1>1
  <2> HIDE DEF n
  <2>2. /\ Given(n, c.maxRequests) \in Seq(Vars)
        /\ \A name : Sets(Given(n, c.maxRequests), name) => name = n
        /\ Setting(Given(n, c.maxRequests), n) = c.maxRequests
    BY <2>1, GivenSettings
  <2> QED
    BY <2>2 DEF n
<1>4. /\ s \in Seq(Vars) /\ Setting(s, "RATE_LIMIT") = c.rateLimit
      /\ \A name : Sets(s, name) => name = "RATE_LIMIT"
  BY <1>1, GivenSettings
<1>5. /\ t \in Seq(Vars) /\ Setting(t, "MAX_TOKENS") = c.maxTokens
      /\ \A name : Sets(t, name) => name = "MAX_TOKENS"
  BY <1>1, GivenSettings
<1> HIDE DEF r, s, t
<1>6. rs \in Seq(Vars)
  BY <1>3, <1>4
<1>7. /\ \A name : Sets(rs, name) => name \in {"MAX_REQUESTS", "RATE_LIMIT"}
      /\ Setting(rs, "MAX_REQUESTS") = c.maxRequests
      /\ Setting(rs, "RATE_LIMIT") = c.rateLimit
  <2>1. \A name : Sets(rs, name) => name \in {"MAX_REQUESTS", "RATE_LIMIT"}
    BY <1>3, <1>4, SettingBoth
  <2>2. Setting(rs, "MAX_REQUESTS") = c.maxRequests
    BY <1>3, <1>4, SettingBoth
  <2>3. Setting(rs, "RATE_LIMIT") = c.rateLimit
    <3>1. CASE Sets(s, "RATE_LIMIT")
      BY <1>3, <1>4, <3>1, SettingBoth
    <3>2. CASE ~ Sets(s, "RATE_LIMIT")
      <4>1. ~ Sets(rs, "RATE_LIMIT")
        BY <1>3, <1>4, <3>2, SettingBoth
      <4> HIDE DEF rs
      <4> QED
        BY <1>4, <3>2, <4>1, NoSetting
    <3> QED
      BY <3>1, <3>2
  <2> QED
    BY <2>1, <2>2, <2>3
<1> HIDE DEF rs
<1>8. /\ \A name : Sets(rs \o t, name) =>
                      name \in {"MAX_REQUESTS", "RATE_LIMIT", "MAX_TOKENS"}
      /\ Setting(rs \o t, "MAX_REQUESTS") = c.maxRequests
      /\ Setting(rs \o t, "RATE_LIMIT") = c.rateLimit
  BY <1>5, <1>6, <1>7, SettingBoth
<1>9. Setting(rs \o t, "MAX_TOKENS") = c.maxTokens
  <2>1. CASE Sets(t, "MAX_TOKENS")
    BY <1>5, <1>6, <2>1, SettingBoth
  <2>2. CASE ~ Sets(t, "MAX_TOKENS")
    <3>1. ~ Sets(rs \o t, "MAX_TOKENS")
      BY <1>5, <1>6, <1>7, <2>2, SettingBoth
    <3> DEFINE u == rs \o t
    <3> HIDE DEF u
    <3>2. Setting(u, "MAX_TOKENS") = ""
      BY <3>1, NoSetting DEF u
    <3> QED
      BY <1>5, <2>2, <3>2, NoSetting DEF u
  <2> QED
    BY <2>1, <2>2
<1>10. rs \o t \in Seq(Vars)
  BY <1>5, <1>6
<1> QED
  BY <1>2, <1>8, <1>9, <1>10

LEMMA SinkSettings ==
  ASSUME NEW c \in ConfigType
  PROVE  /\ SinkEnv(c) \in Seq(Vars)
         /\ \A name : Sets(SinkEnv(c), name) => name \in {"AUDIT_FILE", "AUDIT_STDOUT"}
         /\ c.auditMode = "file" <=> Sets(SinkEnv(c), "AUDIT_FILE")
         /\ Sets(SinkEnv(c), "AUDIT_FILE") =>
              Setting(SinkEnv(c), "AUDIT_FILE") = "/var/log/aegrail"
         /\ c.auditMode # "file" <=> Sets(SinkEnv(c), "AUDIT_STDOUT")
<1> DEFINE a == Var("AUDIT_FILE", "/var/log/aegrail")
           b == Var("AUDIT_STDOUT", "1")
<1>1. /\ a \in Vars /\ a.name = "AUDIT_FILE" /\ a.value = "/var/log/aegrail"
      /\ b \in Vars /\ b.name = "AUDIT_STDOUT"
  BY TextsKnown DEF Var, Vars, Literals
<1>2. SinkEnv(c) = IF c.auditMode = "file" THEN <<a>> ELSE <<b>>
  BY DEF SinkEnv
<1> HIDE DEF a, b
<1>3. <<a>> \in Seq(Vars) /\ <<b>> \in Seq(Vars)
  BY <1>1
<1>4. CASE c.auditMode = "file"
  <2>1. SinkEnv(c) = <<a>>
    BY <1>2, <1>4
  <2> QED
    BY <1>1, <1>3, <1>4, <2>1, SettingOne
<1>5. CASE c.auditMode # "file"
  <2>1. SinkEnv(c) = <<b>>
    BY <1>2, <1>5
  <2> QED
    BY <1>1, <1>3, <1>5, <2>1, SettingOne
<1> QED
  BY <1>4, <1>5

LEMMA MITMSettings ==
  ASSUME NEW c \in ConfigType
  PROVE  /\ MITMEnv(c) \in Seq(Vars)
         /\ \A name : Sets(MITMEnv(c), name) =>
                name \in {"MITM_HOSTS", "MITM_CA_CERT_FILE", "MITM_CA_KEY_FILE"}
         /\ ~ c.mitmCASecret => \A name : ~ Sets(MITMEnv(c), name)
         /\ c.mitmCASecret =>
              /\ Sets(MITMEnv(c), "MITM_HOSTS")
              /\ Sets(MITMEnv(c), "MITM_CA_CERT_FILE")
              /\ Sets(MITMEnv(c), "MITM_CA_KEY_FILE")
              /\ Setting(MITMEnv(c), "MITM_HOSTS") = c.mitmHosts
              /\ Setting(MITMEnv(c), "MITM_CA_CERT_FILE") = "tls.crt"
              /\ Setting(MITMEnv(c), "MITM_CA_KEY_FILE") = "tls.key"
<1> DEFINE a == Var("MITM_HOSTS", c.mitmHosts)
           b == Var("MITM_CA_CERT_FILE", "tls.crt")
           d == Var("MITM_CA_KEY_FILE", "tls.key")
<1>1. c.mitmHosts \in Texts /\ "tls.crt" \in Texts /\ "tls.key" \in Texts
  BY TextsKnown DEF ConfigType, Literals
<1>2. /\ a \in Vars /\ a.name = "MITM_HOSTS" /\ a.value = c.mitmHosts
      /\ b \in Vars /\ b.name = "MITM_CA_CERT_FILE" /\ b.value = "tls.crt"
      /\ d \in Vars /\ d.name = "MITM_CA_KEY_FILE" /\ d.value = "tls.key"
  BY <1>1, TextsKnown DEF Var, Vars, Literals
<1>3. MITMEnv(c) = IF c.mitmCASecret THEN <<a, b, d>> ELSE <<>>
  BY DEF MITMEnv
<1> HIDE DEF a, b, d
<1>4. CASE ~ c.mitmCASecret
  <2>1. MITMEnv(c) = <<>>
    BY <1>3, <1>4
  <2>2. <<>> \in Seq(Vars) /\ \A name : ~ Sets(<<>>, name)
    BY DEF Sets
  <2> QED
    BY <1>4, <2>1, <2>2
<1>5. CASE c.mitmCASecret
  <2>1. MITMEnv(c) = <<a, b, d>>
    BY <1>3, <1>5
  <2> QED
    BY <1>2, <1>5, <2>1, SettingThree
<1> QED
  BY <1>4, <1>5

\* Everything the engine reads of its environment.
LEMMA EngineSettings ==
  ASSUME NEW c \in ConfigType
  PROVE  LET E(name) == Env(buildEngineContainer(c), name)
         IN  /\ E("ALLOWLIST") = c.allowlist
             /\ E("AGENT_IDENTITY") = "label"
             /\ E("LISTEN") = engineListenPort(c)
             /\ E("AUDIT_FILE") = IF c.auditMode = "file" THEN "/var/log/aegrail" ELSE ""
             /\ E("MAX_REQUESTS") = c.maxRequests
             /\ E("RATE_LIMIT") = c.rateLimit
             /\ E("MAX_TOKENS") = c.maxTokens
             /\ E("MITM_HOSTS") = IF c.mitmCASecret THEN c.mitmHosts ELSE ""
             /\ E("MITM_CA_CERT_FILE") = IF c.mitmCASecret THEN "tls.crt" ELSE ""
             /\ E("MITM_CA_KEY_FILE") = IF c.mitmCASecret THEN "tls.key" ELSE ""
             /\ E("SSL_CERT_FILE") = ""
<1> DEFINE a == Var("ALLOWLIST", c.allowlist)
           b == Var("AGENT_IDENTITY", "label")
           d == Var("LISTEN", engineListenPort(c))
           s == <<a, b, d>>
           t == SinkEnv(c)
           u == LimitEnv(c)
           v == MITMEnv(c)
           st == s \o t
           stu == st \o u
<1>1. \A name : Env(buildEngineContainer(c), name) = Setting(stu \o v, name)
  BY EnvSetting DEF buildEngineContainer
<1>2. c.allowlist \in Texts /\ engineListenPort(c) \in Texts
  BY TextsKnown, ProxyEnvTyped DEF ConfigType
<1>3. /\ a \in Vars /\ a.name = "ALLOWLIST" /\ a.value = c.allowlist
      /\ b \in Vars /\ b.name = "AGENT_IDENTITY" /\ b.value = "label"
      /\ d \in Vars /\ d.name = "LISTEN" /\ d.value = engineListenPort(c)
  BY <1>2, TextsKnown DEF Var, Vars, Literals
<1> HIDE DEF a, b, d
<1>4. /\ s \in Seq(Vars)
      /\ \A name : Sets(s, name) => name \in {"ALLOWLIST", "AGENT_IDENTITY", "LISTEN"}
      /\ Setting(s, "ALLOWLIST") = c.allowlist
      /\ Setting(s, "AGENT_IDENTITY") = "label"
      /\ Setting(s, "LISTEN") = engineListenPort(c)
  BY <1>3, SettingThree
<1>5. /\ t \in Seq(Vars)
      /\ \A name : Sets(t, name) => name \in {"AUDIT_FILE", "AUDIT_STDOUT"}
      /\ c.auditMode = "file" <=> Sets(t, "AUDIT_FILE")
      /\ Sets(t, "AUDIT_FILE") => Setting(t, "AUDIT_FILE") = "/var/log/aegrail"
  BY SinkSettings
<1>6. /\ u \in Seq(Vars)
      /\ \A name : Sets(u, name) => name \in {"MAX_REQUESTS", "RATE_LIMIT", "MAX_TOKENS"}
      /\ Setting(u, "MAX_REQUESTS") = c.maxRequests
      /\ Setting(u, "RATE_LIMIT") = c.rateLimit
      /\ Setting(u, "MAX_TOKENS") = c.maxTokens
  BY LimitSettings
<1>7. /\ v \in Seq(Vars)
      /\ \A name : Sets(v, name) =>
           name \in {"MITM_HOSTS", "MITM_CA_CERT_FILE", "MITM_CA_KEY_FILE"}
      /\ ~ c.mitmCASecret => \A name : ~ Sets(v, name)
      /\ c.mitmCASecret =>
           /\ Sets(v, "MITM_HOSTS") /\ Setting(v, "MITM_HOSTS") = c.mitmHosts
           /\ Sets(v, "MITM_CA_CERT_FILE") /\ Setting(v, "MITM_CA_CERT_FILE") = "tls.crt"
           /\ Sets(v, "MITM_CA_KEY_FILE") /\ Setting(v, "MITM_CA_KEY_FILE") = "tls.key"
  BY MITMSettings
<1> HIDE DEF s, t, u, v
<1>8. /\ st \in Seq(Vars)
      /\ \A name : Sets(st, name) <=> Sets(s, name) \/ Sets(t, name)
      /\ \A name : ~ Sets(t, name) => Setting(st, name) = Setting(s, name)
      /\ \A name : Sets(t, name) => Setting(st, name) = Setting(t, name)
  BY <1>4, <1>5, SettingBoth
<1> HIDE DEF st
<1>9. /\ stu \in Seq(Vars)
      /\ \A name : Sets(stu, name) <=> Sets(st, name) \/ Sets(u, name)
      /\ \A name : ~ Sets(u, name) => Setting(stu, name) = Setting(st, name)
      /\ \A name : Sets(u, name) => Setting(stu, name) = Setting(u, name)
  BY <1>6, <1>8, SettingBoth
<1> HIDE DEF stu
<1> DEFINE w == stu \o v
<1>10. /\ \A name : Sets(w, name) <=> Sets(stu, name) \/ Sets(v, name)
       /\ \A name : ~ Sets(v, name) => Setting(w, name) = Setting(stu, name)
       /\ \A name : Sets(v, name) => Setting(w, name) = Setting(v, name)
  BY <1>7, <1>9, SettingBoth
<1> HIDE DEF w
<1>11. \A name \in {"ALLOWLIST", "AGENT_IDENTITY", "LISTEN"} :
         Setting(w, name) = Setting(s, name)
  BY <1>5, <1>6, <1>7, <1>8, <1>9, <1>10
<1>12. Setting(w, "AUDIT_FILE") =
         IF c.auditMode = "file" THEN "/var/log/aegrail" ELSE ""
  <2>1. Setting(w, "AUDIT_FILE") = Setting(st, "AUDIT_FILE")
    BY <1>6, <1>7, <1>9, <1>10
  <2>2. ~ Sets(s, "AUDIT_FILE")
    BY <1>4
  <2> QED
    BY <1>5, <1>8, <2>1, <2>2, NoSetting
<1>13. ASSUME NEW name \in {"MAX_REQUESTS", "RATE_LIMIT", "MAX_TOKENS"}
       PROVE  Setting(w, name) = Setting(u, name)
  <2>1. Setting(w, name) = Setting(stu, name)
    BY <1>7, <1>10
  <2>2. ~ Sets(st, name)
    BY <1>4, <1>5, <1>8
  <2>3. CASE Sets(u, name)
    BY <1>9, <2>1, <2>3
  <2>4. CASE ~ Sets(u, name)
    BY <1>9, <2>1, <2>2, <2>4, NoSetting
  <2> QED
    BY <2>3, <2>4
<1>14. ASSUME NEW name \in {"MITM_HOSTS", "MITM_CA_CERT_FILE", "MITM_CA_KEY_FILE"}
       PROVE  /\ c.mitmCASecret => Setting(w, name) = Setting(v, name)
              /\ ~ c.mitmCASecret => Setting(w, name) = ""
  <2>1. c.mitmCASecret => Setting(w, name) = Setting(v, name)
    BY <1>7, <1>10
  <2>2. ~ Sets(stu, name)
    BY <1>4, <1>5, <1>6, <1>8, <1>9
  <2>3. ~ c.mitmCASecret => ~ Sets(w, name)
    BY <1>7, <1>10, <2>2
  <2> QED
    BY <2>1, <2>3, NoSetting
<1>15. \A name : Env(buildEngineContainer(c), name) = Setting(w, name)
  BY <1>1 DEF w, stu, st, s, t, u, v
<1>16. /\ Setting(w, "ALLOWLIST") = c.allowlist
       /\ Setting(w, "AGENT_IDENTITY") = "label"
       /\ Setting(w, "LISTEN") = engineListenPort(c)
  BY <1>4, <1>11
<1>17. /\ Setting(w, "MAX_REQUESTS") = c.maxRequests
       /\ Setting(w, "RATE_LIMIT") = c.rateLimit
       /\ Setting(w, "MAX_TOKENS") = c.maxTokens
  BY <1>6, <1>13
<1>18. /\ Setting(w, "MITM_HOSTS") = IF c.mitmCASecret THEN c.mitmHosts ELSE ""
       /\ Setting(w, "MITM_CA_CERT_FILE") = IF c.mitmCASecret THEN "tls.crt" ELSE ""
       /\ Setting(w, "MITM_CA_KEY_FILE") = IF c.mitmCASecret THEN "tls.key" ELSE ""
  BY <1>7, <1>14
<1>19. Setting(w, "SSL_CERT_FILE") = ""
  <2>1. ~ Sets(st, "SSL_CERT_FILE")
    BY <1>4, <1>5, <1>8
  <2>2. ~ Sets(stu, "SSL_CERT_FILE")
    BY <1>6, <1>9, <2>1
  <2>3. ~ Sets(w, "SSL_CERT_FILE")
    BY <1>7, <1>10, <2>2
  <2> QED
    BY <2>3, NoSetting
<1> QED
  BY <1>12, <1>15, <1>16, <1>17, <1>18, <1>19

(***************************************************************************)
(* Every container the engine was injected behind is routed to the port    *)
(* that engine listens on, for every configuration, any number of          *)
(* containers and of reviews, and whatever proxy its author had set.       *)
(***************************************************************************)
THEOREM TrafficStaysRouted == Spec => []TrafficRouted
<1>1. WebInv => TrafficRouted
  <2> SUFFICES ASSUME WebInv, NEW e \in Engines, NEW i \in 1 .. e - 1
               PROVE  /\ Env(pod.containers[i], "HTTP_PROXY") =
                            Env(pod.containers[e], "LISTEN")
                      /\ Env(pod.containers[i], "HTTPS_PROXY") =
                            Env(pod.containers[e], "LISTEN")
    BY DEF TrafficRouted
  <2>1. cfg \in ConfigType /\ InjectedAt(e)
    BY EngineAlone DEF WebInv, WasInjected
  <2>2. Env(pod.containers[e], "LISTEN") = engineListenPort(cfg)
    BY <2>1, EngineSettings DEF InjectedAt
  <2>3. PICK x \in Containers : Bare(x) /\ pod.containers[i] = Proxied(x, cfg)
    BY <2>1 DEF InjectedAt
  <2> QED
    BY <2>1, <2>2, <2>3, ProxiedSettings
<1> QED
  BY <1>1, WebAlways, PTL

\* Who is told to trust the CA has it.
LEMMA TrustedHere ==
  ASSUME WebInv, cfg \in ConfigType, NEW e \in DOMAIN pod.containers, InjectedAt(e),
         NEW i \in DOMAIN pod.containers
  PROVE  \/ Env(pod.containers[i], "SSL_CERT_FILE") = ""
         \/ cfg.mitmCASecret /\ CAVolume \in pod.containers[i].mounts
<1>1. PICK n \in Nat : n = Len(pod.containers) /\ DOMAIN pod.containers = 1 .. n
  BY DEF WebInv, Pods
<1>2. CASE i \in 1 .. e - 1
  <2>1. PICK x \in Containers : Bare(x) /\ pod.containers[i] = Proxied(x, cfg)
    BY <1>2 DEF InjectedAt
  <2>2. CASE cfg.mitmCASecret
    <3>1. Proxied(x, cfg).mounts = x.mounts \cup {CAVolume}
      BY <2>2 DEF Proxied, Container
    <3> QED
      BY <2>1, <2>2, <3>1
  <2>3. CASE ~ cfg.mitmCASecret
    <3>1. Env(Proxied(x, cfg), "SSL_CERT_FILE") = ""
      BY <2>1, <2>3, ProxiedSettings
    <3> QED
      BY <2>1, <3>1
  <2> QED
    BY <2>2, <2>3
<1>3. CASE i = e
  <2>1. Env(buildEngineContainer(cfg), "SSL_CERT_FILE") = ""
    BY EngineSettings
  <2> QED
    BY <1>3, <2>1 DEF InjectedAt
<1>4. CASE i \in e + 1 .. Len(pod.containers)
  BY <1>4, BareSettings DEF InjectedAt
<1>5. i \in 1 .. e - 1 \/ i = e \/ i \in e + 1 .. Len(pod.containers)
  <2>1. i \in 1 .. n /\ e \in 1 .. n
    BY <1>1
  <2>2. i \in 1 .. e - 1 \/ i = e \/ i \in e + 1 .. n
    BY <2>1
  <2> QED
    BY <1>1, <2>2
<1> QED
  BY <1>2, <1>3, <1>4, <1>5

(***************************************************************************)
(* A container told to trust the engine's CA has it mounted, so has the    *)
(* engine, and the pod has the volume, however the pod was patched.        *)
(***************************************************************************)
THEOREM TrustStaysMounted == Spec => []TrustMounted
<1>1. ASSUME WebInv, NotInjected PROVE TrustMounted
  BY <1>1, BareSettings DEF NotInjected, TrustMounted
<1>2. ASSUME WebInv, WasInjected PROVE TrustMounted
  <2>1. PICK e \in DOMAIN pod.containers : InjectedAt(e)
    BY <1>2 DEF WasInjected
  <2>2. /\ cfg \in ConfigType /\ Engines = {e}
        /\ cfg.mitmCASecret => CAVolume \in pod.volumes
    BY <1>2, <2>1, EngineAlone DEF WasInjected
  <2>3. cfg.mitmCASecret => CAVolume \in pod.containers[e].mounts
    <3>1. buildEngineContainer(cfg).mounts = IF cfg.mitmCASecret THEN {CAVolume} ELSE {}
      BY DEF buildEngineContainer
    <3> QED
      BY <2>1, <3>1 DEF InjectedAt
  <2>4. \A i \in DOMAIN pod.containers :
          \/ Env(pod.containers[i], "SSL_CERT_FILE") = ""
          \/ cfg.mitmCASecret /\ CAVolume \in pod.containers[i].mounts
    BY <1>2, <2>1, <2>2, TrustedHere
  <2> QED
    BY <2>2, <2>3, <2>4 DEF TrustMounted
<1> QED
  BY <1>1, <1>2, WebAlways, PTL DEF WebInv

-----------------------------------------------------------------------------
(* A step only adds.                                                       *)

LEMMA PrefixOfBoth ==
  ASSUME NEW s \in Seq(Vars), NEW t \in Seq(Vars)
  PROVE  IsPrefix(s, s \o t) /\ IsPrefix(s, s)
<1>1. PICK n \in Nat : n = Len(s)
  OBVIOUS
<1>2. Len(s \o t) = n + Len(t) /\ \A i \in 1 .. n : (s \o t)[i] = s[i]
  BY <1>1
<1>3. SubSeq(s, 1, n) = [i \in 1 .. n |-> s[i]]
  BY <1>1
<1>4. SubSeq(s \o t, 1, n) = [i \in 1 .. n |-> (s \o t)[i]]
  BY <1>1
<1>5. SubSeq(s, 1, n) = SubSeq(s \o t, 1, n)
  BY <1>2, <1>3, <1>4
<1>6. n <= n + Len(t)
  BY <1>1
<1> QED
  BY <1>1, <1>2, <1>5, <1>6 DEF IsPrefix

LEMMA ProxiedKeeps ==
  ASSUME NEW c \in ConfigType, NEW x \in Containers
  PROVE  ContainerKept(x, Proxied(x, c)) /\ ContainerKept(x, x)
<1>1. x.env \in Seq(Vars) /\ proxyEnv(c) \in Seq(Vars)
  BY ProxyEnvTyped DEF Containers
<1>2. IsPrefix(x.env, x.env \o proxyEnv(c)) /\ IsPrefix(x.env, x.env)
  BY <1>1, PrefixOfBoth
<1> QED
  BY <1>2 DEF ContainerKept, Proxied, Container

LEMMA SamePodKept ==
  ASSUME NEW p \in Pods
  PROVE  PodKept(p, p)
<1>1. /\ \A i \in DOMAIN p.containers : p.containers[i] \in Containers
      /\ Len(p.containers) <= Len(p.containers)
  BY DEF Pods
<1>2. \A x \in Containers : ContainerKept(x, x)
  <2> SUFFICES ASSUME NEW x \in Containers PROVE IsPrefix(x.env, x.env)
    BY DEF ContainerKept
  <2> QED
    BY PrefixOfBoth DEF Containers
<1> QED
  BY <1>1, <1>2 DEF PodKept

\* One container more, behind all the others.
LEMMA AppendKeeps ==
  ASSUME NEW p \in Pods, NEW q, NEW ys \in Seq(Containers), NEW z \in Containers,
         Len(ys) = Len(p.containers),
         \A i \in DOMAIN p.containers : ContainerKept(p.containers[i], ys[i]),
         q.containers = Append(ys, z),
         p.volumes \subseteq q.volumes, p.labels \subseteq q.labels,
         p.identity # "none" => q.identity = p.identity
  PROVE  PodKept(p, q)
<1>1. PICK n \in Nat : n = Len(p.containers) /\ DOMAIN p.containers = 1 .. n
  BY DEF Pods
<1>2. Len(Append(ys, z)) = n + 1 /\ \A i \in 1 .. n : Append(ys, z)[i] = ys[i]
  BY <1>1
<1>3. n <= n + 1
  BY <1>1
<1> QED
  BY <1>1, <1>2, <1>3 DEF PodKept

LEMMA MutateAdds ==
  ASSUME WebInv, NEW c \in Configs, Mutate(c)
  PROVE  PodKept(pod, pod')
<1>1. c \in ConfigType /\ pod \in Pods
  BY ConfigsAssumption DEF WebInv
<1>2. CASE pod' = pod
  BY <1>1, <1>2, SamePodKept
<1>3. CASE pod' # pod
  <2>1. pod' = Patched(pod, c) /\ Patched(pod, c) # Failed
    BY <1>3 DEF Mutate
  <2>2. ~ alreadyInjected(pod)
    BY <1>3, <2>1, ApplyNone DEF Patched, BuildPatch
  <2>3. pod' = Injected(pod, c)
    BY <1>1, <2>1, <2>2, PatchDone
  <2> DEFINE xs == pod.containers
             ys == [i \in DOMAIN xs |-> Proxied(xs[i], c)]
             z == buildEngineContainer(c)
  <2>4. PICK n \in Nat : n = Len(xs) /\ DOMAIN xs = 1 .. n
    BY <1>1 DEF Pods
  <2>5. ys \in Seq(Containers) /\ DOMAIN ys = 1 .. n
    BY <1>1, <2>4, AllProxied
  <2>6. \A i \in DOMAIN xs : ContainerKept(xs[i], ys[i])
    <3> SUFFICES ASSUME NEW i \in DOMAIN xs PROVE ContainerKept(xs[i], ys[i])
      OBVIOUS
    <3>1. xs[i] \in Containers
      BY <1>1 DEF Pods
    <3>2. ContainerKept(xs[i], Proxied(xs[i], c))
      BY <1>1, <3>1, ProxiedKeeps
    <3> QED
      BY <3>2
  <2>7. z \in Containers
    BY <1>1, EngineTyped
  <2>8. /\ pod'.containers = Append(ys, z)
        /\ pod.volumes \subseteq pod'.volumes /\ pod'.labels = pod.labels
        /\ pod.identity # "none" => pod'.identity = pod.identity
    BY <2>3 DEF Injected, Pod
  <2> HIDE DEF ys, z
  <2>9. Len(ys) = Len(xs)
    BY <2>4, <2>5
  <2> QED
    BY <1>1, <2>5, <2>6, <2>7, <2>8, <2>9, AppendKeeps
<1> QED
  BY <1>2, <1>3

LEMMA OtherAdds ==
  ASSUME WebInv, OtherWebhook
  PROVE  PodKept(pod, pod')
<1>1. PICK m \in SUBSET (pod.volumes \cap {"token"}) :
        pod' = [pod EXCEPT !.containers =
                  Append(pod.containers, [name |-> "mesh", env |-> <<>>, mounts |-> m,
                                          port |-> "none"])]
  BY DEF OtherWebhook
<1> DEFINE z == [name |-> "mesh", env |-> <<>>, mounts |-> m, port |-> "none"]
<1>2. pod \in Pods /\ pod.containers \in Seq(Containers)
      /\ \A i \in DOMAIN pod.containers : pod.containers[i] \in Containers
  BY DEF WebInv, Pods
<1>3. z \in Containers
  <2>1. "mesh" \in Texts /\ "none" \in Texts
    BY TextsKnown DEF Literals
  <2>2. m \in SUBSET Texts
    BY <1>2 DEF Pods
  <2>3. <<>> \in Seq(Vars)
    OBVIOUS
  <2> QED
    BY <2>1, <2>2, <2>3 DEF Containers
<1>4. /\ pod'.containers = Append(pod.containers, z)
      /\ pod'.volumes = pod.volumes /\ pod'.labels = pod.labels
      /\ pod'.identity = pod.identity
  BY <1>1, <1>2 DEF Pods
<1> HIDE DEF z
<1>5. \A i \in DOMAIN pod.containers :
        ContainerKept(pod.containers[i], pod.containers[i])
  BY <1>2, SamePodKept DEF PodKept
<1> QED
  BY <1>2, <1>3, <1>4, <1>5, AppendKeeps

(***************************************************************************)
(* No step takes away or changes what the pod's author or another webhook  *)
(* gave it, for every pod, configuration and order of reviews.             *)
(***************************************************************************)
THEOREM UserConfigStays == Spec => UserConfigKept
<1>1. WebInv /\ [Next]_vars => [PodKept(pod, pod')]_webhookVars
  <2> SUFFICES ASSUME WebInv, [Next]_vars PROVE PodKept(pod, pod')
    OBVIOUS
  <2>1. CASE UNCHANGED <<pod, cfg>>
    <3>1. pod' = pod /\ pod \in Pods
      BY <2>1 DEF WebInv
    <3> QED
      BY <3>1, SamePodKept
  <2> QED
    BY <2>1, OthersKeepPod, MutateAdds, OtherAdds
<1> QED
  BY <1>1, WebAlways, PTL DEF Spec, UserConfigKept
=============================================================================
