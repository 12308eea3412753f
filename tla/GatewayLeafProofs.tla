------------------------- MODULE GatewayLeafProofs -------------------------
(***************************************************************************)
(* Proofs about the leaf certificates of Gateway, for any number of        *)
(* connections and pauses of any length: the leaf a connection is given is *)
(* valid for its host, and leaves are not minted needlessly.               *)
(***************************************************************************)
EXTENDS GatewayProofs

Leaves == [host : LeafHosts, names : {"ip", "dns"}, notBefore : Int,
           notAfter : Int, id : Nat]
Entries == [cert : Leaves, expires : Int]
Idle == [stage : {"none"}]
Holdings == [stage : {"handshake", "open"}, leaf : Leaves, target : Targets,
             since : Int]

\* What mintLeaf made of a host, when n leaves had been minted and it was not
\* later than t.
WellMade(leaf, t, n) ==
  /\ leaf.names = IF ParseIP(leaf.host) THEN "ip" ELSE "dns"
  /\ leaf.notAfter = leaf.notBefore + 49 * Hour
  /\ leaf.notBefore + Hour <= t
  /\ leaf.id <= n

\* An entry expires a leafTTL after its leaf was minted, an hour past notBefore.
EntryOK(h, e, t, n) ==
  /\ e.cert.host = h
  /\ WellMade(e.cert, t, n)
  /\ e.expires = e.cert.notBefore + Hour + leafTTL

\* b is a, or was minted in its place when a had left the cache.
Succeeds(b, a) == b = a \/ (a.id < b.id /\ a.notBefore + leafTTL <= b.notBefore)

\* A connection holds a leaf that was good to be given at the time, and that the
\* cache still has or has replaced.
HoldingOK(x, t, n, cache) ==
  /\ x.leaf.host = hostWithoutPort(x.target)
  /\ WellMade(x.leaf, t, n)
  /\ x.leaf.notBefore + Hour <= x.since /\ x.since <= t
  /\ x.since < x.leaf.notBefore + Hour + leafTTL
  /\ cache[x.leaf.host] # NoEntry
  /\ Succeeds(cache[x.leaf.host].cert, x.leaf)

LeafTypes ==
  /\ now \in Int
  /\ mints \in Nat
  /\ leafCache \in [LeafHosts -> {NoEntry} \cup Entries]
  /\ held \in [Conns -> Idle \cup Holdings]

CacheOK ==
  \A h \in LeafHosts :
    leafCache[h] # NoEntry => EntryOK(h, leafCache[h], now, mints)
HeldOK ==
  \A c \in Conns :
    held[c].stage # "none" => HoldingOK(held[c], now, mints, leafCache)

(***************************************************************************)
(* The inductive invariant.  The cache has for every host the newest leaf, *)
(* and a connection holds that one or one minted at least a day before it. *)
(***************************************************************************)
LeafInv ==
  /\ LeafTypes
  /\ CacheOK
  /\ HeldOK
  /\ LeavesReused

-----------------------------------------------------------------------------
LEMMA Hosts == LeafHosts \subseteq {"dns", "ipv4", "[ipv6]"}
BY LeafAssumption DEF LeafHosts, hostWithoutPort

LEMMA PlainTargets == Targets \ {"ipv6"} \subseteq {"dns", "ipv4"}
BY LeafAssumption

\* What is cached or held is one or the other of what it may be.
LEMMA EntryKinds ==
  /\ NoEntry \notin Entries
  /\ \A x \in Idle \cup Holdings : x.stage # "none" <=> x \in Holdings
<1>1. NoEntry \notin Entries
  BY Hosts DEF NoEntry, Entries, Leaves
<1>2. \A x \in Idle \cup Holdings : x.stage # "none" <=> x \in Holdings
  BY DEF Idle, Holdings
<1> QED
  BY <1>1, <1>2

\* Time and further leaves do no harm to what was well made.
LEMMA LaterMade ==
  ASSUME NEW leaf \in Leaves, NEW t \in Int, NEW u \in Int, t <= u,
         NEW n \in Nat, NEW m \in Nat, n <= m, WellMade(leaf, t, n)
  PROVE  WellMade(leaf, u, m)
BY DEF WellMade, Leaves, Hour

LEMMA LaterEntry ==
  ASSUME NEW h, NEW e \in Entries, NEW t \in Int, NEW u \in Int, t <= u,
         NEW n \in Nat, NEW m \in Nat, n <= m, EntryOK(h, e, t, n)
  PROVE  EntryOK(h, e, u, m)
<1>1. e.cert \in Leaves
  BY DEF Entries
<1> QED
  BY <1>1, LaterMade DEF EntryOK

\* Nor to a holding, whose leaf the cache may replace meanwhile.
LEMMA LaterHolding ==
  ASSUME NEW x \in Holdings, NEW t \in Int, NEW u \in Int, t <= u,
         NEW n \in Nat, NEW m \in Nat, n <= m,
         NEW cache, NEW other, HoldingOK(x, t, n, cache),
         other[x.leaf.host] # NoEntry,
         cache[x.leaf.host].cert \in Leaves,
         other[x.leaf.host].cert \in Leaves,
         Succeeds(other[x.leaf.host].cert, cache[x.leaf.host].cert)
  PROVE  HoldingOK(x, u, m, other)
<1>1. x.leaf \in Leaves /\ x.since \in Int
  BY DEF Holdings
<1>2. WellMade(x.leaf, u, m)
  BY <1>1, LaterMade DEF HoldingOK
<1>3. x.since <= u
  BY <1>1 DEF HoldingOK
<1>4. Succeeds(other[x.leaf.host].cert, x.leaf)
  BY <1>1 DEF HoldingOK, Succeeds, Leaves, leafTTL, Hour
<1> QED
  BY <1>2, <1>3, <1>4 DEF HoldingOK

LEMMA LeafInitially == Init => LeafInv
<1> SUFFICES ASSUME Init PROVE LeafInv
  OBVIOUS
<1>1. /\ now \in Int /\ mints = 0
      /\ leafCache = [h \in LeafHosts |-> NoEntry]
      /\ held = [c \in Conns |-> [stage |-> "none"]]
  BY LimiterInitially DEF Init, AuthorityInit, LimiterInv
<1> QED
  BY <1>1 DEF LeafInv, LeafTypes, CacheOK, HeldOK, LeavesReused, Idle

-----------------------------------------------------------------------------
\* Time passes.
LEMMA PauseKeeps ==
  ASSUME LeafInv, NEW d \in Pauses, Pause(d)
  PROVE  LeafInv'
<1>1. /\ now \in Int /\ now' \in Int /\ now <= now' /\ mints \in Nat
      /\ UNCHANGED <<leafCache, mints, held>>
  BY RateAssumption DEF LeafInv, LeafTypes, Pause, leafVars
<1>2. LeafTypes'
  BY <1>1 DEF LeafInv, LeafTypes
<1>3. CacheOK'
  <2> SUFFICES ASSUME NEW h \in LeafHosts, leafCache[h] # NoEntry
               PROVE  EntryOK(h, leafCache[h], now', mints)
    BY <1>1 DEF CacheOK
  <2>1. leafCache[h] \in Entries /\ EntryOK(h, leafCache[h], now, mints)
    BY DEF LeafInv, LeafTypes, CacheOK
  <2> QED
    BY <1>1, <2>1, LaterEntry
<1>4. HeldOK'
  <2> SUFFICES ASSUME NEW c \in Conns, held[c].stage # "none"
               PROVE  HoldingOK(held[c], now', mints, leafCache)
    BY <1>1 DEF HeldOK
  <2> DEFINE h == held[c].leaf.host
  <2>1. held[c] \in Holdings /\ HoldingOK(held[c], now, mints, leafCache)
    BY EntryKinds DEF LeafInv, LeafTypes, HeldOK
  <2>2. h \in LeafHosts /\ leafCache[h] # NoEntry
    BY <2>1 DEF HoldingOK, Holdings, Leaves
  <2>3. leafCache[h].cert \in Leaves
    BY <2>2 DEF LeafInv, LeafTypes, Entries
  <2>4. Succeeds(leafCache[h].cert, leafCache[h].cert)
    BY DEF Succeeds
  <2> QED
    BY <1>1, <2>1, <2>2, <2>3, <2>4, LaterHolding
<1>5. LeavesReused'
  BY <1>1 DEF LeafInv, LeavesReused
<1> QED
  BY <1>2, <1>3, <1>4, <1>5 DEF LeafInv

\* A connection moves on with its leaf, or without.
LEMMA MoveKeeps ==
  ASSUME LeafInv, UNCHANGED <<now, leafCache, mints>>,
         NEW c \in Conns, NEW y \in Idle \cup Holdings,
         held' = [held EXCEPT ![c] = y],
         y.stage # "none" => /\ held[c] \in Holdings
                             /\ y.leaf = held[c].leaf /\ y.target = held[c].target
                             /\ y.since = held[c].since
  PROVE  LeafInv'
<1>1. LeafTypes'
  BY DEF LeafInv, LeafTypes
<1>2. CacheOK'
  BY DEF LeafInv, CacheOK
<1>3. /\ held'[c] = y
      /\ \A d \in Conns \ {c} : held'[d] = held[d]
  BY DEF LeafInv, LeafTypes
<1>4. y.stage # "none" => held[c].stage # "none"
  BY DEF Holdings
<1>5. HeldOK'
  <2> SUFFICES ASSUME NEW d \in Conns, held'[d].stage # "none"
               PROVE  HoldingOK(held'[d], now, mints, leafCache)
    BY DEF HeldOK
  <2>1. CASE d = c
    BY <1>3, <1>4, <2>1 DEF LeafInv, HeldOK, HoldingOK
  <2>2. CASE d # c
    BY <1>3, <2>2 DEF LeafInv, HeldOK
  <2> QED
    BY <2>1, <2>2
<1>6. LeavesReused'
  <2>1. \A d \in Conns : held'[d].stage # "none" =>
          held[d].stage # "none" /\ held'[d].leaf = held[d].leaf
    BY <1>3, <1>4
  <2> QED
    BY <2>1 DEF LeafInv, LeavesReused
<1> QED
  BY <1>1, <1>2, <1>5, <1>6 DEF LeafInv

-----------------------------------------------------------------------------
(* LeafFor: what it returns is what the cache has afterwards, which is the *)
(* leaf that was there before or one that takes its place.                 *)

LEMMA FreshLeaf ==
  ASSUME LeafInv, NEW h \in LeafHosts
  PROVE  /\ mintLeaf(h) \in Leaves
         /\ [cert |-> mintLeaf(h), expires |-> now + leafTTL] \in Entries
         /\ EntryOK(h, [cert |-> mintLeaf(h), expires |-> now + leafTTL], now, mints + 1)
<1>1. now \in Int /\ mints \in Nat
  BY DEF LeafInv, LeafTypes
<1>2. mintLeaf(h) \in Leaves
  BY <1>1 DEF mintLeaf, Leaves, Hour
<1>3. [cert |-> mintLeaf(h), expires |-> now + leafTTL] \in Entries
  BY <1>1, <1>2 DEF Entries, leafTTL, Hour
<1> QED
  BY <1>1, <1>2, <1>3 DEF EntryOK, WellMade, mintLeaf, leafTTL, Hour

\* What LeafFor leaves behind.
Given(h, leaf, before, cache, t, n) ==
  /\ cache \in [LeafHosts -> {NoEntry} \cup Entries]
  /\ cache[h] \in Entries
  /\ EntryOK(h, cache[h], t, n)
  /\ leaf = cache[h].cert
  /\ t < cache[h].expires
  /\ before[h] # NoEntry => Succeeds(leaf, before[h].cert)
  /\ \A k \in LeafHosts \ {h} : cache[k] = before[k]

LEMMA LeafForGives ==
  ASSUME LeafInv, NEW h \in LeafHosts, NEW leaf, LeafFor(h, leaf)
  PROVE  /\ mints' \in Nat /\ mints <= mints'
         /\ Given(h, leaf, leafCache, leafCache', now, mints')
<1>1. /\ now \in Int /\ mints \in Nat
      /\ leafCache \in [LeafHosts -> {NoEntry} \cup Entries]
  BY DEF LeafInv, LeafTypes
<1>2. leafCache[h] # NoEntry =>
        leafCache[h] \in Entries /\ EntryOK(h, leafCache[h], now, mints)
  BY <1>1 DEF LeafInv, CacheOK
<1>3. CASE Cached(h)
  BY <1>1, <1>2, <1>3 DEF LeafFor, Cached, Given, Succeeds
<1>4. CASE ~ Cached(h)
  <2> DEFINE e == [cert |-> mintLeaf(h), expires |-> now + leafTTL]
  <2>1. /\ leaf = mintLeaf(h) /\ mints' = mints + 1
        /\ leafCache' = [leafCache EXCEPT ![h] = e]
    BY <1>4 DEF LeafFor
  <2>2. e \in Entries /\ EntryOK(h, e, now, mints + 1)
    BY FreshLeaf
  <2>3. e.cert = leaf /\ now < e.expires
    BY <1>1, <2>1 DEF leafTTL, Hour
  <2>4. leafCache[h] # NoEntry => Succeeds(leaf, leafCache[h].cert)
    <3> SUFFICES ASSUME leafCache[h] # NoEntry
                 PROVE  Succeeds(leaf, leafCache[h].cert)
      OBVIOUS
    <3> DEFINE old == leafCache[h].cert
    <3>1. /\ old.id \in Nat /\ old.notBefore \in Int /\ old.id <= mints
          /\ ~ (now < old.notBefore + Hour + leafTTL)
      BY <1>2, <1>4 DEF Cached, EntryOK, WellMade, Entries, Leaves
    <3>2. leaf.id = mints + 1 /\ leaf.notBefore = now - Hour
      BY <2>1 DEF mintLeaf
    <3> HIDE DEF old
    <3>3. old.id < leaf.id /\ old.notBefore + leafTTL <= leaf.notBefore
      BY <1>1, <3>1, <3>2 DEF leafTTL, Hour
    <3> QED
      BY <3>3 DEF Succeeds, old
  <2> HIDE DEF e
  <2>5. leafCache'[h] = e /\ leafCache' \in [LeafHosts -> {NoEntry} \cup Entries]
    BY <1>1, <2>1, <2>2
  <2>6. \A k \in LeafHosts \ {h} : leafCache'[k] = leafCache[k]
    BY <1>1, <2>1
  <2> QED
    BY <1>1, <2>1, <2>2, <2>3, <2>4, <2>5, <2>6 DEF Given
<1> QED
  BY <1>3, <1>4

\* No connection's leaf is newer than the one just given for its host.
LEMMA ConnectKeeps ==
  ASSUME LeafInv, NEW c \in Conns, NEW t \in Targets, Connect(c, t)
  PROVE  LeafInv'
<1> DEFINE h == hostWithoutPort(t)
<1>1. h \in LeafHosts
  BY DEF LeafHosts
<1>2. PICK leaf : /\ LeafFor(h, leaf)
                  /\ held' = [held EXCEPT ![c] = [stage |-> "handshake", leaf |-> leaf,
                                                  target |-> t, since |-> now]]
  BY DEF Connect
<1> DEFINE y == [stage |-> "handshake", leaf |-> leaf, target |-> t, since |-> now]
<1>3. /\ now \in Int /\ now' = now /\ mints \in Nat
      /\ held \in [Conns -> Idle \cup Holdings]
      /\ leafCache \in [LeafHosts -> {NoEntry} \cup Entries]
  BY DEF LeafInv, LeafTypes, Connect, time
<1>4. /\ mints' \in Nat /\ mints <= mints'
      /\ Given(h, leaf, leafCache, leafCache', now, mints')
  BY <1>1, <1>2, LeafForGives
<1> HIDE DEF h
<1>5. /\ leaf \in Leaves /\ leaf.host = h /\ WellMade(leaf, now, mints')
      /\ leafCache'[h] # NoEntry /\ leafCache'[h].cert = leaf
      /\ leaf.notBefore + Hour <= now /\ now < leaf.notBefore + Hour + leafTTL
  BY <1>4, EntryKinds DEF Given, EntryOK, WellMade, Entries
<1>6. y \in Holdings /\ y.stage # "none" /\ y.leaf = leaf
  BY <1>3, <1>5 DEF Holdings
<1>7. HoldingOK(y, now, mints', leafCache')
  BY <1>3, <1>5 DEF HoldingOK, Succeeds, h
<1> HIDE DEF y
<1>8. /\ held'[c] = y /\ held' \in [Conns -> Idle \cup Holdings]
      /\ \A d \in Conns \ {c} : held'[d] = held[d]
  BY <1>2, <1>3, <1>6 DEF y
<1>9. CacheOK'
  <2> SUFFICES ASSUME NEW k \in LeafHosts, leafCache'[k] # NoEntry
               PROVE  EntryOK(k, leafCache'[k], now, mints')
    BY <1>3 DEF CacheOK
  <2>1. CASE k = h
    BY <1>4, <2>1 DEF Given
  <2>2. CASE k # h
    <3>1. leafCache'[k] = leafCache[k]
      BY <1>4, <2>2 DEF Given
    <3>2. leafCache[k] \in Entries /\ EntryOK(k, leafCache[k], now, mints)
      BY <1>3, <3>1 DEF LeafInv, CacheOK
    <3> QED
      BY <1>3, <1>4, <3>1, <3>2, LaterEntry
  <2> QED
    BY <2>1, <2>2
<1>10. ASSUME NEW x \in Holdings, HoldingOK(x, now, mints, leafCache)
       PROVE  HoldingOK(x, now, mints', leafCache')
  <2> DEFINE k == x.leaf.host
  <2>1. k \in LeafHosts /\ leafCache[k] # NoEntry
    BY <1>10 DEF HoldingOK, Holdings, Leaves
  <2>2. leafCache[k].cert \in Leaves
    BY <1>3, <2>1 DEF Entries
  <2>3. /\ leafCache'[k] # NoEntry /\ leafCache'[k].cert \in Leaves
        /\ Succeeds(leafCache'[k].cert, leafCache[k].cert)
    <3>1. CASE k = h
      BY <1>4, <1>5, <2>1, <3>1 DEF Given
    <3>2. CASE k # h
      BY <1>4, <2>1, <2>2, <3>2 DEF Given, Succeeds
    <3> QED
      BY <3>1, <3>2
  <2> QED
    BY <1>3, <1>4, <1>10, <2>2, <2>3, LaterHolding
<1>11. ASSUME NEW d \in Conns, d # c, held[d].stage # "none"
       PROVE  held[d] \in Holdings /\ HoldingOK(held[d], now, mints', leafCache')
  <2>1. held[d] \in Holdings /\ HoldingOK(held[d], now, mints, leafCache)
    BY <1>3, <1>11, EntryKinds DEF LeafInv, HeldOK
  <2> QED
    BY <1>10, <2>1
<1>12. HeldOK'
  BY <1>3, <1>7, <1>8, <1>11 DEF HeldOK
<1>13. LeavesReused'
  <2> SUFFICES ASSUME NEW a \in Conns, NEW b \in Conns,
                      held'[a].stage # "none", held'[b].stage # "none",
                      held'[a].leaf.host = held'[b].leaf.host,
                      held'[a].leaf.id < held'[b].leaf.id
               PROVE  held'[a].leaf.notBefore + 24 * 3600 <= held'[b].leaf.notBefore
    BY DEF LeavesReused
  <2>1. CASE a # c /\ b # c
    BY <1>8, <2>1 DEF LeafInv, LeavesReused
  <2>2. CASE a # c /\ b = c
    <3>1. held'[a] \in Holdings /\ HoldingOK(held'[a], now, mints', leafCache')
      BY <1>8, <1>11, <2>2
    <3>2. Succeeds(leaf, held'[a].leaf)
      BY <1>5, <1>6, <1>8, <2>2, <3>1 DEF HoldingOK
    <3> QED
      BY <1>5, <1>6, <1>8, <2>2, <3>1, <3>2 DEF Succeeds, Holdings, Leaves, leafTTL, Hour
  <2>3. CASE a = c /\ b # c
    <3>1. held'[b] \in Holdings /\ HoldingOK(held'[b], now, mints', leafCache')
      BY <1>8, <1>11, <2>3
    <3>2. Succeeds(leaf, held'[b].leaf)
      BY <1>5, <1>6, <1>8, <2>3, <3>1 DEF HoldingOK
    <3> QED
      BY <1>5, <1>6, <1>8, <2>3, <3>1, <3>2 DEF Succeeds, Holdings, Leaves
  <2>4. CASE a = c /\ b = c
    BY <1>5, <1>6, <1>8, <2>4 DEF Leaves
  <2> QED
    BY <2>1, <2>2, <2>3, <2>4
<1> QED
  BY <1>3, <1>4, <1>8, <1>9, <1>12, <1>13 DEF LeafInv, LeafTypes, Given

-----------------------------------------------------------------------------
LEMMA LeafStep == LeafInv /\ [Next]_vars => LeafInv'
<1> SUFFICES ASSUME LeafInv, [Next]_vars PROVE LeafInv'
  OBVIOUS
<1>1. ASSUME UNCHANGED <<now, leafCache, mints, held>> PROVE LeafInv'
  BY <1>1 DEF LeafInv, LeafTypes, CacheOK, HeldOK, LeavesReused
<1>2. ASSUME NEW c \in Conns, Handshake(c) PROVE LeafInv'
  <2> DEFINE y == IF Verifies(held[c].leaf, held[c].target, now)
                  THEN [held[c] EXCEPT !.stage = "open"] ELSE [stage |-> "none"]
  <2>1. held[c] \in Holdings
    BY <1>2, EntryKinds DEF LeafInv, LeafTypes, Handshake
  <2>2. /\ held' = [held EXCEPT ![c] = y]
        /\ UNCHANGED <<now, leafCache, mints>>
    BY <1>2 DEF Handshake, LeafInv, LeafTypes, time, leafVars
  <2>3. /\ y \in Idle \cup Holdings
        /\ y.stage # "none" => /\ y.leaf = held[c].leaf /\ y.target = held[c].target
                               /\ y.since = held[c].since
    BY <2>1 DEF Idle, Holdings
  <2> HIDE DEF y
  <2> QED
    BY <2>1, <2>2, <2>3, MoveKeeps
<1>3. ASSUME NEW c \in Conns, Close(c) PROVE LeafInv'
  <2> DEFINE y == [stage |-> "none"]
  <2>1. /\ held' = [held EXCEPT ![c] = y]
        /\ UNCHANGED <<now, leafCache, mints>>
    BY <1>3 DEF Close, time, leafVars
  <2>2. y \in Idle \cup Holdings /\ y.stage = "none"
    BY DEF Idle
  <2> HIDE DEF y
  <2> QED
    BY <2>1, <2>2, MoveKeeps
<1>4. ASSUME NEW u, NEW form, NEW r, NEW delivered, Plain(u, form, r, delivered) PROVE LeafInv'
  BY <1>1, <1>4 DEF Plain, time, leafVars
<1>5. ASSUME NEW c, NEW u, NEW r, NEW delivered, Inner(c, u, r, delivered) PROVE LeafInv'
  BY <1>1, <1>5 DEF Inner, time, leafVars
<1>6. ASSUME Denied PROVE LeafInv'
  BY <1>1, <1>6 DEF Denied, time, leafVars
<1>7. ASSUME UNCHANGED vars PROVE LeafInv'
  BY <1>1, <1>7 DEF vars, time, leafVars
<1> QED
  BY <1>2, <1>3, <1>4, <1>5, <1>6, <1>7, PauseKeeps, ConnectKeeps DEF Next

(***************************************************************************)
(* Whichever connection was given a leaf, from the cache or newly minted,  *)
(* and however long its handshake takes: the client finds it valid for the *)
(* host, for a day and an hour's difference of clocks, while the CA lasts. *)
(***************************************************************************)
THEOREM LeavesStayValid == Spec => []LeafStaysValid
<1>1. LeafInv => LeafStaysValid
  <2> SUFFICES ASSUME LeafInv, NEW c \in Conns, held[c].stage = "handshake",
                      held[c].target # "ipv6", NEW t \in {now - 3600, now},
                      t <= held[c].since + 24 * 3600, t <= caExpires
               PROVE  Verifies(held[c].leaf, held[c].target, t)
    BY DEF LeafStaysValid
  <2> DEFINE leaf == held[c].leaf
             target == held[c].target
  <2>1. held[c] \in Holdings /\ HoldingOK(held[c], now, mints, leafCache)
    BY EntryKinds DEF LeafInv, LeafTypes, HeldOK
  <2>2. leaf \in Leaves /\ target \in {"dns", "ipv4"} /\ held[c].since \in Int
    <3>1. leaf \in Leaves /\ target \in Targets /\ held[c].since \in Int
      BY <2>1 DEF Holdings
    <3> QED
      BY <3>1, PlainTargets
  <2>3. leaf.host = target /\ leaf.names = IF target = "dns" THEN "dns" ELSE "ip"
    BY <2>1, <2>2 DEF HoldingOK, WellMade, hostWithoutPort, ParseIP
  <2>4. leaf.notBefore <= t /\ t <= leaf.notAfter
    BY <2>1, <2>2 DEF LeafInv, LeafTypes, HoldingOK, WellMade, Leaves, leafTTL, Hour
  <2> QED
    BY <2>3, <2>4 DEF Verifies
<1> QED
  BY <1>1, LeafInitially, LeafStep, PTL DEF Spec

(***************************************************************************)
(* No leaf is minted for a host while one less than a day old is cached:   *)
(* any two leaves that connections hold for one host are the same one or   *)
(* were minted a day apart.                                                *)
(***************************************************************************)
THEOREM LeavesAreReused == Spec => []LeavesReused
<1>1. LeafInv => LeavesReused
  BY DEF LeafInv
<1> QED
  BY <1>1, LeafInitially, LeafStep, PTL DEF Spec
=============================================================================
