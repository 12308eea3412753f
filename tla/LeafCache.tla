----------------------------- MODULE LeafCache -----------------------------
(***************************************************************************)
(* The Authority of internal/mitm: a CA made at boot or loaded, and the    *)
(* leaf certificates it signs, cached by host.  Keys, serial numbers and   *)
(* encodings are left out; a certificate is its names and its lifetime.    *)
(***************************************************************************)
EXTENDS Clock

CONSTANTS Targets,       \* kinds of host a client may CONNECT to
          CAValidities   \* how long the CA is valid for, from boot

ASSUME LeafAssumption ==
  /\ Targets \subseteq {"dns", "ipv4", "ipv6"}
  /\ CAValidities \subseteq Nat

VARIABLES caExpires,   \* caCert.NotAfter
          leafCache,   \* host -> its entry, or NoEntry
          mints        \* leaves minted so far

leafVars == <<caExpires, leafCache, mints>>

Hour == 3600
leafTTL == 24 * Hour

\* "[::1]:443" keeps its brackets, "host:443" loses its port.
hostWithoutPort(target) == IF target = "ipv6" THEN "[ipv6]" ELSE target

LeafHosts == {hostWithoutPort(t) : t \in Targets}

NoEntry == [cert |-> [host |-> "none"], expires |-> 0]

\* NewAuthority and LoadAuthority differ in where caExpires comes from.
AuthorityInit ==
  /\ caExpires \in CAValidities
  /\ leafCache = [h \in LeafHosts |-> NoEntry]
  /\ mints = 0

\* net.ParseIP knows no brackets.
ParseIP(host) == host \in {"ipv4", "ipv6"}

mintLeafShortLived(host) ==
  [host |-> host, names |-> IF ParseIP(host) THEN "ip" ELSE "dns",
   notBefore |-> now - Hour, notAfter |-> now + 24 * Hour, id |-> mints + 1]

mintLeaf(host) ==
  [host |-> host, names |-> IF ParseIP(host) THEN "ip" ELSE "dns",
   notBefore |-> now - Hour, notAfter |-> now + 48 * Hour, id |-> mints + 1]

NeverCached(host) == FALSE

Cached(host) ==
  leafCache[host] # NoEntry /\ now < leafCache[host].expires

\* leaf is what LeafFor returns, from the cache or new.
LeafFor(host, leaf) ==
  /\ IF Cached(host)
     THEN leaf = leafCache[host].cert /\ UNCHANGED <<leafCache, mints>>
     ELSE /\ leaf = mintLeaf(host)
          /\ leafCache' = [leafCache EXCEPT ![host] =
                             [cert |-> leaf, expires |-> now + leafTTL]]
          /\ mints' = mints + 1
  /\ UNCHANGED caExpires

\* A client that trusts the CA, and whose clock shows t, accepts the leaf for
\* the host it asked for (external: X.509 verification).
Verifies(leaf, target, t) ==
  /\ leaf.notBefore <= t /\ t <= leaf.notAfter
  /\ t <= caExpires
  /\ leaf.names = IF target = "dns" THEN "dns" ELSE "ip"
  /\ leaf.host = target
=============================================================================
