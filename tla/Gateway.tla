------------------------------ MODULE Gateway ------------------------------
(***************************************************************************)
(* The engine over time: what the rate limiter and the token budget say to *)
(* a request, which leaf an intercepted connection is given and when its   *)
(* client checks it, and what the parser charges for a response.           *)
(*                                                                         *)
(* Proxy leaves all of this open (the limiter refuses at will, a response  *)
(* uses any number of tokens, minting succeeds or fails) and has instead   *)
(* what is left out here: the interleaving of handlers, the policy, the    *)
(* request counter, the failures and the events.                           *)
(***************************************************************************)
EXTENDS RateLimiter, LeafCache, LLMParse

CONSTANTS Conns,          \* intercepted connections
          MaxTokens,      \* the TokenBudget's cap
          Counts,         \* token counts a response may report
          Gaps,           \* what may keep a response from being charged for
          MaxReported,    \* bound: tokens reported in all
          MaxPauses       \* bound: how often time passes

ASSUME GatewayAssumption ==
  /\ MaxTokens \in Nat \ {0}
  /\ Counts \subseteq Nat
  /\ Gaps \subseteq {"origin", "error", "stream", "names", "broken"}
  /\ MaxReported \in Nat
  /\ MaxPauses \in Nat

VARIABLES held,       \* the leaf each intercepted connection was given
          used,       \* TokenBudget.used
          reported,   \* the input and output tokens upstreams have reported
          pauses      \* how often time has passed

time == <<now, pauses>>
vars == <<limiterVars, leafVars, time, held, used, reported>>

Init ==
  /\ LimiterInit
  /\ AuthorityInit
  /\ held = [c \in Conns |-> [stage |-> "none"]]
  /\ used = 0 /\ reported = 0 /\ pauses = 0

Pause(d) ==
  /\ pauses < MaxPauses
  /\ pauses' = pauses + 1
  /\ now' = now + d
  /\ UNCHANGED <<limiterVars, leafVars, held, used, reported>>

OverBudget == used >= MaxTokens

\* ServeHTTP's pre-flight: the limiter, then the budget.
Admitted == Allow(TRUE) /\ ~ OverBudget

Denied ==
  /\ Allow(FALSE) \/ (OverBudget /\ Allow(TRUE))
  /\ UNCHANGED <<time, leafVars, held, used, reported>>

-----------------------------------------------------------------------------
(* Accounting.                                                             *)

\* The names an endpoint reports its usage under (external), as the coverage
\* list of CHANGELOG.md:288-305 has them, and as Converse and :predict may.
Endpoint(u) ==
  CASE u.path = "/v1/chat/completions" -> "prompt_tokens"
    [] u.path \in {"/v1/responses", "/v1/messages"} -> "input_tokens"
    [] u.path = "/api/chat" -> "prompt_eval_count"
    [] u.host = "bedrock" /\ u.path \in {"/model/invoke", "/model/converse"}
         -> "headers"
    [] u.host = "vertex" /\ u.path \in {":generateContent", ":predict"}
         -> "promptTokenCount"
    [] OTHER -> "none"

OwnNames(u) ==
  CASE u.host = "bedrock" /\ u.path = "/model/converse" -> {"inputTokens"}
    [] u.host = "vertex" /\ u.path = ":predict" -> {"tokenMetadata"}
    [] OTHER -> {}

\* The members of extra, where this gap is open.
Where(gap, extra) == IF gap \in Gaps THEN extra ELSE {}

\* What an upstream may answer (external): with usage if it is an endpoint,
\* also in an error or a stream, or without any.
Answers(u) ==
  [status : {"ok"} \cup Where("error", {"error"}),
   json : {TRUE} \cup Where("stream", {FALSE}),
   names : ({Endpoint(u)} \ {"none"}) \cup Where("names", OwnNames(u)),
   in : Counts, out : Counts,
   cache : {0} \cup (IF u.path = "/v1/messages" THEN Counts ELSE {})]
    \cup [status : {"ok", "error"}, json : {FALSE}, names : {"none"},
          in : {0}, out : {0}, cache : {0}]

\* An origin-form request has its host in a header, and llmparse, which is
\* given the URL of the request line, is not shown that.
Forms == {"absolute"} \cup Where("origin", {"origin"})

Shown(u, form) == IF form = "origin" THEN [u EXCEPT !.host = "none"] ELSE u

\* Whether the response got to the client in full.
Deliveries == {TRUE} \cup Where("broken", {FALSE})

Report(r) ==
  /\ reported < MaxReported
  /\ reported' = reported + r.in + r.out

\* TokenBudget.Add, for a response the parser recognised.
Charge(usage) ==
  used' = IF usage.Recognised THEN used + usage.TokensIn + usage.TokensOut
                              ELSE used

Unparsed == Usage(FALSE, 0, 0)

\* handleHTTP: errors are not parsed, and ReverseProxy's panic skips the rest.
Plain(u, form, r, delivered) ==
  /\ Admitted
  /\ Charge(IF delivered /\ r.status = "ok" /\ Recognise(Shown(u, form))
            THEN ParseResponse(Shown(u, form), r) ELSE Unparsed)
  /\ Report(r)
  /\ UNCHANGED <<time, leafVars, held>>

-----------------------------------------------------------------------------
(* handleMITM.                                                             *)

Connect(c, target) ==
  /\ held[c].stage = "none"
  /\ Admitted
  /\ \E leaf \in {mintLeaf(hostWithoutPort(target)),
                  leafCache[hostWithoutPort(target)].cert} :
       /\ LeafFor(hostWithoutPort(target), leaf)
       /\ held' = [held EXCEPT ![c] = [stage |-> "handshake", leaf |-> leaf,
                                       target |-> target, since |-> now]]
  /\ UNCHANGED <<time, used, reported>>

\* The client checks the leaf some time later: the handshake has no deadline.
Handshake(c) ==
  /\ held[c].stage = "handshake"
  /\ held' = [held EXCEPT ![c] =
                IF Verifies(@.leaf, @.target, now)
                THEN [@ EXCEPT !.stage = "open"] ELSE [stage |-> "none"]]
  /\ UNCHANGED <<limiterVars, time, leafVars, used, reported>>

\* forwardMITMRequest: no pre-flight, any status is parsed, and a response that
\* cannot be written is not charged for.  The URL was given the CONNECT target
\* for its host.
Inner(c, u, r, delivered) ==
  /\ held[c].stage = "open"
  /\ Charge(IF delivered THEN ParseResponse(u, r) ELSE Unparsed)
  /\ Report(r)
  /\ UNCHANGED <<limiterVars, time, leafVars, held>>

Close(c) ==
  /\ held[c].stage = "open"
  /\ held' = [held EXCEPT ![c] = [stage |-> "none"]]
  /\ UNCHANGED <<limiterVars, time, leafVars, used, reported>>

-----------------------------------------------------------------------------
\* The URLs requests are meant for, wherever their host is written.
Destinations == {u \in URLs : u.host # "none"}

Next ==
  \/ \E d \in Pauses : Pause(d)
  \/ Denied
  \/ \E u \in Destinations, form \in Forms, delivered \in Deliveries :
       \E r \in Answers(u) : Plain(u, form, r, delivered)
  \/ \E c \in Conns :
       \/ \E t \in Targets : Connect(c, t)
       \/ Handshake(c)
       \/ \E u \in Destinations, delivered \in Deliveries :
            \E r \in Answers(u) : Inner(c, u, r, delivered)
       \/ Close(c)

Spec == Init /\ [][Next]_vars

-----------------------------------------------------------------------------
(***************************************************************************)
(* The limiter keeps its promise: whatever else the engine serves meanwhile *)
(* and however long it is idle, it grants exactly the attempts RateWindow   *)
(* grants, never one more in any window, never one less.                    *)
(***************************************************************************)
ImplementsWindow == Window!Spec

(***************************************************************************)
(* cert.go:175-177: the leaf a connection is given is "valid for the given *)
(* host", also if it came out of the cache at the last moment, for a day   *)
(* from then on and for a client whose clock is up to an hour late.  Two   *)
(* cases excepted: the CA has expired, which nothing in the engine renews, *)
(* and an IPv6 host, which is minted as a DNS name because of its brackets.*)
(***************************************************************************)
LeafStaysValid ==
  \A c \in Conns :
    /\ held[c].stage = "handshake"
    /\ held[c].target # "ipv6"
    => \A t \in {now - 3600, now} :
         t <= held[c].since + 24 * 3600 /\ t <= caExpires
           => Verifies(held[c].leaf, held[c].target, t)

(***************************************************************************)
(* cert.go:6-7: "cached so subsequent connections to the same host reuse   *)
(* the same cert".  Two leaves for one host were minted a day apart.       *)
(***************************************************************************)
LeavesReused ==
  \A c, d \in Conns :
    LET a == held[c].leaf
        b == held[d].leaf
    IN  /\ held[c].stage # "none" /\ held[d].stage # "none"
        /\ a.host = b.host /\ a.id < b.id
        => a.notBefore + 24 * 3600 <= b.notBefore

(***************************************************************************)
(* The budget is never charged more than the input and output tokens that  *)
(* upstreams reported: none twice, none made up, none of the prompt cache  *)
(* (parse_test.go:89-110), whatever goes wrong with the responses.         *)
(***************************************************************************)
NeverOvercharged == used <= reported

(***************************************************************************)
(* "We never lose already-consumed work" (values.yaml:77-79): every input  *)
(* and output token that an endpoint of the coverage matrix (CHANGELOG.md: *)
(* 324-331) reports is in the budget, on the plain and on the decrypted    *)
(* path alike.                                                             *)
(***************************************************************************)
UsageCharged == used = reported
=============================================================================
