------------------------------- MODULE Proxy -------------------------------
(***************************************************************************)
(* internal/proxy with the budgets of internal/limits and the lifecycle of *)
(* cmd/aegrail-engine: connections served concurrently, each request going *)
(* through the pre-flight checks, the policy and one of three handlers,    *)
(* while the process starts, is told to stop, drains and exits.            *)
(*                                                                         *)
(* A connection is one goroutine of net/http's server; pc names the next   *)
(* step of its handler.  Steps are as fine as the shared state they touch: *)
(* the atomic counters, the audit sink, the upstream and the server's      *)
(* connection table.  The host is abstract (its port and spelling do not   *)
(* matter here); the token usage llmparse reads off a response is any      *)
(* number up to MaxUsage, 0 standing for a response it does not recognise. *)
(***************************************************************************)
EXTENDS Integers, FiniteSets

CONSTANTS
  Conns,         \* client connections
  Hosts,         \* destinations
  NoHost,        \* a request that names no destination
  Allowed,       \* the hosts Policy.Allows accepts
  MITMHosts,     \* the hosts shouldMITM accepts
  MaxRequests,   \* the Counter's cap, 0 for a nil Counter
  RateLimited,   \* whether a Limiter is configured
  MaxTokens,     \* the TokenBudget's cap, 0 for a nil TokenBudget
  MaxUsage,      \* bound: tokens one response may report
  FileMode,      \* a FileSink (Close closes it) rather than stdout
  Interrupted,   \* which responses may break off on their way back
  Redirects,     \* whether an upstream may answer with a redirect
  MaxCalls       \* bound: calls (requests, decrypted ones included)

ASSUME ConnsAssumption == IsFiniteSet(Conns)
ASSUME HostsAssumption ==
  /\ NoHost \notin Hosts
  /\ Allowed \subseteq Hosts
  /\ MITMHosts \subseteq Hosts
ASSUME LimitsAssumption ==
  /\ MaxRequests \in Nat /\ MaxTokens \in Nat
  /\ MaxUsage \in Nat /\ MaxCalls \in Nat
ASSUME SwitchesAssumption ==
  /\ {RateLimited, FileMode, Redirects} \subseteq BOOLEAN
  /\ Interrupted \subseteq {"plain", "decrypted"}

VARIABLES
  engine,     \* where run() is
  clean,      \* srv.Shutdown returned nil
  sinkOpen,   \* the sink accepts events
  last,       \* the type of the last event in the chain
  n,          \* Counter.n
  used,       \* TokenBudget.used
  pc,         \* the next step of each connection
  call,       \* the call each connection is serving
  calls,      \* calls received so far
  served,     \* calls that reached an upstream so far
  consumed,   \* tokens upstreams have reported so far
  contacted   \* hosts the engine has connected to

connVars == <<pc, call>>
limitVars == <<n, used>>
tallies == <<calls, served, consumed, contacted>>
engineVars == <<engine, clean>>
logVars == <<sinkOpen, last>>
vars == <<engine, clean, sinkOpen, last, n, used, pc, call,
          calls, served, consumed, contacted>>

\* Steps of a handler whose connection net/http still tracks, and steps
\* after Hijack (the engine's own, or ReverseProxy's for an upgraded
\* connection), when it no longer does.
Preflight == {"count", "rate", "budget", "route"}
Tracked == Preflight \cup {"forward", "copy", "account", "allowed",
                           "dial", "hijack", "leaf", "mhijack"}
Hijacked == {"greet", "tunnel", "mgreet", "handshake", "mread",
             "mforward", "mwrite", "maccount", "mallowed"}

(***************************************************************************)
(* over, due and events are not in the code: whether the token budget was  *)
(* already gone when the call arrived, how many events the call must leave *)
(* in the log, and how many it has left.                                   *)
(***************************************************************************)
Call == [method : {"GET", "CONNECT"}, host : Hosts \cup {NoHost},
         usage : 0 .. MaxUsage, over : BOOLEAN, due : {0, 1}, events : Nat]

NoCall == [method |-> "GET", host |-> NoHost, usage |-> 0, over |-> FALSE,
           due |-> 0, events |-> 0]

TypeOK ==
  /\ engine \in {"boot", "serving", "signalled", "announced", "draining",
                 "stopping", "closed", "exited"}
  /\ clean \in BOOLEAN /\ sinkOpen \in BOOLEAN
  /\ last \in {"none", "engine_start", "egress", "engine_shutdown"}
  /\ n \in Nat /\ used \in Nat
  /\ pc \in [Conns -> {"idle", "new", "done", "gone"} \cup Tracked \cup Hijacked]
  /\ call \in [Conns -> Call]
  /\ calls \in Nat /\ served \in Nat /\ consumed \in Nat
  /\ contacted \subseteq Hosts \cup {NoHost}

Init ==
  /\ engine = "boot"
  /\ clean = FALSE
  /\ sinkOpen = TRUE
  /\ last = "none"
  /\ n = 0 /\ used = 0
  /\ pc = [c \in Conns |-> "idle"]
  /\ call = [c \in Conns |-> NoCall]
  /\ calls = 0 /\ served = 0 /\ consumed = 0
  /\ contacted = {}

-----------------------------------------------------------------------------
(* Steps shared by the handlers.                                           *)

Goto(c, step) == pc' = [pc EXCEPT ![c] = step]

\* emit: one more event of this type in the log, unless the sink is closed;
\* the error is logged and never reaches the client.
emit(c, type) ==
  /\ last' = IF sinkOpen THEN type ELSE last
  /\ call' = [call EXCEPT ![c].events = IF sinkOpen THEN @ + 1 ELSE @]
  /\ UNCHANGED sinkOpen

\* Emit one event about the call and go on with this step.
EmitAndGoto(c, step) == emit(c, "egress") /\ Goto(c, step)

\* Emit egress_denied or egress_error, answer the client, return.
Refuse(c) == EmitAndGoto(c, "done")

OverBudget == MaxTokens > 0 /\ used >= MaxTokens

\* A request just read, for which one event is due.
NewCall(m, h) == [method |-> m, host |-> h, usage |-> 0, over |-> OverBudget,
                  due |-> 1, events |-> 0]

AddSubtracts(c) == used' = IF MaxTokens > 0 THEN used - call[c].usage ELSE used

\* Add the usage of the call to the budget, if there is one.
Add(c) == used' = IF MaxTokens > 0 THEN used + call[c].usage ELSE used

\* The call reaches these hosts.
Reach(hosts) ==
  /\ served' = served + 1
  /\ contacted' = contacted \cup hosts

\* The call fails, before or after it reached these hosts.
MayReach(hosts) == Reach(hosts) \/ UNCHANGED <<served, contacted>>

-----------------------------------------------------------------------------
(* net/http's server and run()'s mux (external but for the routes): it     *)
(* hands a request to ServeHTTP, and takes the connection back when the    *)
(* handler is done.  "idle" is a connection between two requests or none   *)
(* at all; "new" one that was just accepted when the drain began, which    *)
(* may still deliver its first request.                                    *)

Accepting == engine \in {"serving", "signalled", "announced"}

Deliver(c, k, step) ==
  /\ (pc[c] = "idle" /\ Accepting) \/ pc[c] = "new"
  /\ calls < MaxCalls
  /\ calls' = calls + 1
  /\ call' = [call EXCEPT ![c] = k]
  /\ Goto(c, step)
  /\ UNCHANGED <<engineVars, logVars, limitVars, served, consumed, contacted>>

Receive(c, m, h) == Deliver(c, NewCall(m, h), "count")

\* The mux has the answer itself: the path is /healthz or /readyz, of any
\* host, or needs cleaning.  There is no decision and no event.
MuxAnswers(c, h) ==
  Deliver(c, [NewCall("GET", h) EXCEPT !.due = 0], "done")

\* A new connection has been silent for five seconds: Shutdown closes it.
NewExpires(c) ==
  /\ pc[c] = "new"
  /\ Goto(c, "gone")
  /\ UNCHANGED <<call, engineVars, logVars, limitVars, tallies>>

Finish(c) ==
  /\ pc[c] = "done"
  /\ Goto(c, IF Accepting THEN "idle" ELSE "gone")
  /\ call' = [call EXCEPT ![c] = NoCall]
  /\ UNCHANGED <<engineVars, logVars, limitVars, tallies>>

-----------------------------------------------------------------------------
(* ServeHTTP: the pre-flight checks.                                       *)

CounterAllowOneMore(c) ==
  /\ pc[c] = "count"
  /\ n' = IF MaxRequests > 0 THEN n + 1 ELSE n
  /\ IF MaxRequests > 0 /\ n > MaxRequests
     THEN Refuse(c)
     ELSE Goto(c, "rate") /\ UNCHANGED <<call, logVars>>
  /\ UNCHANGED <<engineVars, used, tallies>>

CounterAllow(c) ==
  /\ pc[c] = "count"
  /\ n' = IF MaxRequests > 0 THEN n + 1 ELSE n
  /\ IF MaxRequests > 0 /\ n' > MaxRequests
     THEN Refuse(c)
     ELSE Goto(c, "rate") /\ UNCHANGED <<call, logVars>>
  /\ UNCHANGED <<engineVars, used, tallies>>

\* The token bucket has a token or it has not, depending on the time.
LimiterAllow(c) ==
  /\ pc[c] = "rate"
  /\ \/ Goto(c, "budget") /\ UNCHANGED <<call, logVars>>
     \/ RateLimited /\ Refuse(c)
  /\ UNCHANGED <<engineVars, limitVars, tallies>>

BudgetCheckOffByOne(c) ==
  /\ pc[c] = "budget"
  /\ IF MaxTokens > 0 /\ used > MaxTokens
     THEN Refuse(c)
     ELSE Goto(c, "route") /\ UNCHANGED <<call, logVars>>
  /\ UNCHANGED <<engineVars, limitVars, tallies>>

BudgetCheck(c) ==
  /\ pc[c] = "budget"
  /\ IF OverBudget
     THEN Refuse(c)
     ELSE Goto(c, "route") /\ UNCHANGED <<call, logVars>>
  /\ UNCHANGED <<engineVars, limitVars, tallies>>

\* No destination, not in the allowlist, or on to the handler.
Route(c) ==
  /\ pc[c] = "route"
  /\ IF call[c].host \notin Allowed
     THEN Refuse(c)
     ELSE /\ Goto(c, IF call[c].method = "GET" THEN "forward"
                     ELSE IF call[c].host \in MITMHosts THEN "leaf" ELSE "dial")
          /\ UNCHANGED <<call, logVars>>
  /\ UNCHANGED <<engineVars, limitVars, tallies>>

-----------------------------------------------------------------------------
(* handleHTTP.                                                             *)

\* The upstream answered; an LLM response has been read and parsed.
Forward(c, u) ==
  /\ pc[c] = "forward"
  /\ Reach({call[c].host})
  /\ consumed' = consumed + u
  /\ call' = [call EXCEPT ![c].usage = u]
  /\ Goto(c, "copy")
  /\ UNCHANGED <<engineVars, logVars, limitVars, calls>>

ForwardFailsTwice(c) ==
  /\ pc[c] = "forward"
  /\ EmitAndGoto(c, "allowed")
  /\ UNCHANGED <<engineVars, limitVars, tallies>>

\* ErrorHandler: no answer, none within ForwardTimeout, or the body of an
\* LLM response could not be read.
ForwardFails(c) ==
  /\ pc[c] = "forward"
  /\ MayReach({call[c].host})
  /\ Refuse(c)
  /\ UNCHANGED <<engineVars, limitVars, calls, consumed>>

\* The upstream answered 101: ReverseProxy hijacks the connection and relays
\* until a side closes, as a tunnel does, and handleHTTP then emits its event.
Upgrade(c) ==
  /\ pc[c] = "forward"
  /\ Reach({call[c].host})
  /\ Goto(c, "tunnel")
  /\ UNCHANGED <<call, engineVars, logVars, limitVars, calls, consumed>>

CopyResponse(c) ==
  /\ pc[c] = "copy"
  /\ Goto(c, "account")
  /\ UNCHANGED <<call, engineVars, logVars, limitVars, tallies>>

\* The copy breaks off (the client left, the upstream's body ended early or
\* ForwardTimeout passed): ReverseProxy panics with ErrAbortHandler, which
\* skips the rest of handleHTTP.
CopyAborts(c) ==
  /\ "plain" \in Interrupted
  /\ pc[c] = "copy"
  /\ Goto(c, "done")
  /\ UNCHANGED <<call, engineVars, logVars, limitVars, tallies>>

Account(c) ==
  /\ pc[c] = "account"
  /\ Add(c)
  /\ call' = [call EXCEPT ![c].usage = 0]
  /\ Goto(c, "allowed")
  /\ UNCHANGED <<engineVars, logVars, n, tallies>>

EmitAllowed(c) ==
  /\ pc[c] = "allowed"
  /\ EmitAndGoto(c, "done")
  /\ UNCHANGED <<engineVars, limitVars, tallies>>

handleHTTP(c) == \/ \E u \in 0 .. MaxUsage : Forward(c, u)
                 \/ ForwardFails(c)
                 \/ Upgrade(c)
                 \/ CopyResponse(c)
                 \/ CopyAborts(c)
                 \/ Account(c)
                 \/ EmitAllowed(c)

-----------------------------------------------------------------------------
(* handleConnect: dial, hijack, write the 200, relay until a side closes.  *)

AfterConnectStep == [dial |-> "hijack", hijack |-> "greet", greet |-> "tunnel"]

ConnectStep(c) ==
  /\ pc[c] \in DOMAIN AfterConnectStep
  /\ IF pc[c] = "dial" THEN Reach({call[c].host})
                       ELSE UNCHANGED <<served, contacted>>
  /\ Goto(c, AfterConnectStep[pc[c]])
  /\ UNCHANGED <<call, engineVars, logVars, limitVars, calls, consumed>>

ConnectFails(c) ==
  /\ pc[c] \in DOMAIN AfterConnectStep
  /\ Refuse(c)
  /\ UNCHANGED <<engineVars, limitVars, tallies>>

TunnelEnds(c) ==
  /\ pc[c] = "tunnel"
  /\ EmitAndGoto(c, "done")
  /\ UNCHANGED <<engineVars, limitVars, tallies>>

handleConnect(c) == ConnectStep(c) \/ ConnectFails(c) \/ TunnelEnds(c)

-----------------------------------------------------------------------------
(* handleMITM: mint a leaf, hijack, write the 200, shake hands, then serve *)
(* decrypted requests until the client is silent or gone.                  *)

AfterMITMStep == [leaf |-> "mhijack", mhijack |-> "mgreet",
                  mgreet |-> "handshake", handshake |-> "mread"]

\* In the loop it is the decrypted requests that are audited, not the CONNECT.
MITMStep(c) ==
  /\ pc[c] \in DOMAIN AfterMITMStep
  /\ Goto(c, AfterMITMStep[pc[c]])
  /\ call' = [call EXCEPT ![c].due = IF pc[c] = "handshake" THEN 0 ELSE @]
  /\ UNCHANGED <<engineVars, logVars, limitVars, tallies>>

MITMFails(c) ==
  /\ pc[c] \in DOMAIN AfterMITMStep
  /\ Refuse(c)
  /\ UNCHANGED <<engineVars, limitVars, tallies>>

\* ReadRequest returns a request, for whatever host it names; its URL and
\* Host are overwritten with the CONNECT target.
ReadRequest(c, h) ==
  /\ pc[c] = "mread"
  /\ calls < MaxCalls
  /\ calls' = calls + 1
  /\ call' = [call EXCEPT ![c] = NewCall(call[c].method, h)]
  /\ Goto(c, "mforward")
  /\ UNCHANGED <<engineVars, logVars, limitVars, served, consumed, contacted>>

MITMReadKeepsHost(c) == \E h \in Hosts : ReadRequest(c, h)

MITMRead(c) == ReadRequest(c, call[c].host)

\* ReadRequest fails: a closed connection or the read deadline.
MITMReadEnds(c) ==
  /\ pc[c] = "mread"
  /\ Goto(c, "done")
  /\ UNCHANGED <<call, engineVars, logVars, limitVars, tallies>>

\* http.Client.Do and ReadAll: the client follows redirects by itself.
MITMForward(c, u, via) ==
  /\ pc[c] = "mforward"
  /\ Reach({call[c].host} \cup via)
  /\ consumed' = consumed + u
  /\ call' = [call EXCEPT ![c].usage = u]
  /\ Goto(c, "mwrite")
  /\ UNCHANGED <<engineVars, logVars, limitVars, calls>>

MITMForwardFails(c, via) ==
  /\ pc[c] = "mforward"
  /\ MayReach({call[c].host} \cup via)
  /\ EmitAndGoto(c, "mread")
  /\ UNCHANGED <<engineVars, limitVars, calls, consumed>>

MITMWrite(c) ==
  /\ pc[c] = "mwrite"
  /\ Goto(c, "maccount")
  /\ UNCHANGED <<call, engineVars, logVars, limitVars, tallies>>

\* resp.Write fails: egress_error, and the usage is not added.
MITMWriteFails(c) ==
  /\ "decrypted" \in Interrupted
  /\ pc[c] = "mwrite"
  /\ EmitAndGoto(c, "mread")
  /\ UNCHANGED <<engineVars, limitVars, tallies>>

MITMAccount(c) ==
  /\ pc[c] = "maccount"
  /\ Add(c)
  /\ call' = [call EXCEPT ![c].usage = 0]
  /\ Goto(c, "mallowed")
  /\ UNCHANGED <<engineVars, logVars, n, tallies>>

MITMEmit(c) ==
  /\ pc[c] = "mallowed"
  /\ EmitAndGoto(c, "mread")
  /\ UNCHANGED <<engineVars, limitVars, tallies>>

\* The hosts a redirect chain may visit.
RedirectChains == IF Redirects THEN SUBSET Hosts ELSE {{}}

forwardMITMRequest(c) ==
  \/ \E u \in 0 .. MaxUsage, via \in RedirectChains : MITMForward(c, u, via)
  \/ \E via \in RedirectChains : MITMForwardFails(c, via)
  \/ MITMWrite(c)
  \/ MITMWriteFails(c)
  \/ MITMAccount(c)
  \/ MITMEmit(c)

handleMITM(c) == \/ MITMStep(c)
                 \/ MITMFails(c)
                 \/ MITMRead(c)
                 \/ MITMReadEnds(c)
                 \/ forwardMITMRequest(c)

-----------------------------------------------------------------------------
(* run(): the engine's lifecycle.                                          *)

\* Change the state of run() and nothing the connections see.
Advance(from, to) ==
  /\ engine = from
  /\ engine' = to
  /\ UNCHANGED <<limitVars, tallies>>

\* EmitEngineStart, then the listener is started.
Start ==
  /\ Advance("boot", "serving")
  /\ last' = "engine_start"
  /\ UNCHANGED <<clean, sinkOpen, connVars>>

Signal ==
  /\ Advance("serving", "signalled")
  /\ UNCHANGED <<clean, logVars, connVars>>

EmitEngineShutdown ==
  /\ Advance("signalled", "announced")
  /\ last' = "engine_shutdown"
  /\ UNCHANGED <<clean, sinkOpen, connVars>>

\* srv.Shutdown closes the listener and the idle connections, but not the ones
\* accepted within the last five seconds ...
Shutdown ==
  /\ Advance("announced", "draining")
  /\ \E fresh \in SUBSET Conns :
       pc' = [c \in Conns |-> IF pc[c] # "idle" THEN pc[c]
                              ELSE IF c \in fresh THEN "new" ELSE "gone"]
  /\ UNCHANGED <<clean, logVars, call>>

\* ... and returns once no tracked connection is new or busy, or at the
\* timeout.  (It would not wait for a hijacked handler about to return, which
\* is "done" here too, but such a handler has nothing left to do.)
Drained == \A c \in Conns : pc[c] \notin Tracked \cup {"new", "done"}

DrainDone ==
  /\ Drained
  /\ Advance("draining", "stopping")
  /\ clean' = TRUE
  /\ UNCHANGED <<logVars, connVars>>

DrainNeverTimesOut == FALSE /\ UNCHANGED vars

DrainTimesOut ==
  /\ ~ Drained
  /\ Advance("draining", "stopping")
  /\ UNCHANGED <<clean, logVars, connVars>>

\* The deferred sink.Close().
CloseSink ==
  /\ Advance("stopping", "closed")
  /\ sinkOpen' = ~ FileMode
  /\ UNCHANGED <<clean, last, connVars>>

\* main returns or log.Fatalf exits, and every goroutine with it.
Die(from) ==
  /\ Advance(from, "exited")
  /\ pc' = [c \in Conns |-> "gone"]
  /\ call' = [c \in Conns |-> NoCall]
  /\ UNCHANGED <<clean, logVars>>

Exit == Die("closed")

\* ListenAndServe fails.
ListenFails == Die("serving")

Lifecycle == \/ Start \/ Signal \/ EmitEngineShutdown \/ Shutdown
             \/ DrainDone \/ DrainTimesOut \/ CloseSink \/ Exit \/ ListenFails

-----------------------------------------------------------------------------
ServeHTTP(c) == \/ CounterAllow(c)
                \/ LimiterAllow(c)
                \/ BudgetCheck(c)
                \/ Route(c)
                \/ handleHTTP(c)
                \/ handleConnect(c)
                \/ handleMITM(c)

Next ==
  \/ \E c \in Conns :
       \/ \E m \in {"GET", "CONNECT"}, h \in Hosts \cup {NoHost} : Receive(c, m, h)
       \/ \E h \in Hosts \cup {NoHost} : MuxAnswers(c, h)
       \/ NewExpires(c)
       \/ ServeHTTP(c)
       \/ Finish(c)
  \/ Lifecycle

Spec == Init /\ [][Next]_vars

(***************************************************************************)
(* Fairness.  Once signalled, run() goes through its shutdown: nothing it  *)
(* waits for is unbounded, since srv.Shutdown gives up at its timeout.     *)
(* Nothing is assumed of clients, upstreams or the handlers.               *)
(***************************************************************************)
ShutdownStep == \/ EmitEngineShutdown \/ Shutdown \/ DrainDone
                \/ DrainTimesOut \/ CloseSink \/ Exit

FairSpec == Spec /\ WF_vars(ShutdownStep)

-----------------------------------------------------------------------------
(***************************************************************************)
(* The request budget (limits.go:30-32) caps the calls that reach an       *)
(* upstream, whatever requests race for the last places and however many   *)
(* were refused in between.                                                *)
(***************************************************************************)
ServedWithinCap == MaxRequests > 0 => served <= MaxRequests

(***************************************************************************)
(* A call that arrives when the token budget is already gone is refused    *)
(* (proxy.go:56-59): it is never forwarded, nor served any further.        *)
(***************************************************************************)
OverBudgetDenied ==
  \A c \in Conns : call[c].over => pc[c] \in {"count", "rate", "budget", "done"}

(***************************************************************************)
(* The budget is read before the call and charged after it, so calls in    *)
(* flight can overshoot it; but by no more than one response a connection. *)
(***************************************************************************)
OvershootBounded ==
  MaxTokens > 0 => used < MaxTokens + Cardinality(Conns) * MaxUsage

(***************************************************************************)
(* Every decision leaves exactly one event in the log (proxy.go:3-6): no   *)
(* handler returns, or reads the next decrypted request, with fewer or     *)
(* more.  A closed sink takes no events, so it is only asked before that.  *)
(***************************************************************************)
EveryDecisionAudited ==
  \A c \in Conns :
    sinkOpen /\ pc[c] \in {"done", "mread"} => call[c].events = call[c].due

(***************************************************************************)
(* What a handler owes when it is through with a call: "one audit event    *)
(* for every decision" (proxy.go:5-6), and its tokens in the budget: "The  *)
(* current call always records -- we never lose accounting for already-    *)
(* consumed work" (limits.go:81-82).  Account takes them off the call.     *)
(***************************************************************************)
EveryCallSettled ==
  \A c \in Conns :
    sinkOpen /\ pc[c] \in {"done", "mread"} =>
      call[c].events = call[c].due /\ call[c].usage = 0

(***************************************************************************)
(* Deny by default: the engine connects to allowlisted hosts only, also    *)
(* for the requests inside a decrypted tunnel.                             *)
(***************************************************************************)
EgressOnlyAllowed == contacted \subseteq Allowed

\* The tokens reported to calls still being answered, each with its connection.
HeldTokens ==
  UNION {{c} \X (1 .. call[c].usage) :
           c \in {x \in Conns : pc[x] \in {"copy", "account", "mwrite", "maccount"}}}

(***************************************************************************)
(* limits.go:81-82, "The current call always records -- we never lose      *)
(* accounting for already-consumed work": every token an upstream reported *)
(* is in the budget or held by a call still being answered, and none is    *)
(* there twice.                                                            *)
(***************************************************************************)
AccountingExact ==
  MaxTokens > 0 /\ engine # "exited" =>
    consumed = used + Cardinality(HeldTokens)

(***************************************************************************)
(* proxy.go:214-215: the engine_shutdown event of a clean shutdown is the  *)
(* terminator of the chain.                                                *)
(***************************************************************************)
ShutdownIsTerminator == engine = "exited" /\ clean => last = "engine_shutdown"

(***************************************************************************)
(* Once signalled the process exits, even if a client never lets go of a   *)
(* connection, tunnel or handshake.                                        *)
(***************************************************************************)
ShutdownCompletes == engine = "signalled" ~> engine = "exited"
=============================================================================
