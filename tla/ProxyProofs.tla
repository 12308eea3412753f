---------------------------- MODULE ProxyProofs ----------------------------
(***************************************************************************)
(* Proofs about Proxy for any finite number of connections, any hosts, any *)
(* limits and any number of calls.                                         *)
(***************************************************************************)
EXTENDS Proxy, FiniteSetTheorems, TLAPS

-----------------------------------------------------------------------------
(* The inductive invariant: what holds of the process, and what holds of a *)
(* connection at step p with call k when the budget shows u tokens and o   *)
(* says whether the sink is open.                                          *)

Steps == {"idle", "new", "done", "gone"} \cup Tracked \cup Hijacked

\* Steps past the policy, and steps of handleMITM.
Routed == (Tracked \ Preflight) \cup Hijacked
Decrypting == {"leaf", "mhijack", "mgreet", "handshake", "mread",
               "mforward", "mwrite", "maccount", "mallowed"}

\* Steps at which the event of the current call is still to come.
Unaudited == (Tracked \cup Hijacked) \ {"mread"}

Process ==
  /\ engine \in {"boot", "serving", "signalled", "announced", "draining",
                 "stopping", "closed", "exited"}
  /\ clean \in BOOLEAN /\ sinkOpen \in BOOLEAN
  /\ last \in {"none", "engine_start", "egress", "engine_shutdown"}
  /\ n \in Nat /\ used \in Nat
  /\ calls \in Nat /\ served \in Nat /\ consumed \in Nat
  /\ contacted \subseteq Hosts \cup {NoHost}
  /\ ~ Redirects => contacted \subseteq Allowed
  /\ engine \notin {"closed", "exited"} => sinkOpen

\* Every call past the policy is for an allowlisted host.
RoutedPart(p, k) ==
  /\ p \in Routed => k.host \in Allowed
  /\ MITMHosts = {} => p \notin Decrypting

\* A call that found the budget gone gets no further than the budget check.
BudgetPart(p, k, u) ==
  /\ k.over => MaxTokens > 0 /\ u >= MaxTokens
  /\ MITMHosts = {} /\ k.over => p \in {"count", "rate", "budget", "done"}

\* A call leaves its event exactly when its handler is through with it.
AuditPart(p, k, o) ==
  "plain" \notin Interrupted /\ o =>
    /\ p \in Unaudited => k.due = 1 /\ k.events = 0
    /\ p \in {"done", "mread"} => k.events = k.due

Good(p, k, u, o) ==
  /\ p \in Steps
  /\ k \in Call
  /\ RoutedPart(p, k)
  /\ BudgetPart(p, k, u)
  /\ AuditPart(p, k, o)

Connections ==
  /\ pc \in [Conns -> Steps]
  /\ call \in [Conns -> Call]
  /\ \A c \in Conns : Good(pc[c], call[c], used, sinkOpen)

IInv == Process /\ Connections

-----------------------------------------------------------------------------
(* What a step of one connection needs to show.                            *)

\* An idle connection.
LEMMA NoCallGood ==
  ASSUME NEW p \in {"idle", "new", "gone"}, NEW u, NEW o
  PROVE  NoCall \in Call /\ Good(p, NoCall, u, o)
<1>1. /\ NoCall \in Call /\ NoCall.over = FALSE
  BY LimitsAssumption DEF NoCall, Call
<1>2. /\ p \in Steps /\ p \notin Routed /\ p \notin Decrypting
      /\ p \notin Unaudited /\ p \notin Tracked /\ p \notin {"done", "mread"}
  BY DEF Steps, Routed, Decrypting, Unaudited, Tracked, Hijacked, Preflight
<1> QED
  BY <1>1, <1>2 DEF Good, RoutedPart, BudgetPart, AuditPart

\* A call just received knows whether the budget is gone.
LEMMA NewCallGood ==
  ASSUME NEW m \in {"GET", "CONNECT"}, NEW h \in Hosts \cup {NoHost}
  PROVE  /\ NewCall(m, h) \in Call /\ NewCall(m, h).host = h
         /\ NewCall(m, h).events = 0 /\ NewCall(m, h).due = 1
         /\ NewCall(m, h).over => MaxTokens > 0 /\ used >= MaxTokens
<1>1. OverBudget \in BOOLEAN /\ (OverBudget => MaxTokens > 0 /\ used >= MaxTokens)
  BY DEF OverBudget
<1>2. NewCall(m, h) \in Call
  BY <1>1, LimitsAssumption DEF Call, NewCall
<1> QED
  BY <1>1, <1>2 DEF NewCall

\* A connection stays good while others add to the budget.
LEMMA GoodMonotone ==
  ASSUME NEW p, NEW k, NEW u \in Nat, NEW v \in Nat, u <= v, NEW o,
         Good(p, k, u, o)
  PROVE  Good(p, k, v, o)
BY LimitsAssumption DEF Good, BudgetPart

\* One connection moves to step p with call k, all others stay.
LEMMA OneMoves ==
  ASSUME IInv, NEW c \in Conns, NEW p, NEW k,
         pc' = [pc EXCEPT ![c] = p],
         call' = [call EXCEPT ![c] = k],
         used' \in Nat, used <= used', sinkOpen' = sinkOpen,
         Good(p, k, used', sinkOpen)
  PROVE  Connections'
<1>1. used \in Nat /\ pc \in [Conns -> Steps] /\ call \in [Conns -> Call]
  BY DEF IInv, Process, Connections
<1>2. p \in Steps /\ k \in Call
  BY DEF Good
<1>3. pc' \in [Conns -> Steps] /\ call' \in [Conns -> Call]
  BY <1>1, <1>2
<1>4. ASSUME NEW x \in Conns
      PROVE  Good(pc'[x], call'[x], used', sinkOpen)
  <2>1. CASE x = c
    BY <1>1, <2>1
  <2>2. CASE x # c
    <3>1. pc'[x] = pc[x] /\ call'[x] = call[x]
      BY <1>1, <2>2
    <3>2. Good(pc[x], call[x], used, sinkOpen)
      BY DEF IInv, Connections
    <3> QED
      BY <1>1, <3>1, <3>2, GoodMonotone
  <2> QED
    BY <2>1, <2>2
<1> QED
  BY <1>3, <1>4 DEF Connections

\* A connection moves on within its call and leaves the budget alone.
LEMMA GotoGood ==
  ASSUME IInv, NEW c \in Conns, NEW p,
         Goto(c, p), UNCHANGED <<call, used, sinkOpen>>,
         Good(p, call[c], used, sinkOpen)
  PROVE  Connections'
<1>1. /\ used' \in Nat /\ used <= used'
      /\ call' = [call EXCEPT ![c] = call[c]]
      /\ pc' = [pc EXCEPT ![c] = p]
  BY DEF Goto, IInv, Process, Connections
<1>2. used' = used /\ sinkOpen' = sinkOpen
  OBVIOUS
<1>3. Good(p, call[c], used', sinkOpen)
  BY <1>2
<1> QED
  BY <1>1, <1>2, <1>3, OneMoves

\* A connection leaves the event of its call and moves on.
LEMMA EmitGood ==
  ASSUME IInv, NEW c \in Conns, NEW p \in {"done", "mread"},
         EmitAndGoto(c, p), UNCHANGED used,
         pc[c] \in Unaudited,
         p = "mread" => pc[c] \in Decrypting
  PROVE  Connections'
<1> DEFINE k == [call[c] EXCEPT !.events = IF sinkOpen THEN @ + 1 ELSE @]
<1>1. /\ pc' = [pc EXCEPT ![c] = p] /\ call' = [call EXCEPT ![c] = k]
      /\ sinkOpen' = sinkOpen /\ used \in Nat
      /\ Good(pc[c], call[c], used, sinkOpen)
  BY DEF EmitAndGoto, emit, Goto, IInv, Process, Connections
<1>2. /\ k \in Call /\ k.host = call[c].host /\ k.over = call[c].over
      /\ k.due = call[c].due
      /\ sinkOpen => k.events = call[c].events + 1
  BY <1>1 DEF Good, Call
<1> HIDE DEF k
<1>3. RoutedPart(p, k)
  BY <1>1, <1>2 DEF Good, RoutedPart, Routed, Decrypting, Tracked, Hijacked,
                    Preflight
<1>4. BudgetPart(p, k, used)
  BY <1>1, <1>2 DEF Good, RoutedPart, BudgetPart
<1>5. AuditPart(p, k, sinkOpen)
  <2>1. p \notin Unaudited
    BY DEF Unaudited, Tracked, Hijacked, Preflight
  <2>2. "plain" \notin Interrupted /\ sinkOpen
          => call[c].due = 1 /\ call[c].events = 0
    BY <1>1 DEF Good, AuditPart
  <2> QED
    BY <1>2, <2>1, <2>2 DEF AuditPart
<1>6. p \in Steps /\ p \notin Tracked
  BY DEF Steps, Tracked, Hijacked, Preflight
<1>7. Good(p, k, used, sinkOpen)
  BY <1>2, <1>3, <1>4, <1>5, <1>6 DEF Good
<1>8. used' = used /\ used' \in Nat /\ used <= used'
  BY <1>1
<1>9. Good(p, k, used', sinkOpen)
  BY <1>7, <1>8
<1> QED
  BY <1>1, <1>8, <1>9, OneMoves

\* From one step of a call to the next, its event still to come.
LEMMA PassGood ==
  ASSUME NEW a \in Unaudited, NEW b \in Unaudited, NEW k, NEW u, NEW o,
         Good(a, k, u, o),
         b \in Routed => a \in Routed \/ k.host \in Allowed,
         b \in Decrypting => MITMHosts # {},
         MITMHosts = {} /\ k.over => b \in {"count", "rate", "budget"}
  PROVE  Good(b, k, u, o)
<1>1. b \in Steps /\ b \notin {"done", "mread"}
  BY DEF Unaudited, Steps, Tracked, Hijacked, Preflight
<1> QED
  BY <1>1 DEF Good, RoutedPart, BudgetPart, AuditPart

\* The state of the process after a step of a connection.
LEMMA ProcessKept ==
  ASSUME IInv, UNCHANGED <<engineVars, sinkOpen>>,
         last' \in {"none", "engine_start", "egress", "engine_shutdown"},
         n' \in Nat, used' \in Nat, calls' \in Nat, served' \in Nat,
         consumed' \in Nat,
         contacted' \subseteq Hosts \cup {NoHost},
         ~ Redirects => contacted' \subseteq Allowed
  PROVE  Process'
BY DEF IInv, Process, engineVars

\* A step of a connection that changes at most the log and Counter.n.
LEMMA ProcessAfterEvent ==
  ASSUME IInv, NEW c \in Conns, UNCHANGED <<engineVars, used, tallies>>,
         n' \in Nat,
         emit(c, "egress") \/ UNCHANGED logVars
  PROVE  Process'
<1>1. last' \in {"none", "engine_start", "egress", "engine_shutdown"}
  BY DEF IInv, Process, emit, logVars
<1>2. sinkOpen' = sinkOpen
  BY DEF emit, logVars
<1> QED
  BY <1>1, <1>2, ProcessKept DEF IInv, Process, tallies

\* The names of the steps, for the proofs that tell them apart.
LEMMA StepNames ==
  /\ {"count", "rate", "budget", "route", "forward", "copy", "account",
      "allowed", "dial", "hijack", "leaf", "mhijack", "greet", "tunnel",
      "mgreet", "handshake", "mforward", "mwrite", "maccount", "mallowed"}
       = Unaudited
  /\ Tracked = {"count", "rate", "budget", "route", "forward", "copy",
                "account", "allowed", "dial", "hijack", "leaf", "mhijack"}
  /\ Routed = {"forward", "copy", "account", "allowed", "dial", "hijack",
               "leaf", "mhijack", "greet", "tunnel", "mgreet", "handshake",
               "mread", "mforward", "mwrite", "maccount", "mallowed"}
BY DEF Unaudited, Tracked, Hijacked, Preflight, Routed

-----------------------------------------------------------------------------
(* One lemma per handler, one step per action.                             *)

\* The pre-flight checks and the policy keep the invariant.
LEMMA PreflightInvariant ==
  ASSUME IInv, NEW c \in Conns,
         CounterAllow(c) \/ LimiterAllow(c) \/ BudgetCheck(c) \/ Route(c)
  PROVE  IInv'
<1>1. /\ Good(pc[c], call[c], used, sinkOpen)
      /\ used \in Nat /\ n \in Nat
  BY DEF IInv, Process, Connections
<1>2. pc[c] \in {"count", "rate", "budget", "route"}
  BY DEF CounterAllow, LimiterAllow, BudgetCheck, Route
<1>3. ASSUME Refuse(c), n' \in Nat, UNCHANGED <<engineVars, used, tallies>>
      PROVE  IInv'
  <2>1. Connections'
    BY <1>2, <1>3, StepNames, EmitGood DEF Refuse, engineVars
  <2>2. Process'
    BY <1>3, ProcessAfterEvent DEF Refuse, EmitAndGoto
  <2> QED
    BY <2>1, <2>2 DEF IInv
<1>4. ASSUME NEW b, Goto(c, b), n' \in Nat, Good(b, call[c], used, sinkOpen),
             UNCHANGED <<engineVars, logVars, call, used, tallies>>
      PROVE  IInv'
  <2>1. Connections'
    BY <1>4, GotoGood DEF engineVars, logVars
  <2>2. Process'
    BY <1>4, ProcessAfterEvent
  <2> QED
    BY <2>1, <2>2 DEF IInv
<1>5. CASE CounterAllow(c)
  <2>1. n' \in Nat
    BY <1>1, <1>5 DEF CounterAllow
  <2>2. pc[c] = "count" => Good("rate", call[c], used, sinkOpen)
    BY <1>1, StepNames, PassGood DEF Decrypting
  <2> QED
    BY <1>3, <1>4, <1>5, <2>1, <2>2 DEF CounterAllow
<1>6. CASE LimiterAllow(c)
  <2>1. pc[c] = "rate" => Good("budget", call[c], used, sinkOpen)
    BY <1>1, StepNames, PassGood DEF Decrypting
  <2> QED
    BY <1>1, <1>3, <1>4, <1>6, <2>1 DEF LimiterAllow, limitVars
<1>7. CASE BudgetCheck(c)
  <2>1. pc[c] = "budget" /\ ~ OverBudget
          => Good("route", call[c], used, sinkOpen)
    <3> SUFFICES ASSUME pc[c] = "budget", ~ OverBudget
                 PROVE  Good("route", call[c], used, sinkOpen)
      OBVIOUS
    <3>1. ~ call[c].over
      BY <1>1 DEF Good, BudgetPart, OverBudget
    <3> QED
      BY <1>1, <3>1, StepNames, PassGood DEF Decrypting
  <2> QED
    BY <1>1, <1>3, <1>4, <1>7, <2>1 DEF BudgetCheck, limitVars
<1>8. CASE Route(c)
  <2> DEFINE b == IF call[c].method = "GET" THEN "forward"
                  ELSE IF call[c].host \in MITMHosts THEN "leaf" ELSE "dial"
  <2>1. call[c].host \in Allowed => Good(b, call[c], used, sinkOpen)
    <3> SUFFICES ASSUME call[c].host \in Allowed
                 PROVE  Good(b, call[c], used, sinkOpen)
      OBVIOUS
    <3>1. pc[c] = "route"
      BY <1>8 DEF Route
    <3>2. MITMHosts = {} => ~ call[c].over
      BY <1>1, <3>1 DEF Good, BudgetPart
    <3>3. b \in {"forward", "leaf", "dial"} /\ (b = "leaf" => MITMHosts # {})
      OBVIOUS
    <3>4. b \in Decrypting => MITMHosts # {}
      BY <3>3 DEF Decrypting
    <3> HIDE DEF b
    <3> QED
      BY <1>1, <3>1, <3>2, <3>3, <3>4, StepNames, PassGood
  <2> QED
    BY <1>1, <1>3, <1>4, <1>8, <2>1 DEF Route, limitVars
<1> QED
  BY <1>5, <1>6, <1>7, <1>8

\* A handler emits its event and goes on, after it reached allowlisted hosts
\* or none.
LEMMA EventInvariant ==
  ASSUME IInv, NEW c \in Conns, NEW p \in {"done", "mread"},
         EmitAndGoto(c, p), pc[c] \in Unaudited,
         p = "mread" => pc[c] \in Decrypting,
         UNCHANGED <<engineVars, limitVars, calls, consumed>>,
         served' \in Nat,
         contacted' \subseteq Hosts \cup {NoHost},
         ~ Redirects => contacted' \subseteq Allowed
  PROVE  IInv'
<1>1. Connections'
  BY EmitGood DEF engineVars, limitVars
<1>2. /\ last' \in {"none", "engine_start", "egress", "engine_shutdown"}
      /\ sinkOpen' = sinkOpen
  BY DEF EmitAndGoto, emit, IInv, Process
<1>3. Process'
  BY <1>2, ProcessKept DEF limitVars, IInv, Process
<1> QED
  BY <1>1, <1>3 DEF IInv

\* A handler moves on, nothing else changes.
LEMMA GotoInvariant ==
  ASSUME IInv, NEW c \in Conns, NEW p,
         Goto(c, p), Good(p, call[c], used, sinkOpen),
         UNCHANGED <<call, engineVars, logVars, limitVars, tallies>>
  PROVE  IInv'
<1>1. Connections'
  BY GotoGood DEF engineVars, limitVars, logVars
<1>2. Process'
  BY ProcessKept DEF limitVars, logVars, tallies, IInv, Process
<1> QED
  BY <1>1, <1>2 DEF IInv

\* What is known of a connection and of the tallies before a step.
LEMMA Known ==
  ASSUME IInv, NEW c \in Conns
  PROVE  /\ Good(pc[c], call[c], used, sinkOpen)
         /\ call[c] \in Call /\ call[c].usage \in Nat
         /\ call[c].host \in Hosts \cup {NoHost}
         /\ used \in Nat /\ n \in Nat /\ calls \in Nat
         /\ served \in Nat /\ consumed \in Nat
         /\ contacted \subseteq Hosts \cup {NoHost}
         /\ ~ Redirects => contacted \subseteq Allowed
<1>1. /\ Good(pc[c], call[c], used, sinkOpen)
      /\ used \in Nat /\ n \in Nat /\ calls \in Nat
      /\ served \in Nat /\ consumed \in Nat
      /\ contacted \subseteq Hosts \cup {NoHost}
      /\ ~ Redirects => contacted \subseteq Allowed
  BY DEF IInv, Process, Connections
<1>2. call[c] \in Call
  BY <1>1 DEF Good
<1>3. call[c].usage \in Nat /\ call[c].host \in Hosts \cup {NoHost}
  BY <1>2, LimitsAssumption DEF Call
<1> QED
  BY <1>1, <1>2, <1>3

\* A call that reported its usage, or whose usage was added, is as good.
LEMMA UsageGood ==
  ASSUME NEW p, NEW k, NEW u, NEW o, Good(p, k, u, o),
         NEW v \in 0 .. MaxUsage
  PROVE  Good(p, [k EXCEPT !.usage = v], u, o)
<1> DEFINE j == [k EXCEPT !.usage = v]
<1>1. /\ j \in Call /\ j.host = k.host /\ j.over = k.over /\ j.due = k.due
      /\ j.events = k.events
  BY DEF Good, Call
<1> HIDE DEF j
<1>2. Good(p, j, u, o)
  BY <1>1 DEF Good, RoutedPart, BudgetPart, AuditPart
<1> QED
  BY <1>2 DEF j

\* Adding the usage of a call to the budget.
LEMMA AddInvariant ==
  ASSUME IInv, NEW c \in Conns, NEW p, Add(c),
         call' = [call EXCEPT ![c].usage = 0], Goto(c, p),
         Good(p, call[c], used, sinkOpen),
         UNCHANGED <<engineVars, logVars, n, tallies>>
  PROVE  IInv'
<1>1. used' \in Nat /\ used <= used'
  BY Known DEF Add
<1> DEFINE k == [call[c] EXCEPT !.usage = 0]
<1>2. Good(p, k, used, sinkOpen)
  BY UsageGood, LimitsAssumption
<1>3. call' = [call EXCEPT ![c] = k] /\ pc' = [pc EXCEPT ![c] = p]
      /\ sinkOpen' = sinkOpen
  BY DEF Goto, logVars, engineVars
<1> HIDE DEF k
<1>4. Good(p, k, used', sinkOpen)
  BY <1>1, <1>2, GoodMonotone, Known
<1>5. Connections'
  BY <1>1, <1>3, <1>4, OneMoves
<1>6. Process'
  BY <1>1, ProcessKept DEF logVars, tallies, IInv, Process
<1> QED
  BY <1>5, <1>6 DEF IInv

\* A response came back, through allowlisted hosts unless redirected.
LEMMA ReachInvariant ==
  ASSUME IInv, NEW c \in Conns, NEW p, NEW u \in 0 .. MaxUsage,
         NEW hosts \in SUBSET (Hosts \cup {NoHost}),
         ~ Redirects => hosts \subseteq Allowed,
         Reach(hosts), consumed' = consumed + u,
         call' = [call EXCEPT ![c].usage = u], Goto(c, p),
         Good(p, call[c], used, sinkOpen),
         UNCHANGED <<engineVars, logVars, limitVars, calls>>
  PROVE  IInv'
<1> DEFINE k == [call[c] EXCEPT !.usage = u]
<1>1. Good(p, k, used, sinkOpen)
  BY UsageGood
<1>2. call' = [call EXCEPT ![c] = k] /\ pc' = [pc EXCEPT ![c] = p]
      /\ sinkOpen' = sinkOpen /\ used' = used
  BY DEF Goto, logVars, engineVars, limitVars
<1> HIDE DEF k
<1>3. used' \in Nat /\ used <= used' /\ Good(p, k, used', sinkOpen)
  BY <1>1, <1>2, Known
<1>4. Connections'
  BY <1>2, <1>3, OneMoves
<1>5. served' \in Nat /\ consumed' \in Nat
  BY Known, LimitsAssumption DEF Reach
<1>6. Process'
  BY <1>5, Known, ProcessKept DEF Reach, logVars, limitVars, IInv, Process
<1> QED
  BY <1>4, <1>6 DEF IInv

\* A call moves on to the next step of a relay it may have dialled.
LEMMA RelayInvariant ==
  ASSUME IInv, NEW c \in Conns, NEW b, Goto(c, b),
         Good(b, call[c], used, sinkOpen), call[c].host \in Allowed,
         Reach({call[c].host}) \/ UNCHANGED <<served, contacted>>,
         UNCHANGED <<call, engineVars, logVars, limitVars, calls, consumed>>
  PROVE  IInv'
<1>1. Connections'
  BY GotoGood DEF logVars, limitVars
<1>2. /\ served' \in Nat
      /\ contacted' \subseteq Hosts \cup {NoHost}
      /\ ~ Redirects => contacted' \subseteq Allowed
  BY Known DEF Reach
<1>3. Process'
  BY <1>2, ProcessKept DEF logVars, limitVars, IInv, Process
<1> QED
  BY <1>1, <1>3 DEF IInv

\* handleHTTP keeps the invariant.
LEMMA HTTPInvariant ==
  ASSUME IInv, NEW c \in Conns, handleHTTP(c)
  PROVE  IInv'
<1> USE Known, StepNames
<1>1. pc[c] \in {"forward", "copy", "account", "allowed"} =>
        /\ call[c].host \in Allowed
        /\ MITMHosts = {} => ~ call[c].over
        /\ \A b \in {"tunnel", "copy", "account", "allowed"} :
             Good(b, call[c], used, sinkOpen)
  <2> SUFFICES ASSUME pc[c] \in {"forward", "copy", "account", "allowed"}
               PROVE  /\ call[c].host \in Allowed
                      /\ MITMHosts = {} => ~ call[c].over
                      /\ \A b \in {"tunnel", "copy", "account", "allowed"} :
                           Good(b, call[c], used, sinkOpen)
    OBVIOUS
  <2>1. call[c].host \in Allowed /\ (MITMHosts = {} => ~ call[c].over)
    BY DEF Good, RoutedPart, BudgetPart
  <2>2. ASSUME NEW b \in {"tunnel", "copy", "account", "allowed"}
        PROVE  Good(b, call[c], used, sinkOpen)
    <3>1. /\ pc[c] \in Unaudited /\ b \in Unaudited
          /\ b \notin Decrypting
          /\ Good(pc[c], call[c], used, sinkOpen)
      BY DEF Decrypting
    <3> HIDE Known, StepNames
    <3> QED
      BY <2>1, <3>1, PassGood
  <2> QED
    BY <2>1, <2>2
<1>2. ASSUME NEW u \in 0 .. MaxUsage, Forward(c, u) PROVE IInv'
  BY <1>1, <1>2, ReachInvariant DEF Forward
<1>3. CASE ForwardFails(c)
  <2>1. pc[c] = "forward" /\ call[c].host \in Allowed
    BY <1>1, <1>3 DEF ForwardFails
  <2>2. /\ served' \in Nat /\ contacted' \subseteq Hosts \cup {NoHost}
        /\ ~ Redirects => contacted' \subseteq Allowed
    BY <1>3, <2>1 DEF ForwardFails, MayReach, Reach
  <2> QED
    BY <1>3, <2>1, <2>2, EventInvariant DEF ForwardFails, Refuse
<1>4. CASE CopyResponse(c)
  BY <1>1, <1>4, GotoInvariant DEF CopyResponse, tallies
<1>5. CASE CopyAborts(c)
  <2>1. Good("done", call[c], used, sinkOpen)
    <3>1. pc[c] = "copy" /\ "plain" \in Interrupted
      BY <1>5 DEF CopyAborts
    <3>2. "done" \in Steps /\ "done" \notin Routed /\ "done" \notin Decrypting
          /\ "done" \notin Tracked
      BY DEF Steps, Decrypting
    <3> QED
      BY <3>1, <3>2 DEF Good, RoutedPart, BudgetPart, AuditPart
  <2> QED
    BY <1>5, <2>1, GotoInvariant DEF CopyAborts
<1>6. CASE Account(c)
  BY <1>1, <1>6, AddInvariant DEF Account
<1>7. CASE EmitAllowed(c)
  BY <1>7, EventInvariant DEF EmitAllowed, tallies
<1>8. CASE Upgrade(c)
  BY <1>1, <1>8, RelayInvariant DEF Upgrade
<1> QED
  BY <1>2, <1>3, <1>4, <1>5, <1>6, <1>7, <1>8 DEF handleHTTP

\* handleConnect keeps the invariant.
LEMMA ConnectInvariant ==
  ASSUME IInv, NEW c \in Conns, handleConnect(c)
  PROVE  IInv'
<1> USE Known, StepNames
<1>1. CASE ConnectStep(c)
  <2>1. pc[c] \in {"dial", "hijack", "greet"}
        /\ Goto(c, AfterConnectStep[pc[c]])
    BY <1>1 DEF ConnectStep, AfterConnectStep
  <2> DEFINE b == AfterConnectStep[pc[c]]
  <2>2. b \in {"hijack", "greet", "tunnel"}
    BY <2>1 DEF AfterConnectStep
  <2> HIDE DEF b
  <2>3. call[c].host \in Allowed /\ (MITMHosts = {} => ~ call[c].over)
    BY <2>1 DEF Good, RoutedPart, BudgetPart
  <2>4. Good(b, call[c], used, sinkOpen)
    <3>1. b \in Unaudited /\ pc[c] \in Unaudited /\ b \notin Decrypting
      BY <2>1, <2>2 DEF Decrypting
    <3> QED
      BY <2>2, <2>3, <3>1, PassGood
  <2>5. Goto(c, b)
    BY <2>1 DEF b
  <2> QED
    BY <1>1, <2>3, <2>4, <2>5, RelayInvariant DEF ConnectStep
<1>2. CASE ConnectFails(c)
  <2>1. pc[c] \in {"dial", "hijack", "greet"}
    BY <1>2 DEF ConnectFails, AfterConnectStep
  <2> QED
    BY <1>2, <2>1, EventInvariant DEF ConnectFails, Refuse, tallies
<1>3. CASE TunnelEnds(c)
  BY <1>3, EventInvariant DEF TunnelEnds, tallies
<1> QED
  BY <1>1, <1>2, <1>3 DEF handleConnect

\* handleMITM and forwardMITMRequest keep the invariant.
LEMMA MITMInvariant ==
  ASSUME IInv, NEW c \in Conns, handleMITM(c)
  PROVE  IInv'
<1> USE Known, StepNames
<1>1. pc[c] \in Decrypting =>
        MITMHosts # {} /\ call[c].host \in Allowed
  BY DEF Good, RoutedPart, Decrypting
<1>2. pc[c] \in {"mforward", "mwrite", "maccount"} =>
        \A b \in {"mwrite", "maccount", "mallowed"} :
          Good(b, call[c], used, sinkOpen)
  BY <1>1, PassGood DEF Decrypting
<1>3. CASE MITMStep(c)
  <2> DEFINE b == AfterMITMStep[pc[c]]
             k == [call[c] EXCEPT !.due = IF pc[c] = "handshake" THEN 0 ELSE @]
  <2>1. pc[c] \in {"leaf", "mhijack", "mgreet", "handshake"}
    BY <1>3 DEF MITMStep, AfterMITMStep
  <2>2. /\ b \in {"mhijack", "mgreet", "handshake", "mread"}
        /\ b = "mread" <=> pc[c] = "handshake"
    BY <2>1 DEF AfterMITMStep
  <2>3. MITMHosts # {} /\ call[c].host \in Allowed
    BY <1>1, <2>1 DEF Decrypting
  <2>4. /\ k \in Call /\ k.host = call[c].host /\ k.over = call[c].over
        /\ k.events = call[c].events
        /\ k.due = IF pc[c] = "handshake" THEN 0 ELSE call[c].due
    BY DEF Call
  <2>5. /\ pc' = [pc EXCEPT ![c] = b] /\ call' = [call EXCEPT ![c] = k]
        /\ used' = used /\ sinkOpen' = sinkOpen
    BY <1>3 DEF MITMStep, Goto, engineVars, logVars, limitVars
  <2> HIDE DEF b, k
  <2>6. b \in Steps
    BY <2>2 DEF Steps, Tracked, Hijacked
  <2>7. RoutedPart(b, k) /\ BudgetPart(b, k, used)
    BY <2>3, <2>4 DEF Good, RoutedPart, BudgetPart
  <2>8. AuditPart(b, k, sinkOpen)
    <3>1. "plain" \notin Interrupted /\ sinkOpen
            => call[c].due = 1 /\ call[c].events = 0
      BY <2>1 DEF Good, AuditPart
    <3>2. b \in Unaudited <=> pc[c] # "handshake"
      BY <2>2
    <3> QED
      BY <2>2, <2>4, <3>1, <3>2 DEF AuditPart
  <2>9. Good(b, k, used, sinkOpen)
    BY <2>2, <2>4, <2>6, <2>7, <2>8 DEF Good
  <2>10. used' \in Nat /\ used <= used' /\ Good(b, k, used', sinkOpen)
    BY <2>5, <2>9
  <2>11. Connections'
    BY <2>5, <2>10, OneMoves
  <2>12. Process'
    BY <1>3, ProcessAfterEvent DEF MITMStep, limitVars
  <2> QED
    BY <2>11, <2>12 DEF IInv
<1>4. CASE MITMFails(c)
  <2>1. pc[c] \in {"leaf", "mhijack", "mgreet", "handshake"}
    BY <1>4 DEF MITMFails, AfterMITMStep
  <2> QED
    BY <1>4, <2>1, EventInvariant DEF MITMFails, Refuse, tallies
<1>5. CASE MITMRead(c)
  <2> DEFINE k == NewCall(call[c].method, call[c].host)
  <2>1. pc[c] = "mread"
    BY <1>5 DEF MITMRead, ReadRequest
  <2>2. MITMHosts # {} /\ call[c].host \in Allowed
    BY <1>1, <2>1 DEF Decrypting
  <2>3. call[c].method \in {"GET", "CONNECT"} /\ call[c].host \in Hosts \cup {NoHost}
    BY DEF Call
  <2>4. /\ k \in Call /\ k.host = call[c].host /\ k.events = 0 /\ k.due = 1
        /\ k.over => MaxTokens > 0 /\ used >= MaxTokens
    BY <2>3, NewCallGood
  <2>5. /\ pc' = [pc EXCEPT ![c] = "mforward"]
        /\ call' = [call EXCEPT ![c] = k]
        /\ used' = used /\ sinkOpen' = sinkOpen
    BY <1>5 DEF MITMRead, ReadRequest, Goto, engineVars, logVars, limitVars
  <2> HIDE DEF k
  <2>6. "mforward" \in Steps /\ "mforward" \notin Tracked
        /\ "mforward" \notin {"done", "mread"}
    BY DEF Steps, Hijacked
  <2>7. Good("mforward", k, used, sinkOpen)
    BY <2>2, <2>3, <2>4, <2>6 DEF Good, RoutedPart, BudgetPart, AuditPart
  <2>8. used' \in Nat /\ used <= used'
        /\ Good("mforward", k, used', sinkOpen)
    BY <2>5, <2>7
  <2>9. Connections'
    BY <2>5, <2>8, OneMoves
  <2>10. calls' \in Nat
    BY <1>5 DEF MITMRead, ReadRequest
  <2>11. Process'
    BY <1>5, <2>10, ProcessKept
       DEF MITMRead, ReadRequest, logVars, limitVars, IInv, Process
  <2> QED
    BY <2>9, <2>11 DEF IInv
<1>6. CASE MITMReadEnds(c)
  <2>1. pc[c] = "mread"
    BY <1>6 DEF MITMReadEnds
  <2>2. MITMHosts # {}
    BY <1>1, <2>1 DEF Decrypting
  <2>3. "done" \in Steps /\ "done" \notin Routed /\ "done" \notin Decrypting
        /\ "done" \notin Tracked /\ "done" \notin Unaudited
    BY DEF Steps, Decrypting
  <2>4. Good("done", call[c], used, sinkOpen)
    BY <2>1, <2>2, <2>3 DEF Good, RoutedPart, BudgetPart, AuditPart
  <2> QED
    BY <1>6, <2>4, GotoInvariant DEF MITMReadEnds, tallies
<1>7. ASSUME NEW u \in 0 .. MaxUsage, NEW via \in RedirectChains,
             MITMForward(c, u, via)
      PROVE  IInv'
  <2> DEFINE hosts == {call[c].host} \cup via
  <2>1. pc[c] = "mforward" /\ call[c].host \in Allowed
        /\ Good("mwrite", call[c], used, sinkOpen)
    BY <1>1, <1>2, <1>7 DEF MITMForward, Decrypting
  <2>2. via \subseteq Hosts /\ (~ Redirects => via = {})
    BY <1>7 DEF RedirectChains
  <2>3. hosts \in SUBSET (Hosts \cup {NoHost})
        /\ (~ Redirects => hosts \subseteq Allowed)
    BY <2>1, <2>2
  <2>4. Reach(hosts)
    BY <1>7 DEF MITMForward
  <2> HIDE DEF hosts
  <2> QED
    BY <1>7, <2>1, <2>3, <2>4, ReachInvariant DEF MITMForward
<1>8. ASSUME NEW via \in RedirectChains, MITMForwardFails(c, via)
      PROVE  IInv'
  <2>1. pc[c] = "mforward" /\ pc[c] \in Decrypting /\ call[c].host \in Allowed
    BY <1>1, <1>8 DEF MITMForwardFails, Decrypting
  <2>2. via \subseteq Hosts /\ (~ Redirects => via = {})
    BY <1>8 DEF RedirectChains
  <2>3. /\ served' \in Nat /\ contacted' \subseteq Hosts \cup {NoHost}
        /\ ~ Redirects => contacted' \subseteq Allowed
    BY <1>8, <2>1, <2>2 DEF MITMForwardFails, MayReach, Reach
  <2> QED
    BY <1>8, <2>1, <2>3, EventInvariant DEF MITMForwardFails
<1>9. CASE MITMWrite(c)
  BY <1>2, <1>9, GotoInvariant DEF MITMWrite, tallies
<1>10. CASE MITMWriteFails(c)
  BY <1>10, EventInvariant DEF MITMWriteFails, Decrypting, tallies
<1>11. CASE MITMAccount(c)
  BY <1>2, <1>11, AddInvariant DEF MITMAccount
<1>12. CASE MITMEmit(c)
  BY <1>12, EventInvariant DEF MITMEmit, Decrypting, tallies
<1> QED
  BY <1>3, <1>4, <1>5, <1>6, <1>7, <1>8, <1>9, <1>10, <1>11, <1>12
     DEF handleMITM, forwardMITMRequest

\* The server receives a request or takes its connection back.
LEMMA ServerInvariant ==
  ASSUME IInv, NEW c \in Conns,
         \/ \E m \in {"GET", "CONNECT"}, h \in Hosts \cup {NoHost} : Receive(c, m, h)
         \/ \E h \in Hosts \cup {NoHost} : MuxAnswers(c, h)
         \/ NewExpires(c)
         \/ Finish(c)
  PROVE  IInv'
<1> USE Known, StepNames
<1>1. ASSUME NEW k, NEW b, Deliver(c, k, b), Good(b, k, used, sinkOpen)
      PROVE  IInv'
  <2>1. /\ pc' = [pc EXCEPT ![c] = b] /\ call' = [call EXCEPT ![c] = k]
        /\ used' = used /\ sinkOpen' = sinkOpen
    BY <1>1 DEF Deliver, Goto, logVars, limitVars
  <2>2. used' \in Nat /\ used <= used' /\ Good(b, k, used', sinkOpen)
    BY <1>1, <2>1
  <2>3. Connections'
    BY <2>1, <2>2, OneMoves
  <2>4. calls' \in Nat
    BY <1>1 DEF Deliver
  <2>5. Process'
    BY <1>1, <2>4, ProcessKept DEF Deliver, logVars, limitVars, IInv, Process
  <2> QED
    BY <2>3, <2>5 DEF IInv
<1>3. ASSUME NEW m \in {"GET", "CONNECT"}, NEW h \in Hosts \cup {NoHost},
             Receive(c, m, h)
      PROVE  IInv'
  <2> DEFINE k == NewCall(m, h)
  <2>1. /\ k \in Call /\ k.events = 0 /\ k.due = 1
        /\ k.over => MaxTokens > 0 /\ used >= MaxTokens
    BY NewCallGood
  <2>2. Deliver(c, k, "count")
    BY <1>3 DEF Receive
  <2> HIDE DEF k
  <2>3. "count" \in Steps /\ "count" \notin Routed /\ "count" \notin Decrypting
        /\ "count" \notin {"done", "mread"}
    BY DEF Steps, Decrypting
  <2>4. Good("count", k, used, sinkOpen)
    BY <2>1, <2>3 DEF Good, RoutedPart, BudgetPart, AuditPart
  <2> QED
    BY <1>1, <2>2, <2>4
<1>4. ASSUME NEW h \in Hosts \cup {NoHost}, MuxAnswers(c, h)
      PROVE  IInv'
  <2> DEFINE j == NewCall("GET", h)
             k == [j EXCEPT !.due = 0]
  <2>1. /\ j \in Call /\ j.events = 0
        /\ j.over => MaxTokens > 0 /\ used >= MaxTokens
    BY NewCallGood
  <2>2. Deliver(c, k, "done")
    BY <1>4 DEF MuxAnswers
  <2> HIDE DEF j
  <2>3. k \in Call /\ k.events = 0 /\ k.due = 0 /\ k.over = j.over
    BY <2>1 DEF Call
  <2> HIDE DEF k
  <2>4. "done" \in Steps /\ "done" \notin Routed /\ "done" \notin Decrypting
        /\ "done" \notin Unaudited
    BY DEF Steps, Decrypting
  <2>5. Good("done", k, used, sinkOpen)
    BY <2>1, <2>3, <2>4 DEF Good, RoutedPart, BudgetPart, AuditPart
  <2> QED
    BY <1>1, <2>2, <2>5
<1>5. CASE NewExpires(c)
  <2>1. pc[c] = "new"
    BY <1>5 DEF NewExpires
  <2>2. "gone" \in Steps /\ "gone" \notin Routed /\ "gone" \notin Decrypting
        /\ "gone" \notin Unaudited
    BY DEF Steps, Decrypting
  <2>3. MITMHosts = {} => ~ call[c].over
    BY <2>1 DEF Good, BudgetPart
  <2>4. Good("gone", call[c], used, sinkOpen)
    BY <2>2, <2>3 DEF Good, RoutedPart, BudgetPart, AuditPart
  <2> QED
    BY <1>5, <2>4, GotoInvariant DEF NewExpires
<1>2. CASE Finish(c)
  <2> DEFINE b == IF Accepting THEN "idle" ELSE "gone"
  <2>1. /\ pc' = [pc EXCEPT ![c] = b] /\ call' = [call EXCEPT ![c] = NoCall]
        /\ used' = used /\ sinkOpen' = sinkOpen
        /\ b \in {"idle", "gone"}
    BY <1>2 DEF Finish, Goto, engineVars, logVars, limitVars
  <2> HIDE DEF b
  <2>2. used' \in Nat /\ used <= used' /\ Good(b, NoCall, used', sinkOpen)
    BY <2>1, NoCallGood
  <2>3. Connections'
    BY <2>1, <2>2, OneMoves
  <2>4. Process'
    BY <1>2, ProcessAfterEvent DEF Finish, limitVars
  <2> QED
    BY <2>3, <2>4 DEF IInv
<1> QED
  BY <1>2, <1>3, <1>4, <1>5

-----------------------------------------------------------------------------
(* The lifecycle.                                                          *)

\* run() advances and no connection notices.
LEMMA QuietAdvance ==
  ASSUME IInv, NEW from, NEW to, Advance(from, to),
         clean' \in BOOLEAN, UNCHANGED <<sinkOpen, connVars>>,
         to \in {"serving", "signalled", "announced", "draining", "stopping"},
         last' \in {"none", "engine_start", "egress", "engine_shutdown"},
         sinkOpen
  PROVE  IInv'
<1>1. Process'
  BY DEF IInv, Process, Advance, limitVars, tallies
<1>2. pc' = pc /\ call' = call /\ used' = used /\ sinkOpen' = sinkOpen
  BY DEF Advance, limitVars, connVars
<1>3. Connections'
  BY <1>2 DEF IInv, Connections
<1> QED
  BY <1>1, <1>3 DEF IInv

\* The end of the process and of everything it was doing.
LEMMA DieInvariant ==
  ASSUME IInv, NEW from \in {"closed", "serving"}, Die(from)
  PROVE  IInv'
<1>1. Process'
  BY DEF IInv, Process, Die, Advance, limitVars, tallies, logVars
<1>2. /\ pc' = [c \in Conns |-> "gone"] /\ call' = [c \in Conns |-> NoCall]
      /\ "gone" \in Steps
  BY DEF Die, Steps
<1>3. ASSUME NEW c \in Conns
      PROVE  NoCall \in Call /\ Good("gone", NoCall, used', sinkOpen')
  BY NoCallGood
<1>4. pc' \in [Conns -> Steps] /\ call' \in [Conns -> Call]
  BY <1>2, <1>3
<1>5. ASSUME NEW c \in Conns
      PROVE  Good(pc'[c], call'[c], used', sinkOpen')
  BY <1>2, <1>3
<1> QED
  BY <1>1, <1>4, <1>5 DEF IInv, Connections

\* Every step of run() keeps the invariant.
LEMMA LifecycleInvariant ==
  ASSUME IInv, Lifecycle
  PROVE  IInv'
<1>1. /\ clean \in BOOLEAN
      /\ engine \notin {"closed", "exited"} => sinkOpen
      /\ last \in {"none", "engine_start", "egress", "engine_shutdown"}
  BY DEF IInv, Process
<1>2. CASE Start
  BY <1>1, <1>2, QuietAdvance DEF Start, Advance
<1>3. CASE Signal
  BY <1>1, <1>3, QuietAdvance DEF Signal, Advance, logVars
<1>4. CASE EmitEngineShutdown
  BY <1>1, <1>4, QuietAdvance DEF EmitEngineShutdown, Advance
<1>5. CASE DrainTimesOut
  BY <1>1, <1>5, QuietAdvance DEF DrainTimesOut, Advance, logVars
<1>6. CASE Shutdown
  <2>1. Process'
    BY <1>6 DEF IInv, Process, Shutdown, Advance, limitVars, tallies, logVars
  <2>2. call' = call /\ used' = used /\ sinkOpen' = sinkOpen
    BY <1>6 DEF Shutdown, Advance, limitVars, logVars
  <2>3. ASSUME NEW c \in Conns
        PROVE  Good(pc'[c], call'[c], used, sinkOpen)
    <3>1. Good(pc[c], call[c], used, sinkOpen)
      BY DEF IInv, Connections
    <3>2. CASE pc[c] = "idle"
      <4>1. MITMHosts = {} => ~ call[c].over
        BY <3>1, <3>2 DEF Good, BudgetPart
      <4>2. pc'[c] \in {"new", "gone"}
        BY <1>6, <3>2 DEF Shutdown
      <4>3. ASSUME NEW b \in {"new", "gone"}
            PROVE  Good(b, call[c], used, sinkOpen)
        <5>1. b \in Steps /\ b \notin Routed /\ b \notin Decrypting
              /\ b \notin Unaudited /\ b \notin {"done", "mread"}
          BY StepNames DEF Steps, Decrypting
        <5> QED
          BY <3>1, <4>1, <5>1 DEF Good, RoutedPart, BudgetPart, AuditPart
      <4> QED
        BY <2>2, <4>2, <4>3
    <3>3. CASE pc[c] # "idle"
      <4>1. pc'[c] = pc[c]
        BY <1>6, <3>3 DEF Shutdown
      <4> QED
        BY <2>2, <3>1, <4>1
    <3> QED
      BY <3>2, <3>3
  <2>4. \A c \in Conns : pc'[c] \in Steps
    BY <2>3 DEF Good
  <2>5. pc' \in [Conns -> Steps] /\ call' \in [Conns -> Call]
    BY <1>6, <2>2, <2>4 DEF IInv, Connections, Shutdown
  <2>6. Connections'
    BY <2>2, <2>3, <2>5 DEF Connections
  <2> QED
    BY <2>1, <2>6 DEF IInv
<1>7. CASE DrainDone
  BY <1>1, <1>7, QuietAdvance DEF DrainDone, Advance, logVars
<1>8. CASE CloseSink
  <2>1. sinkOpen /\ sinkOpen' \in BOOLEAN
    BY <1>1, <1>8, SwitchesAssumption DEF CloseSink, Advance
  <2>2. Process'
    BY <1>8, <2>1 DEF IInv, Process, CloseSink, Advance, limitVars, tallies
  <2>3. pc' = pc /\ call' = call /\ used' = used
    BY <1>8 DEF CloseSink, Advance, limitVars, connVars
  <2>4. ASSUME NEW c \in Conns, NEW o
        PROVE  Good(pc[c], call[c], used, o)
    BY <2>1 DEF IInv, Connections, Good, AuditPart
  <2>5. Connections'
    BY <2>3, <2>4 DEF IInv, Connections
  <2> QED
    BY <2>2, <2>5 DEF IInv
<1>9. CASE Exit
  BY <1>9, DieInvariant DEF Exit
<1>10. CASE ListenFails
  BY <1>10, DieInvariant DEF ListenFails
<1> QED
  BY <1>2, <1>3, <1>4, <1>5, <1>6, <1>7, <1>8, <1>9, <1>10 DEF Lifecycle

-----------------------------------------------------------------------------
(* The theorems.                                                           *)

\* The engine boots in a state that satisfies the invariant.
LEMMA InitInvariant == ASSUME Init PROVE IInv
<1>1. Process
  BY DEF Init, Process
<1>2. /\ pc = [c \in Conns |-> "idle"] /\ call = [c \in Conns |-> NoCall]
      /\ "idle" \in Steps
  BY DEF Init, Steps
<1>3. ASSUME NEW c \in Conns
      PROVE  NoCall \in Call /\ Good("idle", NoCall, used, sinkOpen)
  BY NoCallGood
<1>4. pc \in [Conns -> Steps] /\ call \in [Conns -> Call]
  BY <1>2, <1>3
<1> QED
  BY <1>1, <1>2, <1>3, <1>4 DEF IInv, Connections

\* Every step of the engine keeps the invariant.
LEMMA NextInvariant == ASSUME IInv, [Next]_vars PROVE IInv'
<1>1. ASSUME NEW c \in Conns, ServeHTTP(c) PROVE IInv'
  BY <1>1, PreflightInvariant, HTTPInvariant, ConnectInvariant, MITMInvariant
     DEF ServeHTTP
<1>2. CASE UNCHANGED vars
  BY <1>2 DEF vars, IInv, Process, Connections
<1> QED
  BY <1>1, <1>2, ServerInvariant, LifecycleInvariant DEF Next

\* IInv is an invariant of the engine.
THEOREM Invariant == Spec => []IInv
<1> QED
  BY InitInvariant, NextInvariant, PTL DEF Spec

\* Type correctness, for any connections, hosts and limits.
THEOREM TypeCorrect == Spec => []TypeOK
<1>1. ASSUME IInv PROVE TypeOK
  BY <1>1 DEF IInv, Process, Connections, TypeOK, Steps
<1> QED
  BY <1>1, Invariant, PTL

\* Without TLS interception, ServeHTTP's budget check refuses every call that
\* arrives when the token budget is gone, whatever other calls add meanwhile.
THEOREM BudgetEnforced ==
  ASSUME MITMHosts = {}
  PROVE  Spec => []OverBudgetDenied
<1>1. ASSUME IInv PROVE OverBudgetDenied
  BY <1>1 DEF IInv, Connections, Good, BudgetPart, OverBudgetDenied
<1> QED
  BY <1>1, Invariant, PTL

\* As long as no upstream redirects, the engine connects to allowlisted hosts
\* only, for plain, tunnelled and decrypted requests.
THEOREM DenyByDefault ==
  ASSUME ~ Redirects
  PROVE  Spec => []EgressOnlyAllowed
<1>1. ASSUME IInv PROVE EgressOnlyAllowed
  BY <1>1 DEF IInv, Process, EgressOnlyAllowed
<1> QED
  BY <1>1, Invariant, PTL

\* As long as no plain response breaks off, each decision leaves exactly
\* one event in the open log by the time its handler is through.
THEOREM OneEventPerDecision ==
  ASSUME "plain" \notin Interrupted
  PROVE  Spec => []EveryDecisionAudited
<1>1. ASSUME IInv PROVE EveryDecisionAudited
  BY <1>1 DEF IInv, Connections, Good, AuditPart, EveryDecisionAudited
<1> QED
  BY <1>1, Invariant, PTL
=============================================================================
