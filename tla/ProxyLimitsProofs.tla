------------------------- MODULE ProxyLimitsProofs -------------------------
(***************************************************************************)
(* Proofs about what Proxy counts: the calls against the request cap, the  *)
(* tokens against the budget, and the tokens reported against the tokens   *)
(* charged, for any finite number of connections and any limits.           *)
(***************************************************************************)
EXTENDS ProxyProofs

\* The connections in S whose step is in A, where f gives the steps.
At(A, f, S) == {x \in S : f[x] \in A}

\* What a connection at step p adds to the number of those in A.
One(p, A) == IF p \in A THEN 1 ELSE 0

\* Past the counter and not yet at an upstream; past the budget check and
\* not yet charged; answered and not yet charged.
Placed == {"rate", "budget", "route", "forward", "dial"}
Uncharged == {"route", "forward", "copy", "account"}
Answered == {"copy", "account", "mwrite", "maccount"}

-----------------------------------------------------------------------------
(* Counting connections.                                                   *)

LEMMA CountConns ==
  ASSUME NEW A, NEW f
  PROVE  /\ IsFiniteSet(At(A, f, Conns)) /\ Cardinality(At(A, f, Conns)) \in Nat
         /\ Cardinality(Conns) \in Nat
         /\ Cardinality(At(A, f, Conns)) <= Cardinality(Conns)
<1>1. At(A, f, Conns) \in SUBSET Conns
  BY DEF At
<1> QED
  BY <1>1, ConnsAssumption, FS_Subset, FS_CardinalityType

\* One connection moves from its step to b.
LEMMA CountMove ==
  ASSUME NEW A, NEW f \in [Conns -> Steps], NEW c \in Conns, NEW b,
         NEW g, g = [f EXCEPT ![c] = b]
  PROVE  Cardinality(At(A, g, Conns))
           = Cardinality(At(A, f, Conns)) - One(f[c], A)
                                          + One(b, A)
<1> DEFINE Rest == At(A, f, Conns) \ {c}
<1>1. At(A, g, Conns) = IF b \in A THEN Rest \cup {c} ELSE Rest
  BY DEF At
<1>2. /\ IsFiniteSet(Rest) /\ Cardinality(Rest) \in Nat
      /\ Cardinality(Rest) = Cardinality(At(A, f, Conns))
                               - One(f[c], A)
  <2>1. c \in At(A, f, Conns) <=> f[c] \in A
    BY DEF At
  <2>2. IsFiniteSet(At(A, f, Conns)) /\ Cardinality(At(A, f, Conns)) \in Nat
    BY CountConns
  <2>3. IsFiniteSet(Rest) /\ Cardinality(Rest) \in Nat
    BY <2>2, FS_RemoveElement, FS_CardinalityType
  <2>4. Cardinality(Rest) = IF c \in At(A, f, Conns)
                            THEN Cardinality(At(A, f, Conns)) - 1
                            ELSE Cardinality(At(A, f, Conns))
    BY <2>2, FS_RemoveElement
  <2> QED
    BY <2>1, <2>2, <2>3, <2>4 DEF One
<1>3. c \notin Rest
  OBVIOUS
<1>4. Cardinality(Rest \cup {c}) = Cardinality(Rest) + 1
  BY <1>2, <1>3, FS_AddElement
<1> QED
  BY <1>1, <1>2, <1>4, CountConns DEF One

LEMMA GotoCounts ==
  ASSUME IInv, NEW A, NEW c \in Conns, NEW b, Goto(c, b)
  PROVE  Cardinality(At(A, pc', Conns))
           = Cardinality(At(A, pc, Conns)) - One(pc[c], A) + One(b, A)
<1> DEFINE f == pc
           g == pc'
<1>1. f \in [Conns -> Steps] /\ g = [f EXCEPT ![c] = b]
  BY DEF Goto, IInv, Connections
<1> HIDE DEF f, g
<1>2. Cardinality(At(A, g, Conns)) = Cardinality(At(A, f, Conns)) - One(f[c], A) + One(b, A)
  BY ONLY <1>1, c \in Conns, CountMove
<1> QED
  BY <1>2 DEF f, g

\* Nobody counts when everybody is gone.
LEMMA CountNone ==
  ASSUME NEW A, "gone" \notin A
  PROVE  Cardinality(At(A, [c \in Conns |-> "gone"], Conns)) = 0
<1>1. At(A, [c \in Conns |-> "gone"], Conns) = {}
  BY DEF At
<1> QED
  BY <1>1, FS_EmptySet

-----------------------------------------------------------------------------
(* What is common to the three counts.                                     *)

\* Without hosts to intercept no connection is in handleMITM.
LEMMA NoMITM ==
  ASSUME IInv, MITMHosts = {}, NEW c \in Conns
  PROVE  pc[c] \notin Decrypting /\ ~ handleMITM(c)
<1>1. pc[c] \notin Decrypting
  BY Known DEF Good, RoutedPart
<1> QED
  BY <1>1 DEF Decrypting, handleMITM, forwardMITMRequest, MITMStep, MITMFails,
     AfterMITMStep, MITMRead, ReadRequest, MITMReadEnds, MITMForward,
     MITMForwardFails, MITMWrite, MITMWriteFails, MITMAccount, MITMEmit

-----------------------------------------------------------------------------
(* The request cap.  A call that passed the counter has a place among the  *)
(* first MaxRequests until it reaches an upstream or is refused.           *)

WithinCap ==
  MaxRequests > 0 =>
    /\ served + Cardinality(At(Placed, pc, Conns)) <= n
    /\ served + Cardinality(At(Placed, pc, Conns)) <= MaxRequests

\* A call keeps its place or gives it up, uses it to reach an upstream, or is
\* given one of those left.
LEMMA CapMove ==
  ASSUME IInv, WithinCap, NEW c \in Conns, NEW b, Goto(c, b),
         \/ /\ UNCHANGED <<n, served>>
            /\ b \in Placed => pc[c] \in Placed
         \/ /\ n' = n /\ served' = served + 1
            /\ pc[c] \in Placed /\ b \notin Placed
         \/ /\ n' = n + 1 /\ served' = served
            /\ pc[c] \notin Placed
            /\ b \in Placed => n' <= MaxRequests
  PROVE  WithinCap'
<1>1. pc \in [Conns -> Steps] /\ n \in Nat /\ served \in Nat /\ MaxRequests \in Nat
  BY LimitsAssumption DEF IInv, Process, Connections
<1>2. pc' = [pc EXCEPT ![c] = b]
  BY DEF Goto
<1>3. Cardinality(At(Placed, pc', Conns))
        = Cardinality(At(Placed, pc, Conns)) - One(pc[c], Placed)
                                             + One(b, Placed)
  BY GotoCounts
<1>4. Cardinality(At(Placed, pc, Conns)) \in Nat
  BY CountConns
<1> QED
  BY <1>1, <1>2, <1>3, <1>4 DEF WithinCap, One

\* A step of a connection keeps the cap.
LEMMA CapConnection ==
  ASSUME IInv, WithinCap, MITMHosts = {}, NEW c \in Conns,
         \/ \E m \in {"GET", "CONNECT"}, h \in Hosts \cup {NoHost} : Receive(c, m, h)
         \/ \E h \in Hosts \cup {NoHost} : MuxAnswers(c, h)
         \/ NewExpires(c)
         \/ ServeHTTP(c)
         \/ Finish(c)
  PROVE  WithinCap'
<1> USE DEF Placed
<1>1. ASSUME NEW k, NEW b, b \notin Placed, Deliver(c, k, b) PROVE WithinCap'
  BY <1>1, CapMove DEF Deliver, limitVars
<1>15. ASSUME NEW m, NEW h, Receive(c, m, h) \/ MuxAnswers(c, h)
       PROVE  WithinCap'
  BY <1>1, <1>15 DEF Receive, MuxAnswers
<1>2. CASE Finish(c) \/ NewExpires(c)
  BY <1>2, CapMove DEF Finish, NewExpires, limitVars, tallies
<1>3. CASE CounterAllow(c)
  <2>1. CASE MaxRequests > 0
    <3>1. n' = n + 1 /\ served' = served /\ pc[c] = "count"
      BY <1>3, <2>1 DEF CounterAllow, tallies
    <3>2. CASE n' > MaxRequests
      BY <1>3, <2>1, <3>1, <3>2, CapMove DEF CounterAllow, Refuse, EmitAndGoto
    <3>3. CASE ~ (n' > MaxRequests)
      <4>1. Goto(c, "rate")
        BY <1>3, <3>3 DEF CounterAllow
      <4>2. n' <= MaxRequests
        BY <3>1, <3>3, Known, LimitsAssumption
      <4> QED
        BY <3>1, <4>1, <4>2, CapMove
    <3> QED
      BY <3>2, <3>3
  <2>2. CASE ~ (MaxRequests > 0)
    BY <2>2 DEF WithinCap
  <2> QED
    BY <2>1, <2>2
<1>4. CASE LimiterAllow(c)
  BY <1>4, CapMove DEF LimiterAllow, Refuse, EmitAndGoto, limitVars, tallies
<1>5. CASE BudgetCheck(c)
  BY <1>5, CapMove DEF BudgetCheck, Refuse, EmitAndGoto, limitVars, tallies
<1>6. CASE Route(c)
  BY <1>6, CapMove DEF Route, Refuse, EmitAndGoto, limitVars, tallies
<1>7. ASSUME NEW u, Forward(c, u) PROVE WithinCap'
  BY <1>7, CapMove DEF Forward, Reach, limitVars
<1>13. CASE Upgrade(c)
  BY <1>13, CapMove DEF Upgrade, Reach, limitVars
<1>8. CASE ForwardFails(c)
  BY <1>8, CapMove DEF ForwardFails, MayReach, Reach, Refuse, EmitAndGoto, limitVars
<1>9. CASE CopyResponse(c) \/ CopyAborts(c) \/ Account(c) \/ EmitAllowed(c)
  BY <1>9, CapMove DEF CopyResponse, CopyAborts, Account, EmitAllowed, EmitAndGoto,
     limitVars, tallies
<1>10. CASE ConnectStep(c)
  <2>1. pc[c] \in {"dial", "hijack", "greet"} /\ Goto(c, AfterConnectStep[pc[c]])
    BY <1>10 DEF ConnectStep, AfterConnectStep
  <2>2. AfterConnectStep[pc[c]] \notin Placed
    BY <2>1 DEF AfterConnectStep
  <2> QED
    BY <1>10, <2>1, <2>2, CapMove DEF ConnectStep, Reach, limitVars
<1>11. CASE ConnectFails(c) \/ TunnelEnds(c)
  BY <1>11, CapMove DEF ConnectFails, TunnelEnds, Refuse, EmitAndGoto, limitVars, tallies
<1>12. ~ handleMITM(c)
  BY NoMITM
<1> QED
  BY <1>2, <1>3, <1>4, <1>5, <1>6, <1>7, <1>8, <1>9, <1>10, <1>11, <1>12,
     <1>13, <1>15 DEF ServeHTTP, handleHTTP, handleConnect

\* srv.Shutdown closes the connections that are idle and not new.
ClosesIdle ==
  \A c \in Conns : IF pc[c] = "idle" THEN pc'[c] \in {"new", "gone"}
                                      ELSE pc'[c] = pc[c]

\* What run() does to the connections: nothing, close the idle ones, or end.
LEMMA LifecycleMoves ==
  ASSUME Lifecycle
  PROVE  /\ UNCHANGED <<limitVars, tallies>>
         /\ \/ UNCHANGED connVars
            \/ ClosesIdle /\ UNCHANGED call
            \/ engine' = "exited" /\ pc' = [c \in Conns |-> "gone"]
BY DEF Lifecycle, Start, Signal, EmitEngineShutdown, Shutdown, DrainDone,
   DrainTimesOut, CloseSink, Exit, ListenFails, Die, Advance, connVars,
   ClosesIdle

\* So it adds no connection to a step that counts.
LEMMA LifecycleCount ==
  ASSUME Lifecycle, NEW A, "idle" \notin A, "new" \notin A, "gone" \notin A
  PROVE  Cardinality(At(A, pc', Conns)) <= Cardinality(At(A, pc, Conns))
<1>1. CASE UNCHANGED connVars
  BY <1>1, CountConns DEF connVars
<1>2. CASE ClosesIdle
  <2>1. At(A, pc', Conns) = At(A, pc, Conns)
    BY <1>2 DEF At, ClosesIdle
  <2> QED
    BY <2>1, CountConns
<1>3. CASE pc' = [c \in Conns |-> "gone"]
  BY <1>3, CountNone, CountConns
<1> QED
  BY <1>1, <1>2, <1>3, LifecycleMoves

\* Every step keeps the cap.
LEMMA CapStep ==
  ASSUME IInv, WithinCap, MITMHosts = {}, [Next]_vars
  PROVE  WithinCap'
<1>1. CASE UNCHANGED vars
  BY <1>1 DEF vars, WithinCap
<1>2. CASE Lifecycle
  <2>1. Cardinality(At(Placed, pc', Conns)) <= Cardinality(At(Placed, pc, Conns))
    BY <1>2, LifecycleCount DEF Placed
  <2>2. n' = n /\ served' = served
    BY <1>2, LifecycleMoves DEF limitVars, tallies
  <2>3. /\ Cardinality(At(Placed, pc', Conns)) \in Nat
        /\ Cardinality(At(Placed, pc, Conns)) \in Nat
        /\ n \in Nat /\ served \in Nat /\ MaxRequests \in Nat
    BY CountConns, LimitsAssumption DEF IInv, Process
  <2> QED
    BY <2>1, <2>2, <2>3 DEF WithinCap
<1> QED
  BY <1>1, <1>2, CapConnection DEF Next

(***************************************************************************)
(* Where nothing is intercepted, no more calls reach an upstream than the  *)
(* Counter admits, however many race for the last place.                   *)
(***************************************************************************)
THEOREM CapHolds ==
  ASSUME MITMHosts = {}
  PROVE  Spec => []ServedWithinCap
<1>1. Init => WithinCap
  <2> SUFFICES ASSUME Init PROVE WithinCap
    OBVIOUS
  <2>1. At(Placed, pc, Conns) = {}
    BY DEF Init, At, Placed
  <2> QED
    BY <2>1, FS_EmptySet, LimitsAssumption DEF Init, WithinCap
<1>2. IInv /\ WithinCap /\ [Next]_vars => WithinCap'
  BY CapStep
<1>3. IInv /\ WithinCap => ServedWithinCap
  BY CountConns, LimitsAssumption DEF IInv, Process, WithinCap, ServedWithinCap
<1> QED
  BY <1>1, <1>2, <1>3, Invariant, PTL DEF Spec

-----------------------------------------------------------------------------
(* The overshoot.  A call that passed the budget check and is not yet      *)
(* charged may still add MaxUsage to what is used.                         *)

WithinOvershoot ==
  MaxTokens > 0 =>
    used + Cardinality(At(Uncharged, pc, Conns)) * MaxUsage
      < MaxTokens + Cardinality(Conns) * MaxUsage

LEMMA UsageScales ==
  ASSUME NEW k \in Nat, NEW m \in Nat, k <= m
  PROVE  /\ k * MaxUsage \in Nat /\ m * MaxUsage \in Nat
         /\ k * MaxUsage <= m * MaxUsage
         /\ k < m => k * MaxUsage + MaxUsage <= m * MaxUsage
<1>1. PICK d \in Nat : m = k + d
  <2>1. m - k \in Nat /\ m = k + (m - k)
    OBVIOUS
  <2> QED
    BY <2>1
<1>2. MaxUsage \in Nat
  BY LimitsAssumption
<1>3. k * MaxUsage \in Nat /\ d * MaxUsage \in Nat
  BY <1>2
<1>4. m * MaxUsage = k * MaxUsage + d * MaxUsage
  BY <1>1, <1>2
<1>5. ASSUME d >= 1 PROVE d * MaxUsage >= MaxUsage
  <2>1. PICK e \in Nat : d = e + 1
    BY <1>5
  <2>2. d * MaxUsage = e * MaxUsage + MaxUsage /\ e * MaxUsage \in Nat
    BY <1>2, <2>1
  <2> QED
    BY <1>2, <2>2
<1>6. k < m => d >= 1
  BY <1>1
<1> QED
  BY <1>2, <1>3, <1>4, <1>5, <1>6

\* A call stays on its side of the check, is charged, or passes the check.
LEMMA OvershootMove ==
  ASSUME IInv, WithinOvershoot, NEW c \in Conns, NEW b, Goto(c, b), used' \in Nat,
         \/ /\ used' = used
            /\ b \in Uncharged => pc[c] \in Uncharged
         \/ /\ used' <= used + MaxUsage
            /\ pc[c] \in Uncharged /\ b \notin Uncharged
         \/ used' = used /\ used < MaxTokens
  PROVE  WithinOvershoot'
<1> DEFINE before == Cardinality(At(Uncharged, pc, Conns))
           after == Cardinality(At(Uncharged, pc', Conns))
           all == Cardinality(Conns)
<1>1. pc \in [Conns -> Steps] /\ used \in Nat /\ MaxTokens \in Nat /\ MaxUsage \in Nat
  BY LimitsAssumption DEF IInv, Process, Connections
<1>2. pc' = [pc EXCEPT ![c] = b]
  BY DEF Goto
<1>3. after = before - One(pc[c], Uncharged) + One(b, Uncharged)
  BY GotoCounts
<1>4. before \in Nat /\ after \in Nat /\ all \in Nat /\ before <= all /\ after <= all
  BY CountConns
<1> HIDE DEF before, after, all
<1>5. /\ after * MaxUsage \in Nat /\ before * MaxUsage \in Nat /\ all * MaxUsage \in Nat
      /\ after * MaxUsage <= all * MaxUsage
  BY <1>4, UsageScales
<1>6. MaxTokens > 0 => used + before * MaxUsage < MaxTokens + all * MaxUsage
  BY DEF WithinOvershoot, before, all
<1>7. MaxTokens > 0 => used' + after * MaxUsage < MaxTokens + all * MaxUsage
  <2>1. CASE used' = used /\ (b \in Uncharged => pc[c] \in Uncharged)
    <3>1. after <= before
      BY <1>3, <1>4, <2>1 DEF One
    <3>2. after * MaxUsage <= before * MaxUsage
      BY <1>4, <3>1, UsageScales
    <3> QED
      BY <1>1, <1>5, <1>6, <2>1, <3>2
  <2>2. CASE used' <= used + MaxUsage /\ pc[c] \in Uncharged /\ b \notin Uncharged
    <3>1. after < before /\ after <= before
      BY <1>3, <1>4, <2>2 DEF One
    <3>2. after * MaxUsage + MaxUsage <= before * MaxUsage
      BY <1>4, <3>1, UsageScales
    <3> QED
      BY <1>1, <1>5, <1>6, <2>2, <3>2
  <2>3. CASE used' = used /\ used < MaxTokens
    BY <1>1, <1>5, <2>3
  <2> QED
    BY <2>1, <2>2, <2>3
<1> QED
  BY <1>7 DEF WithinOvershoot, after, all

\* A step of a connection keeps the overshoot bounded.
LEMMA OvershootConnection ==
  ASSUME IInv, WithinOvershoot, MITMHosts = {}, NEW c \in Conns,
         \/ \E m \in {"GET", "CONNECT"}, h \in Hosts \cup {NoHost} : Receive(c, m, h)
         \/ \E h \in Hosts \cup {NoHost} : MuxAnswers(c, h)
         \/ NewExpires(c)
         \/ ServeHTTP(c)
         \/ Finish(c)
  PROVE  WithinOvershoot'
<1> USE DEF Uncharged
<1>0. used \in Nat
  BY Known
<1>1. ASSUME NEW k, NEW b, b \notin Uncharged, Deliver(c, k, b)
      PROVE  WithinOvershoot'
  BY <1>0, <1>1, OvershootMove DEF Deliver, limitVars
<1>15. ASSUME NEW m, NEW h, Receive(c, m, h) \/ MuxAnswers(c, h)
       PROVE  WithinOvershoot'
  BY <1>1, <1>15 DEF Receive, MuxAnswers
<1>2. CASE Finish(c) \/ NewExpires(c)
  BY <1>0, <1>2, OvershootMove DEF Finish, NewExpires, limitVars
<1>3. CASE CounterAllow(c)
  BY <1>0, <1>3, OvershootMove DEF CounterAllow, Refuse, EmitAndGoto
<1>4. CASE LimiterAllow(c)
  BY <1>0, <1>4, OvershootMove DEF LimiterAllow, Refuse, EmitAndGoto, limitVars
<1>5. CASE BudgetCheck(c)
  <2>1. used' = used
    BY <1>5 DEF BudgetCheck, limitVars
  <2>2. CASE MaxTokens > 0 /\ used < MaxTokens
    BY <1>0, <1>5, <2>1, <2>2, OvershootMove DEF BudgetCheck, Refuse, EmitAndGoto
  <2>3. CASE MaxTokens > 0 /\ ~ (used < MaxTokens)
    <3>1. OverBudget
      BY <1>0, <2>3, LimitsAssumption DEF OverBudget
    <3> QED
      BY <1>0, <1>5, <2>1, <3>1, OvershootMove DEF BudgetCheck, Refuse, EmitAndGoto
  <2>4. CASE ~ (MaxTokens > 0)
    BY <2>4 DEF WithinOvershoot
  <2> QED
    BY <2>2, <2>3, <2>4
<1>6. CASE Route(c)
  BY <1>0, <1>6, OvershootMove DEF Route, Refuse, EmitAndGoto, limitVars
<1>7. ASSUME NEW u, Forward(c, u) PROVE WithinOvershoot'
  BY <1>0, <1>7, OvershootMove DEF Forward, limitVars
<1>14. CASE Upgrade(c)
  BY <1>0, <1>14, OvershootMove DEF Upgrade, limitVars
<1>8. CASE ForwardFails(c)
  BY <1>0, <1>8, OvershootMove DEF ForwardFails, Refuse, EmitAndGoto, limitVars
<1>9. CASE CopyResponse(c) \/ CopyAborts(c) \/ EmitAllowed(c)
  BY <1>0, <1>9, OvershootMove
     DEF CopyResponse, CopyAborts, EmitAllowed, EmitAndGoto, limitVars
<1>10. CASE Account(c)
  <2>1. call[c].usage \in 0 .. MaxUsage
    BY Known DEF Call
  <2>2. used' \in Nat /\ used' <= used + MaxUsage
    BY <1>0, <1>10, <2>1, LimitsAssumption DEF Account, Add
  <2> QED
    BY <1>10, <2>2, OvershootMove DEF Account
<1>11. CASE ConnectStep(c)
  <2>1. pc[c] \in {"dial", "hijack", "greet"} /\ Goto(c, AfterConnectStep[pc[c]])
    BY <1>11 DEF ConnectStep, AfterConnectStep
  <2>2. AfterConnectStep[pc[c]] \notin Uncharged
    BY <2>1 DEF AfterConnectStep
  <2> QED
    BY <1>0, <1>11, <2>1, <2>2, OvershootMove DEF ConnectStep, limitVars
<1>12. CASE ConnectFails(c) \/ TunnelEnds(c)
  BY <1>0, <1>12, OvershootMove
     DEF ConnectFails, TunnelEnds, Refuse, EmitAndGoto, limitVars
<1>13. ~ handleMITM(c)
  BY NoMITM
<1> QED
  BY <1>2, <1>3, <1>4, <1>5, <1>6, <1>7, <1>8, <1>9, <1>10, <1>11, <1>12,
     <1>13, <1>14, <1>15 DEF ServeHTTP, handleHTTP, handleConnect

\* Every step keeps the overshoot bounded.
LEMMA OvershootStep ==
  ASSUME IInv, WithinOvershoot, MITMHosts = {}, [Next]_vars
  PROVE  WithinOvershoot'
<1>1. CASE UNCHANGED vars
  BY <1>1 DEF vars, WithinOvershoot
<1>2. CASE Lifecycle
  <2> DEFINE before == Cardinality(At(Uncharged, pc, Conns))
             after == Cardinality(At(Uncharged, pc', Conns))
             all == Cardinality(Conns)
  <2>1. after <= before
    BY <1>2, LifecycleCount DEF Uncharged
  <2>2. used' = used /\ used \in Nat /\ MaxTokens \in Nat
    BY <1>2, LifecycleMoves, LimitsAssumption DEF limitVars, IInv, Process
  <2>3. before \in Nat /\ after \in Nat /\ all \in Nat /\ before <= all
    BY CountConns
  <2>4. MaxTokens > 0 => used + before * MaxUsage < MaxTokens + all * MaxUsage
    BY DEF WithinOvershoot
  <2> HIDE DEF before, after, all
  <2>5. /\ after * MaxUsage <= before * MaxUsage /\ after * MaxUsage \in Nat
        /\ before * MaxUsage \in Nat /\ all * MaxUsage \in Nat
    BY <2>1, <2>3, UsageScales
  <2>6. MaxTokens > 0 => used' + after * MaxUsage < MaxTokens + all * MaxUsage
    BY <2>2, <2>4, <2>5
  <2> QED
    BY <2>6 DEF WithinOvershoot, after, all
<1> QED
  BY <1>1, <1>2, OvershootConnection DEF Next

(***************************************************************************)
(* Where nothing is intercepted, calls in flight overshoot the budget by   *)
(* less than one response for each connection: the check in ServeHTTP and  *)
(* the Add after the response are apart, but a call passes both only once. *)
(***************************************************************************)
THEOREM OvershootHolds ==
  ASSUME MITMHosts = {}
  PROVE  Spec => []OvershootBounded
<1>1. Init => WithinOvershoot
  <2> SUFFICES ASSUME Init PROVE WithinOvershoot
    OBVIOUS
  <2>1. At(Uncharged, pc, Conns) = {}
    BY DEF Init, At, Uncharged
  <2>2. Cardinality(At(Uncharged, pc, Conns)) = 0
    BY <2>1, FS_EmptySet
  <2>3. Cardinality(Conns) \in Nat
    BY CountConns
  <2>4. 0 * MaxUsage = 0 /\ Cardinality(Conns) * MaxUsage \in Nat /\ MaxTokens \in Nat
    BY <2>3, LimitsAssumption
  <2>5. used = 0
    BY DEF Init
  <2> QED
    BY <2>2, <2>4, <2>5 DEF WithinOvershoot
<1>2. IInv /\ WithinOvershoot /\ [Next]_vars => WithinOvershoot'
  BY OvershootStep
<1>3. IInv /\ WithinOvershoot => OvershootBounded
  <2> SUFFICES ASSUME IInv, WithinOvershoot PROVE OvershootBounded
    OBVIOUS
  <2>1. Cardinality(At(Uncharged, pc, Conns)) \in Nat /\ Cardinality(Conns) \in Nat
    BY CountConns
  <2>2. /\ Cardinality(At(Uncharged, pc, Conns)) * MaxUsage \in Nat
        /\ Cardinality(Conns) * MaxUsage \in Nat /\ used \in Nat /\ MaxTokens \in Nat
    BY <2>1, LimitsAssumption DEF IInv, Process
  <2> QED
    BY <2>2 DEF WithinOvershoot, OvershootBounded
<1> QED
  BY <1>1, <1>2, <1>3, Invariant, PTL DEF Spec

-----------------------------------------------------------------------------
(* The accounts.                                                           *)

\* The tokens held for the connections in S, at steps f with calls g.
HeldIn(S, f, g) == UNION {{x} \X (1 .. g[x].usage) : x \in At(Answered, f, S)}

\* How many of them one connection has, at step p with call k.
Holds(p, k) == IF p \in Answered THEN k.usage ELSE 0

LEMMA HeldFinite ==
  ASSUME NEW S \in SUBSET Conns, NEW f, NEW g \in [Conns -> Call]
  PROVE  IsFiniteSet(HeldIn(S, f, g)) /\ Cardinality(HeldIn(S, f, g)) \in Nat
<1>1. HeldIn(S, f, g) \in SUBSET (Conns \X (1 .. MaxUsage))
  <2> SUFFICES ASSUME NEW x \in At(Answered, f, S), NEW t \in {x} \X (1 .. g[x].usage)
               PROVE  t \in Conns \X (1 .. MaxUsage)
    BY DEF HeldIn
  <2>1. x \in Conns /\ g[x].usage \in 0 .. MaxUsage
    BY DEF At, Call
  <2> QED
    BY <2>1, LimitsAssumption
<1>2. IsFiniteSet(Conns \X (1 .. MaxUsage))
  <2>1. IsFiniteSet(1 .. MaxUsage)
    BY FS_Interval, LimitsAssumption
  <2> QED
    BY <2>1, ConnsAssumption, FS_Product
<1> QED
  BY <1>1, <1>2, FS_Subset, FS_CardinalityType

\* One connection's tokens apart from the others'.
LEMMA HeldSplit ==
  ASSUME NEW f, NEW g \in [Conns -> Call], NEW c \in Conns
  PROVE  Cardinality(HeldIn(Conns, f, g))
           = Cardinality(HeldIn(Conns \ {c}, f, g)) + Holds(f[c], g[c])
<1> DEFINE Mine == {c} \X (1 .. g[c].usage)
           Others == HeldIn(Conns \ {c}, f, g)
<1>1. IsFiniteSet(Others) /\ Cardinality(Others) \in Nat
  BY HeldFinite
<1>2. CASE f[c] \notin Answered
  <2>1. At(Answered, f, Conns) = At(Answered, f, Conns \ {c})
    BY <1>2 DEF At
  <2>2. HeldIn(Conns, f, g) = Others
    BY <2>1 DEF HeldIn
  <2> QED
    BY <1>1, <1>2, <2>2 DEF Holds
<1>3. CASE f[c] \in Answered
  <2>1. At(Answered, f, Conns) = At(Answered, f, Conns \ {c}) \cup {c}
    BY <1>3 DEF At
  <2>2. HeldIn(Conns, f, g) = Others \cup Mine
    BY <2>1 DEF HeldIn
  <2>3. Others \cap Mine = {}
    <3>1. ASSUME NEW t \in Others, t \in Mine PROVE FALSE
      <4>1. PICK x \in At(Answered, f, Conns \ {c}) : t \in {x} \X (1 .. g[x].usage)
        BY <3>1 DEF HeldIn
      <4>2. x # c
        BY DEF At
      <4>3. t[1] = x /\ t[1] = c
        BY <3>1, <4>1
      <4> QED
        BY <4>2, <4>3
    <3> QED
      BY <3>1
  <2>4. IsFiniteSet(Mine) /\ Cardinality(Mine) = g[c].usage /\ g[c].usage \in Nat
    <3>1. g[c].usage \in Nat
      BY LimitsAssumption DEF Call
    <3>2. IsFiniteSet(1 .. g[c].usage) /\ Cardinality(1 .. g[c].usage) = g[c].usage
      <4>1. PICK u \in Nat : u = g[c].usage
        BY <3>1
      <4>2. IsFiniteSet(1 .. u) /\ Cardinality(1 .. u) = IF 1 > u THEN 0 ELSE u - 1 + 1
        BY FS_Interval
      <4>3. Cardinality(1 .. u) = u
        BY <4>2
      <4> QED
        BY <4>1, <4>2, <4>3
    <3>3. IsFiniteSet({c}) /\ Cardinality({c}) = 1
      BY FS_Singleton
    <3> DEFINE S == {c}
               T == 1 .. g[c].usage
    <3> HIDE DEF S, T
    <3>4. IsFiniteSet(S \X T) /\ Cardinality(S \X T) = Cardinality(S) * Cardinality(T)
      <4>1. IsFiniteSet(S) /\ IsFiniteSet(T)
        BY <3>2, <3>3 DEF S, T
      <4> QED
        BY <4>1, FS_Product
    <3>5. Cardinality(S) * Cardinality(T) = g[c].usage
      BY <3>1, <3>2, <3>3 DEF S, T
    <3>6. Mine = S \X T
      BY DEF S, T
    <3> QED
      BY <3>1, <3>4, <3>5, <3>6
  <2> HIDE DEF Mine, Others
  <2>5. Cardinality(Others \cup Mine)
          = Cardinality(Others) + Cardinality(Mine) - Cardinality({})
    BY <1>1, <2>3, <2>4, FS_Union
  <2>6. Cardinality(HeldIn(Conns, f, g)) = Cardinality(Others) + g[c].usage
    BY <1>1, <2>2, <2>4, <2>5, FS_EmptySet
  <2> QED
    BY <1>3, <2>6 DEF Holds, Others
<1> QED
  BY <1>2, <1>3

LEMMA HeldTokensIn ==
  /\ HeldTokens = HeldIn(Conns, pc, call)
  /\ HeldTokens' = HeldIn(Conns, pc', call')
BY DEF HeldTokens, HeldIn, At, Answered

\* One connection moves to step b with call k, and what it adds to or takes
\* from the accounts balances.
LEMMA BalanceMove ==
  ASSUME IInv, IInv', AccountingExact, NEW c \in Conns, NEW b, NEW k \in Call,
         Goto(c, b), call' = [call EXCEPT ![c] = k], UNCHANGED engine,
         MaxTokens > 0 =>
           consumed' + used + Holds(pc[c], call[c])
             = consumed + used' + Holds(b, k)
  PROVE  AccountingExact'
<1>1. /\ pc \in [Conns -> Steps] /\ call \in [Conns -> Call] /\ call' \in [Conns -> Call]
      /\ used \in Nat /\ consumed \in Nat
      /\ used' \in Nat /\ consumed' \in Nat
  BY DEF IInv, Process, Connections
<1>2. pc' = [pc EXCEPT ![c] = b]
  BY DEF Goto
<1>3. pc'[c] = b /\ call'[c] = k
  BY <1>1, <1>2
<1> DEFINE others == Cardinality(HeldIn(Conns \ {c}, pc, call))
<1>4. others \in Nat
  BY <1>1, HeldFinite
<1>5. Cardinality(HeldIn(Conns, pc, call)) = others + Holds(pc[c], call[c])
  BY <1>1, HeldSplit
<1>6. HeldIn(Conns \ {c}, pc', call') = HeldIn(Conns \ {c}, pc, call)
  <2>1. \A x \in Conns \ {c} : pc'[x] = pc[x] /\ call'[x] = call[x]
    BY <1>1, <1>2
  <2>2. At(Answered, pc', Conns \ {c}) = At(Answered, pc, Conns \ {c})
    BY <2>1 DEF At
  <2>3. \A x \in At(Answered, pc, Conns \ {c}) : call'[x] = call[x]
    BY <2>1 DEF At
  <2> QED
    BY <2>2, <2>3 DEF HeldIn
<1>7. Cardinality(HeldIn(Conns, pc', call'))
        = Cardinality(HeldIn(Conns \ {c}, pc', call')) + Holds(pc'[c], call'[c])
  BY <1>1, HeldSplit
<1>8. Cardinality(HeldIn(Conns, pc', call')) = others + Holds(b, k)
  BY <1>3, <1>6, <1>7
<1>9. Holds(pc[c], call[c]) \in Nat /\ Holds(b, k) \in Nat
  BY <1>1, LimitsAssumption DEF Holds, Call
<1> HIDE DEF others
<1> QED
  BY <1>1, <1>4, <1>5, <1>8, <1>9, HeldTokensIn DEF AccountingExact

\* A call that is not answered goes on with its call, or leaves an event.
LEMMA BalanceQuiet ==
  ASSUME IInv, IInv', AccountingExact, NEW c \in Conns, NEW b,
         UNCHANGED <<engine, consumed, used>>,
         pc[c] \in Answered <=> b \in Answered,
         (Goto(c, b) /\ UNCHANGED call) \/ EmitAndGoto(c, b)
  PROVE  AccountingExact'
<1>1. call \in [Conns -> Call] /\ call[c] \in Call
  BY Known DEF IInv, Connections
<1>2. consumed \in Nat /\ used \in Nat
  BY DEF IInv, Process
<1>3. CASE Goto(c, b) /\ UNCHANGED call
  <2>1. call' = [call EXCEPT ![c] = call[c]]
    BY <1>1, <1>3
  <2>2. Holds(b, call[c]) = Holds(pc[c], call[c])
    BY DEF Holds
  <2> QED
    BY <1>1, <1>2, <1>3, <2>1, <2>2, BalanceMove
<1>4. CASE EmitAndGoto(c, b)
  <2> DEFINE k == [call[c] EXCEPT !.events = IF sinkOpen THEN @ + 1 ELSE @]
  <2>1. k \in Call /\ k.usage = call[c].usage
    BY <1>1 DEF Call
  <2>2. Goto(c, b) /\ call' = [call EXCEPT ![c] = k]
    BY <1>4 DEF EmitAndGoto, emit
  <2> HIDE DEF k
  <2>3. Holds(b, k) = Holds(pc[c], call[c])
    BY <2>1 DEF Holds
  <2> QED
    BY <1>2, <2>1, <2>2, <2>3, BalanceMove
<1> QED
  BY <1>3, <1>4

\* A response with u tokens comes back.
LEMMA BalanceReport ==
  ASSUME IInv, IInv', AccountingExact, NEW c \in Conns, NEW b \in Answered,
         NEW u \in 0 .. MaxUsage, pc[c] \notin Answered, Goto(c, b),
         call' = [call EXCEPT ![c].usage = u], consumed' = consumed + u,
         UNCHANGED <<engine, used>>
  PROVE  AccountingExact'
<1> DEFINE k == [call[c] EXCEPT !.usage = u]
<1>1. call[c] \in Call /\ consumed \in Nat /\ used \in Nat /\ u \in Nat
  BY Known, LimitsAssumption
<1>2. k \in Call /\ k.usage = u /\ call' = [call EXCEPT ![c] = k]
  BY <1>1 DEF Call
<1> HIDE DEF k
<1>3. Holds(pc[c], call[c]) = 0 /\ Holds(b, k) = u
  BY <1>2 DEF Holds
<1>4. consumed' + used + 0 = consumed + used' + u
  BY <1>1
<1> QED
  BY <1>2, <1>3, <1>4, BalanceMove

\* The tokens of a call are added to the budget.
LEMMA BalanceAdd ==
  ASSUME IInv, IInv', AccountingExact, NEW c \in Conns, NEW b,
         pc[c] \in Answered, b \notin Answered, Goto(c, b), Add(c),
         call' = [call EXCEPT ![c].usage = 0],
         UNCHANGED <<engine, consumed>>
  PROVE  AccountingExact'
<1> DEFINE k == [call[c] EXCEPT !.usage = 0]
<1>1. /\ call[c] \in Call /\ call[c].usage \in Nat
      /\ consumed \in Nat /\ used \in Nat
  BY Known
<1>2. k \in Call /\ call' = [call EXCEPT ![c] = k]
  BY <1>1, LimitsAssumption DEF Call
<1> HIDE DEF k
<1>3. Holds(pc[c], call[c]) = call[c].usage /\ Holds(b, k) = 0
  BY DEF Holds
<1>4. MaxTokens > 0 =>
        consumed' + used + call[c].usage = consumed + used' + 0
  BY <1>1 DEF Add
<1> QED
  BY <1>2, <1>3, <1>4, BalanceMove

\* A call that holds nothing becomes another.
LEMMA BalanceNewCall ==
  ASSUME IInv, IInv', AccountingExact, NEW c \in Conns, NEW b, NEW k \in Call,
         pc[c] \notin Answered, b \notin Answered, Goto(c, b),
         call' = [call EXCEPT ![c] = k], UNCHANGED <<engine, consumed, used>>
  PROVE  AccountingExact'
<1>1. consumed \in Nat /\ used \in Nat
  BY Known
<1>2. Holds(pc[c], call[c]) = 0 /\ Holds(b, k) = 0
  BY DEF Holds
<1> QED
  BY <1>1, <1>2, BalanceMove

\* handleHTTP and handleConnect keep the accounts.
LEMMA BalanceForwarding ==
  ASSUME IInv, IInv', AccountingExact, Interrupted = {}, NEW c \in Conns,
         handleHTTP(c) \/ handleConnect(c)
  PROVE  AccountingExact'
<1> USE DEF Answered
<1>1. ASSUME NEW u \in 0 .. MaxUsage, Forward(c, u) PROVE AccountingExact'
  BY <1>1, BalanceReport DEF Forward, engineVars, limitVars
<1>2. CASE ForwardFails(c)
  BY <1>2, BalanceQuiet DEF ForwardFails, Refuse, engineVars, limitVars
<1>3. CASE CopyResponse(c)
  BY <1>3, BalanceQuiet DEF CopyResponse, engineVars, limitVars, tallies
<1>4. ~ CopyAborts(c)
  BY DEF CopyAborts
<1>10. CASE Upgrade(c)
  BY <1>10, BalanceQuiet DEF Upgrade, engineVars, limitVars
<1>5. CASE Account(c)
  <2>1. /\ Goto(c, "allowed") /\ Add(c) /\ call' = [call EXCEPT ![c].usage = 0]
        /\ UNCHANGED <<engine, consumed>>
    BY <1>5 DEF Account, engineVars, tallies
  <2>2. pc[c] \in Answered /\ "allowed" \notin Answered
    BY <1>5 DEF Account
  <2> HIDE DEF Answered
  <2> QED
    BY <2>1, <2>2, BalanceAdd
<1>6. CASE EmitAllowed(c)
  BY <1>6, BalanceQuiet DEF EmitAllowed, engineVars, limitVars, tallies
<1>7. CASE ConnectStep(c)
  <2>1. pc[c] \in {"dial", "hijack", "greet"} /\ Goto(c, AfterConnectStep[pc[c]])
    BY <1>7 DEF ConnectStep, AfterConnectStep
  <2>2. AfterConnectStep[pc[c]] \notin Answered
    BY <2>1 DEF AfterConnectStep
  <2> QED
    BY <1>7, <2>1, <2>2, BalanceQuiet DEF ConnectStep, engineVars, limitVars
<1>8. CASE ConnectFails(c)
  <2>1. pc[c] \in {"dial", "hijack", "greet"}
    BY <1>8 DEF ConnectFails, AfterConnectStep
  <2> QED
    BY <1>8, <2>1, BalanceQuiet DEF ConnectFails, Refuse, engineVars, limitVars, tallies
<1>9. CASE TunnelEnds(c)
  BY <1>9, BalanceQuiet DEF TunnelEnds, engineVars, limitVars, tallies
<1> QED
  BY <1>1, <1>2, <1>3, <1>4, <1>5, <1>6, <1>7, <1>8, <1>9, <1>10
     DEF handleHTTP, handleConnect

\* handleMITM keeps the accounts.
LEMMA BalanceMITM ==
  ASSUME IInv, IInv', AccountingExact, Interrupted = {}, NEW c \in Conns,
         handleMITM(c)
  PROVE  AccountingExact'
<1> USE DEF Answered
<1>1. call[c] \in Call
  BY Known
<1>2. CASE MITMStep(c)
  <2> DEFINE k == [call[c] EXCEPT !.due = IF pc[c] = "handshake" THEN 0 ELSE @]
  <2>1. /\ pc[c] \in {"leaf", "mhijack", "mgreet", "handshake"}
        /\ Goto(c, AfterMITMStep[pc[c]])
    BY <1>2 DEF MITMStep, AfterMITMStep
  <2>2. AfterMITMStep[pc[c]] \notin Answered
    BY <2>1 DEF AfterMITMStep
  <2>3. k \in Call
    BY <1>1 DEF Call
  <2>4. call' = [call EXCEPT ![c] = k]
    BY <1>2 DEF MITMStep
  <2> HIDE DEF k
  <2> QED
    BY <1>2, <2>1, <2>2, <2>3, <2>4, BalanceNewCall
       DEF MITMStep, engineVars, limitVars, tallies
<1>3. CASE MITMFails(c)
  <2>1. pc[c] \in {"leaf", "mhijack", "mgreet", "handshake"}
    BY <1>3 DEF MITMFails, AfterMITMStep
  <2> QED
    BY <1>3, <2>1, BalanceQuiet DEF MITMFails, Refuse, engineVars, limitVars, tallies
<1>4. CASE MITMRead(c)
  <2>1. NewCall(call[c].method, call[c].host) \in Call
    <3>1. call[c].method \in {"GET", "CONNECT"} /\ call[c].host \in Hosts \cup {NoHost}
      BY <1>1 DEF Call
    <3> QED
      BY <3>1, NewCallGood
  <2> QED
    BY <1>4, <2>1, BalanceNewCall DEF MITMRead, ReadRequest, engineVars, limitVars
<1>5. CASE MITMReadEnds(c)
  BY <1>5, BalanceQuiet DEF MITMReadEnds, engineVars, limitVars, tallies
<1>6. ASSUME NEW u \in 0 .. MaxUsage, NEW via, MITMForward(c, u, via)
      PROVE  AccountingExact'
  BY <1>6, BalanceReport DEF MITMForward, engineVars, limitVars
<1>7. ASSUME NEW via, MITMForwardFails(c, via) PROVE AccountingExact'
  BY <1>7, BalanceQuiet DEF MITMForwardFails, engineVars, limitVars
<1>8. CASE MITMWrite(c)
  BY <1>8, BalanceQuiet DEF MITMWrite, engineVars, limitVars, tallies
<1>9. ~ MITMWriteFails(c)
  BY DEF MITMWriteFails
<1>10. CASE MITMAccount(c)
  <2>1. /\ Goto(c, "mallowed") /\ Add(c) /\ call' = [call EXCEPT ![c].usage = 0]
        /\ UNCHANGED <<engine, consumed>>
    BY <1>10 DEF MITMAccount, engineVars, tallies
  <2>2. pc[c] \in Answered /\ "mallowed" \notin Answered
    BY <1>10 DEF MITMAccount
  <2> HIDE DEF Answered
  <2> QED
    BY <2>1, <2>2, BalanceAdd
<1>11. CASE MITMEmit(c)
  BY <1>11, BalanceQuiet DEF MITMEmit, engineVars, limitVars, tallies
<1> QED
  BY <1>2, <1>3, <1>4, <1>5, <1>6, <1>7, <1>8, <1>9, <1>10, <1>11
     DEF handleMITM, forwardMITMRequest

\* The server and the pre-flight checks keep the accounts.
LEMMA BalancePreflight ==
  ASSUME IInv, IInv', AccountingExact, NEW c \in Conns,
         \/ \E m \in {"GET", "CONNECT"}, h \in Hosts \cup {NoHost} : Receive(c, m, h)
         \/ \E h \in Hosts \cup {NoHost} : MuxAnswers(c, h)
         \/ NewExpires(c)
         \/ Finish(c)
         \/ CounterAllow(c) \/ LimiterAllow(c) \/ BudgetCheck(c) \/ Route(c)
  PROVE  AccountingExact'
<1> USE DEF Answered
<1>0. ASSUME NEW k \in Call, NEW b, b \notin Answered, Deliver(c, k, b)
      PROVE  AccountingExact'
  BY <1>0, BalanceNewCall DEF Deliver, engineVars, limitVars
<1>1. ASSUME NEW m \in {"GET", "CONNECT"}, NEW h \in Hosts \cup {NoHost},
             Receive(c, m, h) \/ MuxAnswers(c, h)
      PROVE  AccountingExact'
  <2>1. \A w \in {"GET", "CONNECT"} : NewCall(w, h) \in Call
    BY NewCallGood
  <2>2. [NewCall("GET", h) EXCEPT !.due = 0] \in Call
    BY <2>1 DEF Call
  <2> HIDE DEF NewCall
  <2> QED
    BY <1>0, <1>1, <2>1, <2>2 DEF Receive, MuxAnswers
<1>7. CASE NewExpires(c)
  BY <1>7, BalanceQuiet DEF NewExpires, engineVars, limitVars, tallies
<1>2. CASE Finish(c)
  <2>1. NoCall \in Call
    BY LimitsAssumption DEF NoCall, Call
  <2> QED
    BY <1>2, <2>1, BalanceNewCall DEF Finish, engineVars, limitVars, tallies
<1>3. CASE CounterAllow(c)
  BY <1>3, BalanceQuiet DEF CounterAllow, Refuse, engineVars, tallies
<1>4. CASE LimiterAllow(c)
  BY <1>4, BalanceQuiet DEF LimiterAllow, Refuse, engineVars, limitVars, tallies
<1>5. CASE BudgetCheck(c)
  BY <1>5, BalanceQuiet DEF BudgetCheck, Refuse, engineVars, limitVars, tallies
<1>6. CASE Route(c)
  BY <1>6, BalanceQuiet DEF Route, Refuse, engineVars, limitVars, tallies
<1> QED
  BY <1>1, <1>2, <1>3, <1>4, <1>5, <1>6, <1>7

\* Every step keeps the accounts.
LEMMA BalanceStep ==
  ASSUME IInv, IInv', AccountingExact, Interrupted = {}, [Next]_vars
  PROVE  AccountingExact'
<1>1. CASE UNCHANGED vars
  BY <1>1 DEF vars, AccountingExact, HeldTokens
<1>2. CASE Lifecycle
  <2>1. CASE engine' = "exited"
    BY <2>1 DEF AccountingExact
  <2>2. CASE engine' # "exited"
    <3>1. /\ used' = used /\ consumed' = consumed /\ call' = call
          /\ pc' = pc \/ ClosesIdle
      BY <1>2, <2>2, LifecycleMoves DEF limitVars, tallies, connVars
    <3>2. At(Answered, pc', Conns) = At(Answered, pc, Conns)
      BY <3>1 DEF At, Answered, ClosesIdle
    <3>3. HeldTokens' = HeldTokens
      BY <3>1, <3>2, HeldTokensIn DEF HeldIn
    <3>4. engine # "exited"
      BY <1>2 DEF Lifecycle, Start, Signal, EmitEngineShutdown, Shutdown, DrainDone,
         DrainTimesOut, CloseSink, Exit, ListenFails, Die, Advance
    <3> QED
      BY <3>1, <3>3, <3>4 DEF AccountingExact
  <2> QED
    BY <2>1, <2>2
<1> QED
  BY <1>1, <1>2, BalancePreflight, BalanceForwarding, BalanceMITM DEF Next, ServeHTTP

(***************************************************************************)
(* As long as no response breaks off on its way to the client, no token is *)
(* dropped or charged twice: what upstreams reported is in the budget or   *)
(* with a call still being answered, on every path and for any number of   *)
(* connections.  (Where one breaks off its tokens are lost.)               *)
(***************************************************************************)
THEOREM AccountsBalance ==
  ASSUME Interrupted = {}
  PROVE  Spec => []AccountingExact
<1>1. Init => AccountingExact
  <2> SUFFICES ASSUME Init PROVE AccountingExact
    OBVIOUS
  <2>1. At(Answered, pc, Conns) = {}
    BY DEF Init, At, Answered
  <2>2. HeldTokens = {}
    BY <2>1, HeldTokensIn DEF HeldIn
  <2> QED
    BY <2>2, FS_EmptySet DEF Init, AccountingExact
<1>2. IInv /\ IInv' /\ AccountingExact /\ [Next]_vars => AccountingExact'
  BY BalanceStep
<1> QED
  BY <1>1, <1>2, Invariant, PTL DEF Spec
=============================================================================
