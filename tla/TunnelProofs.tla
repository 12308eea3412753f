---------------------------- MODULE TunnelProofs ----------------------------
(***************************************************************************)
(* Proofs about Tunnel, for any number of bytes.                           *)
(***************************************************************************)
EXTENDS Tunnel, TLAPS

\* A relay writes only what it has read.
NothingInvented == \A r \in Relays : moved[r] <= sent[src[r]]

\* The deferred closes happen in their order, and a socket stays closed.
Closes ==
  \A r \in Relays : /\ at[r] \in {"closeDst", "done"} => src[r] \notin open
                    /\ at[r] = "done" => dst[r] \notin open

\* The event comes after the handler's own relay.
EventLast == event # NoEvent => at["handler"] = "done"

IInv == TypeOK /\ NothingInvented /\ Closes /\ EventLast

\* A relay reads from one side and writes to the other.
LEMMA Ends ==
  /\ \A r \in Relays : src[r] \in Sides /\ dst[r] \in Sides
  /\ src["handler"] = "client" /\ dst["handler"] = "upstream"
BY DEF src, dst, Relays, Sides

LEMMA Initially == Init => IInv
<1> SUFFICES ASSUME Init PROVE IInv
  OBVIOUS
<1> USE DEF Init
<1>1. TypeOK
  BY BytesAssumption DEF TypeOK
<1>2. NothingInvented
  BY Ends DEF NothingInvented
<1> QED
  BY <1>1, <1>2 DEF IInv, Closes, EventLast

LEMMA PeerStep ==
  ASSUME IInv, NEW s \in Sides, Peer(s)
  PROVE  IInv'
<1> USE DEF IInv
<1>1. UNCHANGED <<open, at, moved, counter, event>>
  BY DEF Peer, Send, Stall, End
<1>2. /\ sent' \in [Sides -> 0 .. MaxBytes]
      /\ \A x \in Sides : sent[x] <= sent'[x]
      /\ stalled' \subseteq Sides /\ ended' \subseteq Sides
  BY BytesAssumption DEF TypeOK, Peer, Send, Stall, End
<1>3. TypeOK'
  BY <1>1, <1>2 DEF TypeOK
<1>4. NothingInvented'
  <2> SUFFICES ASSUME NEW r \in Relays PROVE moved[r] <= sent'[src[r]]
    BY <1>1 DEF NothingInvented
  <2>1. src[r] \in Sides /\ moved[r] \in Nat /\ moved[r] <= sent[src[r]]
    BY Ends DEF TypeOK, NothingInvented
  <2>2. sent[src[r]] \in Nat /\ sent'[src[r]] \in Nat /\ sent[src[r]] <= sent'[src[r]]
    BY <1>2, <2>1 DEF TypeOK
  <2> QED
    BY <2>1, <2>2
<1>5. Closes' /\ EventLast'
  BY <1>1 DEF Closes, EventLast
<1> QED
  BY <1>3, <1>4, <1>5

LEMMA RelayStep ==
  ASSUME IInv, NEW r \in Relays, relay(r)
  PROVE  IInv'
<1> USE DEF IInv
<1>1. CASE Copy(r)
  <2>1. /\ moved' = [moved EXCEPT ![r] = moved[r] + 1]
        /\ UNCHANGED <<peerVars, open, at, counter, event>>
        /\ sent[src[r]] - moved[r] > 0
    BY <1>1 DEF Copy, Unread
  <2>2. sent[src[r]] \in 0 .. MaxBytes /\ moved[r] \in 0 .. MaxBytes
    BY Ends DEF TypeOK
  <2>3. moved[r] + 1 <= sent[src[r]] /\ moved[r] + 1 \in 0 .. MaxBytes
    BY <2>1, <2>2, BytesAssumption
  <2>4. TypeOK'
    BY <2>1, <2>3 DEF TypeOK, peerVars
  <2>5. NothingInvented'
    BY <2>1, <2>3 DEF NothingInvented, TypeOK, peerVars
  <2> QED
    BY <2>1, <2>4, <2>5 DEF Closes, EventLast
<1>2. CASE CopyReturns(r)
  <2>1. /\ at[r] = "copy" /\ at' = [at EXCEPT ![r] = "store"]
        /\ UNCHANGED <<peerVars, open, moved, counter, event>>
    BY <1>2 DEF CopyReturns
  <2> QED
    BY <2>1 DEF TypeOK, NothingInvented, Closes, EventLast, peerVars
<1>3. CASE Store(r)
  <2>1. /\ at[r] = "store" /\ at' = [at EXCEPT ![r] = "closeSrc"]
        /\ counter' = [counter EXCEPT ![r] = moved[r]]
        /\ UNCHANGED <<peerVars, open, moved, event>>
    BY <1>3 DEF Store
  <2> QED
    BY <2>1 DEF TypeOK, NothingInvented, Closes, EventLast, peerVars
<1>4. CASE CloseSrc(r)
  <2>1. /\ at[r] = "closeSrc" /\ at' = [at EXCEPT ![r] = "closeDst"]
        /\ open' = open \ {src[r]}
        /\ UNCHANGED <<peerVars, moved, counter, event>>
    BY <1>4 DEF CloseSrc
  <2> QED
    BY <2>1 DEF TypeOK, NothingInvented, Closes, EventLast, peerVars
<1>5. CASE CloseDst(r)
  <2>1. /\ at[r] = "closeDst" /\ at' = [at EXCEPT ![r] = "done"]
        /\ open' = open \ {dst[r]}
        /\ UNCHANGED <<peerVars, moved, counter, event>>
    BY <1>5 DEF CloseDst
  <2> QED
    BY <2>1 DEF TypeOK, NothingInvented, Closes, EventLast, peerVars
<1> QED
  BY <1>1, <1>2, <1>3, <1>4, <1>5 DEF relay

LEMMA EventStep ==
  ASSUME IInv, EmitAllowed
  PROVE  IInv'
<1>1. /\ event' = [to |-> counter["goroutine"], from |-> counter["handler"]]
      /\ at["handler"] = "done"
      /\ UNCHANGED <<peerVars, open, at, moved, counter>>
  BY DEF EmitAllowed
<1>2. counter["goroutine"] \in 0 .. MaxBytes /\ counter["handler"] \in 0 .. MaxBytes
  BY DEF IInv, TypeOK, Relays
<1> QED
  BY <1>1, <1>2 DEF IInv, TypeOK, NothingInvented, Closes, EventLast, peerVars

LEMMA Step == IInv /\ [Next]_vars => IInv'
<1> SUFFICES ASSUME IInv, [Next]_vars PROVE IInv'
  OBVIOUS
<1>1. CASE UNCHANGED vars
  BY <1>1 DEF vars, IInv, TypeOK, NothingInvented, Closes, EventLast
<1> QED
  BY <1>1, PeerStep, RelayStep, EventStep DEF Next

\* IInv is an invariant of the tunnel.
THEOREM Invariant == Spec => []IInv
BY Initially, Step, PTL DEF Spec

\* Type correctness: no relay ever counts more bytes than its source sent.
THEOREM TypeCorrect == Spec => []TypeOK
<1>1. IInv => TypeOK
  BY DEF IInv
<1> QED
  BY <1>1, Invariant, PTL

\* After egress_allowed no byte moves: the event comes after both sockets are
\* closed, so the goroutine that may still run can only return.
THEOREM QuietTunnel == Spec => QuietAfterEvent
<1>1. IInv /\ [Next]_vars => [event # NoEvent => moved' = moved]_vars
  <2> SUFFICES ASSUME IInv, Next, event # NoEvent PROVE moved' = moved
    OBVIOUS
  <2>1. "client" \notin open /\ "upstream" \notin open
    BY Ends DEF IInv, EventLast, Closes, Relays
  <2>2. ASSUME NEW r \in Relays PROVE ~ Copy(r)
    BY <2>1, Ends DEF Copy, Sides
  <2>3. ASSUME NEW r \in Relays, relay(r) PROVE moved' = moved
    BY <2>2, <2>3 DEF relay, CopyReturns, Store, CloseSrc, CloseDst
  <2>4. ASSUME NEW s \in Sides, Peer(s) PROVE moved' = moved
    BY <2>4 DEF Peer, Send, Stall, End
  <2> QED
    BY <2>3, <2>4 DEF Next, EmitAllowed
<1> QED
  BY <1>1, Invariant, PTL DEF Spec, QuietAfterEvent
=============================================================================
