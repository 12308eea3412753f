------------------------------- MODULE Tunnel -------------------------------
(***************************************************************************)
(* The opaque CONNECT tunnel of internal/proxy/connect.go: two relays copy *)
(* bytes in opposite directions between the client's and the upstream's    *)
(* socket.  The handler runs one of them itself and starts a goroutine for *)
(* the other; when its own relay returns it emits egress_allowed with the  *)
(* byte counters, without waiting for the goroutine.                       *)
(*                                                                         *)
(* A byte stands for whatever one read returns.  Peers send, stop reading  *)
(* and close when they please.                                             *)
(***************************************************************************)
EXTENDS Naturals

CONSTANT MaxBytes   \* bound: bytes each peer sends

ASSUME BytesAssumption == MaxBytes \in Nat

Sides == {"client", "upstream"}
Relays == {"handler", "goroutine"}

\* go relay(clientConn, upstream, ...); relay(upstream, clientConn, ...)
src == [handler |-> "client", goroutine |-> "upstream"]
dst == [handler |-> "upstream", goroutine |-> "client"]

VARIABLES
  sent,      \* bytes each peer has sent
  stalled,   \* peers that no longer read what they are sent
  ended,     \* peers that closed their end
  open,      \* sockets this process has not closed
  at,        \* where each relay is
  moved,     \* bytes each relay has written to its destination
  counter,   \* the counter each relay stores its total in
  event      \* the counters in egress_allowed, once emitted

vars == <<sent, stalled, ended, open, at, moved, counter, event>>
peerVars == <<sent, stalled, ended>>

\* No event has been emitted.
NoEvent == [none |-> TRUE]

TypeOK ==
  /\ sent \in [Sides -> 0 .. MaxBytes]
  /\ stalled \subseteq Sides /\ ended \subseteq Sides /\ open \subseteq Sides
  /\ at \in [Relays -> {"copy", "store", "closeSrc", "closeDst", "done"}]
  /\ moved \in [Relays -> 0 .. MaxBytes]
  /\ counter \in [Relays -> 0 .. MaxBytes]
  /\ event = NoEvent \/ event \in [to : 0 .. MaxBytes, from : 0 .. MaxBytes]

Init ==
  /\ sent = [s \in Sides |-> 0]
  /\ stalled = {} /\ ended = {} /\ open = Sides
  /\ at = [r \in Relays |-> "copy"]
  /\ moved = [r \in Relays |-> 0]
  /\ counter = [r \in Relays |-> 0]
  /\ event = NoEvent

-----------------------------------------------------------------------------
(* The peers (external).                                                   *)

Send(s) ==
  /\ s \notin ended
  /\ sent[s] < MaxBytes
  /\ sent' = [sent EXCEPT ![s] = @ + 1]
  /\ UNCHANGED <<stalled, ended, open, at, moved, counter, event>>

Stall(s) ==
  /\ s \notin stalled
  /\ stalled' = stalled \cup {s}
  /\ UNCHANGED <<sent, ended, open, at, moved, counter, event>>

End(s) ==
  /\ s \notin ended
  /\ ended' = ended \cup {s}
  /\ UNCHANGED <<sent, stalled, open, at, moved, counter, event>>

-----------------------------------------------------------------------------
(* relay                                                                   *)

Unread(r) == sent[src[r]] - moved[r]

CopyRepeats(r) ==
  /\ at[r] = "copy"
  /\ sent[src[r]] > 0
  /\ {src[r], dst[r]} \subseteq open
  /\ dst[r] \notin stalled
  /\ moved' = [moved EXCEPT ![r] = @ + 1]
  /\ UNCHANGED <<peerVars, open, at, counter, event>>

\* io.Copy reads from src and writes to dst; a write to a peer that does
\* not read blocks.
Copy(r) ==
  /\ at[r] = "copy"
  /\ Unread(r) > 0
  /\ {src[r], dst[r]} \subseteq open
  /\ dst[r] \notin stalled
  /\ moved' = [moved EXCEPT ![r] = @ + 1]
  /\ UNCHANGED <<peerVars, open, at, counter, event>>

\* io.Copy returns: src is at its end or was closed under it, or the write
\* to dst fails because it was closed or its peer is gone.
CopyReturns(r) ==
  /\ at[r] = "copy"
  /\ \/ src[r] \in ended /\ Unread(r) = 0
     \/ src[r] \notin open
     \/ Unread(r) > 0 /\ (dst[r] \notin open \/ dst[r] \in ended)
  /\ at' = [at EXCEPT ![r] = "store"]
  /\ UNCHANGED <<peerVars, open, moved, counter, event>>

Store(r) ==
  /\ at[r] = "store"
  /\ counter' = [counter EXCEPT ![r] = moved[r]]
  /\ at' = [at EXCEPT ![r] = "closeSrc"]
  /\ UNCHANGED <<peerVars, open, moved, event>>

\* The deferred closes, last deferred first.
CloseSrc(r) ==
  /\ at[r] = "closeSrc"
  /\ open' = open \ {src[r]}
  /\ at' = [at EXCEPT ![r] = "closeDst"]
  /\ UNCHANGED <<peerVars, moved, counter, event>>

CloseDstOmitted(r) ==
  /\ at[r] = "closeDst"
  /\ at' = [at EXCEPT ![r] = "done"]
  /\ UNCHANGED <<peerVars, open, moved, counter, event>>

CloseDst(r) ==
  /\ at[r] = "closeDst"
  /\ open' = open \ {dst[r]}
  /\ at' = [at EXCEPT ![r] = "done"]
  /\ UNCHANGED <<peerVars, moved, counter, event>>

EmitAllowedEarly ==
  /\ at["handler"] # "copy"
  /\ event = NoEvent
  /\ event' = [to |-> counter["goroutine"], from |-> counter["handler"]]
  /\ UNCHANGED <<peerVars, open, at, moved, counter>>

\* The handler's relay has returned: egress_allowed.
EmitAllowed ==
  /\ at["handler"] = "done"
  /\ event = NoEvent
  /\ event' = [to |-> counter["goroutine"], from |-> counter["handler"]]
  /\ UNCHANGED <<peerVars, open, at, moved, counter>>

-----------------------------------------------------------------------------
relay(r) == \/ Copy(r) \/ CopyReturns(r) \/ Store(r)
            \/ CloseSrc(r) \/ CloseDst(r)

Peer(s) == Send(s) \/ Stall(s) \/ End(s)

Next == \/ \E s \in Sides : Peer(s)
        \/ \E r \in Relays : relay(r)
        \/ EmitAllowed

(***************************************************************************)
(* Fairness: the Go scheduler runs every goroutine that can run, and a     *)
(* close wakes a blocked read or write.  Nothing is assumed of the peers.  *)
(***************************************************************************)
Spec == /\ Init /\ [][Next]_vars
        /\ \A r \in Relays : WF_vars(relay(r))
        /\ WF_vars(EmitAllowed)

-----------------------------------------------------------------------------
(***************************************************************************)
(* The event closes the tunnel's account: once it is emitted no byte moves *)
(* in either direction, though the goroutine may still be running.         *)
(***************************************************************************)
QuietAfterEvent == [][event # NoEvent => moved' = moved]_vars

(***************************************************************************)
(* connect.go:154-156: when one direction ends the other is unblocked, so  *)
(* both relays return, both sockets are closed and the event is emitted,   *)
(* even if a peer never reads, sends or closes again.                      *)
(***************************************************************************)
TeardownPropagates ==
  (\E r \in Relays : at[r] = "store")
    ~> /\ \A r \in Relays : at[r] = "done"
       /\ open = {}
       /\ event # NoEvent
=============================================================================
