------------------------------ MODULE AuditLog ------------------------------
(***************************************************************************)
(* What an audit sink promises its caller: an append-only log.  A record   *)
(* that Emit acknowledged (returned nil for) is in the log from then on,   *)
(* at the position it was given, after every record acknowledged before.   *)
(***************************************************************************)
EXTENDS Naturals

CONSTANT Body
VARIABLE records   \* the acknowledged records: a set of [pos, body]

Init == records = {}

\* Emit returns nil: one record joins the log after all the others.
Acknowledge(r) ==
  /\ r.pos \in Nat \ {0} /\ r.body \in Body
  /\ \A q \in records : q.pos < r.pos
  /\ records' = records \cup {r}

Next == \E r \in records' : Acknowledge(r)

Spec == Init /\ [][Next]_records
=============================================================================
