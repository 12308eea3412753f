----------------------------- MODULE AuditChain -----------------------------
(***************************************************************************)
(* The hash chain of internal/audit/chain.go.                              *)
(*                                                                         *)
(* A SHA-256 digest is represented by what it commits to: the bodies of    *)
(* the event and of all its predecessors, oldest first.  This keeps the    *)
(* two facts the program relies on, that equal inputs hash alike and that  *)
(* different inputs hash differently (no collisions), and nothing else.    *)
(***************************************************************************)
EXTENDS Naturals, Sequences

CONSTANT Body   \* the hashed fields of an event, prev_hash excluded

Hash == Seq(Body)

\* A nil prev_hash: nothing precedes the event.
NoHash == <<>>

\* The digest of an event with this body, chained to the digest prev.
ComputeEventHash(body, prev) == Append(prev, body)

\* The digest `later' was computed from a history that begins with the one
\* `earlier' was computed from, so `earlier' cannot change under it.
Covers(later, earlier) ==
  /\ Len(earlier) <= Len(later)
  /\ \A i \in 1 .. Len(earlier) : later[i] = earlier[i]
=============================================================================
