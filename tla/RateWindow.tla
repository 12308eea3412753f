----------------------------- MODULE RateWindow -----------------------------
(***************************************************************************)
(* What a rate limit promises, without saying how: an attempt is granted   *)
(* exactly if no window of time that ends now would then hold more than    *)
(* the burst and what the rate adds over the window's length.              *)
(*                                                                         *)
(* Time is in seconds.  Tokens are counted in parts, One of them to a      *)
(* token, so that a rate per minute or hour is a whole number of parts a   *)
(* second.                                                                 *)
(***************************************************************************)
EXTENDS Integers, Sequences

CONSTANT One   \* parts of a token

VARIABLES limit,     \* [rate, burst] in parts, or Unlimited
          now,       \* the clock
          granted,   \* the times of the attempts that were granted
          denied     \* how many were not

\* No limit is configured (a nil *RateLimiter).
Unlimited == [rate |-> 0, burst |-> 0]

\* A window may as well start at a granted attempt, and one that holds none
\* has to have room for this attempt.
Fits ==
  \/ limit = Unlimited
  \/ /\ One <= limit.burst
     /\ \A i \in DOMAIN granted :
          (Len(granted) - i + 2) * One
            <= limit.burst + limit.rate * (now - granted[i])

Init == now = 0 /\ granted = <<>> /\ denied = 0

Grant ==
  /\ Fits
  /\ granted' = Append(granted, now)
  /\ UNCHANGED <<limit, now, denied>>

Deny ==
  /\ ~ Fits
  /\ denied' = denied + 1
  /\ UNCHANGED <<limit, now, granted>>

TimePasses ==
  /\ now' > now
  /\ UNCHANGED <<limit, granted, denied>>

Next == Grant \/ Deny \/ TimePasses

Spec == Init /\ [][Next]_<<limit, now, granted, denied>>
=============================================================================
