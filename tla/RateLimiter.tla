---------------------------- MODULE RateLimiter ----------------------------
(***************************************************************************)
(* The token bucket of internal/limits: ParseRateSpec makes it from an     *)
(* operator's text (RateSpec), and Allow, under its mutex, refills it by   *)
(* the time passed since the last attempt and takes a token if there is    *)
(* one.                                                                    *)
(*                                                                         *)
(* Arithmetic is exact (see RateWindow for the units); the code's is in    *)
(* float64.  The clock is Go's monotonic one and never goes back.          *)
(***************************************************************************)
EXTENDS Clock, Sequences, RateSpec

CONSTANTS One,          \* parts of a token
          RateSpecs,    \* the texts an operator may write
          Pauses,       \* lengths of time that may pass between two requests
          MaxAttempts   \* bound: requests that reach the limiter

ASSUME RateAssumption ==
  /\ One \in Nat \ {0}
  /\ \A s \in RateSpecs : s.count \in Int
  /\ Pauses \subseteq Nat \ {0}
  /\ MaxAttempts \in Nat

VARIABLES spec,       \* the operator's text
          up,         \* run() accepted it
          limit, granted, denied,   \* as in RateWindow
          tokens,     \* what the bucket held after the last attempt, in parts
          lastTime    \* when that was

limiterVars == <<spec, up, limit, granted, denied, tokens, lastTime>>

\* What the limiter promises.
Window == INSTANCE RateWindow

-----------------------------------------------------------------------------
LimiterInit ==
  /\ spec \in RateSpecs
  /\ up = ParseRateSpec(spec).ok
  /\ limit = ParseRateSpec(spec).limit
  /\ Window!Init
  /\ tokens = limit.burst
  /\ lastTime = 0

-----------------------------------------------------------------------------
Least(a, b) == IF a < b THEN a ELSE b

Refilled == Least(limit.burst, tokens + limit.rate * (now - lastTime))

\* Allow: granted or not, and with the bucket refilled either way.
Take ==
  /\ granted' = Append(granted, now)
  /\ tokens' = IF limit = Unlimited THEN tokens ELSE Refilled - One
  /\ lastTime' = IF limit = Unlimited THEN lastTime ELSE now
  /\ UNCHANGED denied

RefuseKeepsTime ==
  /\ denied' = denied + 1
  /\ tokens' = Refilled
  /\ UNCHANGED <<granted, lastTime>>

RefuseForgetsRefill ==
  /\ denied' = denied + 1
  /\ lastTime' = now
  /\ UNCHANGED <<granted, tokens>>

Refuse ==
  /\ denied' = denied + 1
  /\ tokens' = Refilled
  /\ lastTime' = now
  /\ UNCHANGED granted

Available == limit = Unlimited \/ Refilled >= One

Allow(ok) ==
  /\ up
  /\ Len(granted) + denied < MaxAttempts
  /\ ok = Available
  /\ IF ok THEN Take ELSE Refuse
  /\ UNCHANGED <<spec, up, limit>>

-----------------------------------------------------------------------------
(***************************************************************************)
(* limits.go:175-179: a limit that was asked for is never silently off.    *)
(* An engine that runs without one was given no text.                      *)
(***************************************************************************)
NoSilentUnlimited == up /\ limit = Unlimited => spec.form = "empty"

(***************************************************************************)
(* The bucket holds what the past leaves over: the burst, less what any    *)
(* window up to now has used beyond what the rate gave back.  So neither a *)
(* refused attempt nor a long pause can win or lose a client anything.     *)
(***************************************************************************)
BucketExact ==
  limit # Unlimited =>
    LET Left(i) == limit.burst + limit.rate * (now - granted[i])
                     - (Len(granted) - i + 1) * One
        Lefts == {limit.burst} \cup {Left(i) : i \in DOMAIN granted}
    IN  /\ Refilled \in Lefts
        /\ \A l \in Lefts : Refilled <= l
=============================================================================
