------------------------------ MODULE RateSpec ------------------------------
(***************************************************************************)
(* ParseRateSpec of internal/limits: what limit an operator's text makes.  *)
(*                                                                         *)
(* A text is empty, malformed (not of the form <n>/<unit>, or its n is no  *)
(* number), or a count (in parts of a token, see RateWindow: 0.5 is a      *)
(* legal count) and a unit.  The infinities and NaN, which ParseFloat      *)
(* reads as well, are left out.                                            *)
(***************************************************************************)
EXTENDS Integers

\* No limit: a nil *RateLimiter.
Unlimited == [rate |-> 0, burst |-> 0]

Period == [sec |-> 1, min |-> 60, hour |-> 3600]

Accepted(l) == [ok |-> TRUE, limit |-> l]
Rejected == [ok |-> FALSE, limit |-> Unlimited]

NewRateLimiter(rate, burst) ==
  IF rate <= 0 \/ burst <= 0 THEN Unlimited
                             ELSE [rate |-> rate, burst |-> burst]

ParseRateSpecLenient(s) ==
  IF s.form = "count/unit" /\ s.unit \in DOMAIN Period
  THEN Accepted(NewRateLimiter(s.count \div Period[s.unit], s.count))
  ELSE Accepted(Unlimited)

\* A rate below one part a second stands for one that float64 rounds to zero.
ParseRateSpec(s) ==
  IF s.form = "empty" THEN Accepted(Unlimited)
  ELSE IF \/ s.form # "count/unit"
          \/ s.count <= 0
          \/ s.unit \notin DOMAIN Period
  THEN Rejected
  ELSE LET perSecond == s.count \div Period[s.unit]
       IN  IF perSecond = 0 THEN Rejected
           ELSE Accepted(NewRateLimiter(perSecond, s.count))
=============================================================================
