----------------------------- MODULE MCGateway -----------------------------
(* Gateway with real units: seconds, and 3600 parts to a token.            *)
EXTENDS Gateway, TLC

\* Connections are told apart by nothing.
ConnSymmetry == Permutations(Conns)

RateText(count, unit) ==
  [form |-> "count/unit", count |-> count, unit |-> unit]

\* 2/min, 1/min, 1/hour, 0.5/sec, and texts that are wrong in each way.
MCRateSpecs ==
  {RateText(2 * 3600, "min"), RateText(3600, "min"), RateText(3600, "hour"),
   RateText(1800, "sec"),
   RateText(0, "sec"), RateText(-3600, "sec"), RateText(1, "hour"),
   RateText(3600, "fortnight"),
   [form |-> "empty", count |-> 0, unit |-> ""],
   [form |-> "malformed", count |-> 0, unit |-> ""]}
=============================================================================
