----------------------------- MODULE MCSidecar -----------------------------
(* Sidecar for TLC.  Every combination of what concerns the CA and the     *)
(* port, and one by one the other settings, right and wrong.               *)
EXTENDS Sidecar, TLC

\* As the chart has it, with an allowlist.
Default == [DefaultConfig EXCEPT !.allowlist = "llm,web",
                                 !.defaultIdentity = "auto-injected-v1"]

\* As the webhook has it that is not told otherwise.
MCUnset == {[DefaultConfig EXCEPT !.allowlist = "llm,web"]}

MCFileMode == {[Default EXCEPT !.auditMode = "file"]}

MCFileAndCA ==
  {[Default EXCEPT !.auditMode = "file", !.mitmCASecret = TRUE, !.mitmHosts = "llm"]}

WithCA ==
  {[Default EXCEPT !.mitmCASecret = ca, !.mitmHosts = hosts, !.listenPort = port] :
     ca \in BOOLEAN, hosts \in {"", "llm", "llm,web", "llm,["},
     port \in {"unset", "9090"}}

MCNumbers == ("0" :> 0) @@ ("5" :> 5) @@ ("-1" :> -1)

RateText(form, count, unit) == [form |-> form, count |-> count, unit |-> unit]

\* In parts of 1/3600 of a token.  "10" has no unit and "x/sec" no count.
MCRates ==
  ("" :> RateText("empty", 0, "")) @@ (" " :> RateText("empty", 0, ""))
  @@ ("10" :> RateText("malformed", 0, "")) @@ ("x/sec" :> RateText("malformed", 0, ""))
  @@ ("0/sec" :> RateText("count/unit", 0, "sec"))
  @@ ("10/day" :> RateText("count/unit", 36000, "day"))
  @@ ("10/min" :> RateText("count/unit", 36000, "min"))

MCConfigs ==
  WithCA \cup MCUnset \cup MCFileMode
  \cup {[Default EXCEPT !.allowlist = text] : text \in {"", ",", "llm,["}}
  \cup {[Default EXCEPT !.maxRequests = text] : text \in DOMAIN MCNumbers \cup {" ", "x"}}
  \cup {[Default EXCEPT !.rateLimit = text] : text \in DOMAIN MCRates}
  \cup {[Default EXCEPT !.maxTokens = text] : text \in {"5", "-1", "x"}}

\* Two pairs, a key that does not belong to its certificate, and no PEM.
MCSecrets ==
  {[cert |-> "A", key |-> "A"], [cert |-> "B", key |-> "B"],
   [cert |-> "A", key |-> "B"], [cert |-> "malformed", key |-> "malformed"]}
=============================================================================
