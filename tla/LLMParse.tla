------------------------------ MODULE LLMParse ------------------------------
(***************************************************************************)
(* internal/llmparse: which URLs are LLM endpoints, and the token usage it *)
(* reads off a response.                                                   *)
(*                                                                         *)
(* A URL keeps what the code tells apart: the kind of its host ("none" for *)
(* a URL without one) and the kind of its path, trailing slashes removed.  *)
(* A response keeps whether its body is JSON of the expected types         *)
(* (a stream of events, a compressed body or a count that is no integer    *)
(* are not), under which names it reports its counts, and the counts: of   *)
(* the input, of the output, and of what Anthropic's prompt cache took or  *)
(* gave, which the parser decodes and never adds.  Go leaves 0 where a     *)
(* name is absent.                                                         *)
(***************************************************************************)
EXTENDS Integers

URLs == [host : {"bedrock", "vertex", "other", "none"},
         path : {"/v1/chat/completions", "/v1/responses", "/v1/messages",
                 "/model/invoke", "/model/converse", ":generateContent",
                 ":predict", "/api/chat", "other"}]

\* The names a response reports under: Bedrock's are headers, and the last two
\* are the ones Converse and :predict have of their own in the body.
Names == {"prompt_tokens", "input_tokens", "prompt_eval_count",
          "promptTokenCount", "headers", "none", "inputTokens",
          "tokenMetadata"}

Usage(recognised, in, out) ==
  [Recognised |-> recognised, TokensIn |-> in, TokensOut |-> out]

isBedrock(u) ==
  u.host = "bedrock" /\ u.path \in {"/model/invoke", "/model/converse"}

isVertex(u) ==
  u.host = "vertex" /\ u.path \in {":generateContent", ":predict"}

Recognise(u) ==
  \/ u.path \in {"/v1/chat/completions", "/v1/responses", "/v1/messages",
                 "/api/chat"}
  \/ isBedrock(u)
  \/ isVertex(u)

\* json.Unmarshal into a struct that has these names; r.cache stays behind.
FromBody(names, r) ==
  IF r.json /\ r.names = names THEN Usage(TRUE, r.in, r.out)
                               ELSE Usage(TRUE, 0, 0)

\* The headers are read whatever the body is; without them Atoi gives 0.
parseBedrock(r) ==
  IF r.names = "headers" THEN Usage(TRUE, r.in, r.out) ELSE Usage(TRUE, 0, 0)

parseVertex(r) == FromBody("promptTokenCount", r)

ParseResponseOneNaming(u, r) ==
  IF Recognise(u) THEN FromBody("prompt_tokens", r) ELSE Usage(FALSE, 0, 0)

ParseResponse(u, r) ==
  CASE ~ Recognise(u)                      -> Usage(FALSE, 0, 0)
    [] u.path = "/v1/chat/completions"     -> FromBody("prompt_tokens", r)
    [] u.path \in {"/v1/responses",
                   "/v1/messages"}         -> FromBody("input_tokens", r)
    [] isBedrock(u)                        -> parseBedrock(r)
    [] isVertex(u)                         -> parseVertex(r)
    [] u.path = "/api/chat"                -> FromBody("prompt_eval_count", r)
    [] OTHER                               -> Usage(FALSE, 0, 0)
=============================================================================
