------------------------------ MODULE Adapters ------------------------------
(***************************************************************************)
(* What the TypeScript SDK knows of each provider's client                 *)
(* (sdks/typescript/src/adapters, schema.ts): which methods it observes,   *)
(* and how a response, or a stream of chunks, becomes a Usage.  A provider *)
(* object is a function from keys to values; a key it does not have, and   *)
(* one that holds null or undefined, both read as Null.                    *)
(***************************************************************************)
EXTENDS Integers, Sequences, SequencesExt

CONSTANT Null

field(obj, key) == IF key \in DOMAIN obj THEN obj[key] ELSE Null

read(obj, key) == IF obj = Null THEN Null ELSE field(obj, key)

Coalesce(a, b) == IF a = Null THEN b ELSE a

readInt(obj, key, dflt) == IF read(obj, key) = Null THEN dflt ELSE obj[key]

UsageFields == {"input_tokens", "cached_input_tokens", "output_tokens",
  "reasoning_tokens", "tool_tokens", "total_tokens", "audio_seconds",
  "characters", "image_count", "image_tiles"}

Sum3(u) == u.input_tokens + u.output_tokens + u.reasoning_tokens

makeUsage(partial) ==
  LET u == [f \in UsageFields |-> Coalesce(field(partial, f), 0)]
  IN  IF u.total_tokens = 0 THEN [u EXCEPT !.total_tokens = Sum3(u)] ELSE u

NoUsage == makeUsage(<< >>)

-----------------------------------------------------------------------------
(* Responses: what each provider reports, as one normalised Usage.          *)

NonCached(prompt, cached) == IF prompt > cached THEN prompt - cached ELSE 0

OpenAIUsage(u) ==
  LET prompt     == readInt(u, "prompt_tokens", readInt(u, "input_tokens", 0))
      completion == readInt(u, "completion_tokens", readInt(u, "output_tokens", 0))
      details    == Coalesce(read(u, "prompt_tokens_details"),
                             read(u, "input_tokens_details"))
      outDetails == Coalesce(read(u, "completion_tokens_details"),
                             read(u, "output_tokens_details"))
      cached     == readInt(details, "cached_tokens", 0)
  IN  makeUsage([input_tokens        |-> NonCached(prompt, cached),
                 cached_input_tokens |-> cached,
                 output_tokens       |-> completion,
                 reasoning_tokens    |-> readInt(outDetails, "reasoning_tokens", 0),
                 total_tokens        |-> readInt(u, "total_tokens", prompt + completion)])

AnthropicUsage(u) ==
  makeUsage([input_tokens        |-> readInt(u, "input_tokens", 0)
                                     + readInt(u, "cache_creation_input_tokens", 0),
             cached_input_tokens |-> readInt(u, "cache_read_input_tokens", 0),
             output_tokens       |-> readInt(u, "output_tokens", 0),
             reasoning_tokens    |-> readInt(u, "reasoning_tokens", 0)])

GeminiUsage(u) ==
  LET prompt     == readInt(u, "promptTokenCount", 0)
      candidates == readInt(u, "candidatesTokenCount", 0)
      cached     == readInt(u, "cachedContentTokenCount", 0)
      reasoning  == readInt(u, "thoughtsTokenCount", 0)
  IN  makeUsage([input_tokens        |-> NonCached(prompt, cached),
                 cached_input_tokens |-> cached,
                 output_tokens       |-> candidates,
                 reasoning_tokens    |-> reasoning,
                 total_tokens        |-> readInt(u, "totalTokenCount",
                                           prompt + candidates + reasoning)])

BedrockUsage(u) ==
  makeUsage([input_tokens        |-> readInt(u, "inputTokens", 0)
                                     + readInt(u, "cacheWriteInputTokens", 0),
             cached_input_tokens |-> readInt(u, "cacheReadInputTokens", 0),
             output_tokens       |-> readInt(u, "outputTokens", 0),
             total_tokens        |-> readInt(u, "totalTokens", 0)])

UsageKey(adapter) == IF adapter = "gemini" THEN "usageMetadata" ELSE "usage"

UsageFrom(adapter, u) ==
  CASE adapter = "openai"    -> OpenAIUsage(u)
    [] adapter = "anthropic" -> AnthropicUsage(u)
    [] adapter = "gemini"    -> GeminiUsage(u)
    [] adapter = "bedrock"   -> BedrockUsage(u)

parseUsage(adapter, response) ==
  LET u == read(response, UsageKey(adapter))
  IN  IF u = Null THEN NoUsage ELSE UsageFrom(adapter, u)

-----------------------------------------------------------------------------
(* Streams: an accumulator is the Usage it would return.                    *)

feedAnthropic_Adds(acc, chunk) ==
  LET start == read(field(chunk, "message"), "usage")
      delta == field(chunk, "usage")
      next  ==
        CASE field(chunk, "type") = "message_start" /\ start # Null -> AnthropicUsage(start)
          [] field(chunk, "type") = "message_delta" /\ delta # Null ->
               [acc EXCEPT !.output_tokens = @ + readInt(delta, "output_tokens", 0)]
          [] OTHER -> acc
  IN  [next EXCEPT !.total_tokens = Sum3(next)]

feedAnthropic(acc, chunk) ==
  LET start == read(field(chunk, "message"), "usage")
      delta == field(chunk, "usage")
      next  ==
        CASE field(chunk, "type") = "message_start" /\ start # Null ->
               LET p == AnthropicUsage(start)
               IN  [acc EXCEPT !.input_tokens        = p.input_tokens,
                               !.cached_input_tokens = p.cached_input_tokens,
                               !.reasoning_tokens    = p.reasoning_tokens]
          [] field(chunk, "type") = "message_delta" /\ delta # Null ->
               [acc EXCEPT !.output_tokens    = readInt(delta, "output_tokens", @),
                           !.reasoning_tokens = readInt(delta, "reasoning_tokens", @)]
          [] OTHER -> acc
  IN  [next EXCEPT !.total_tokens = Sum3(next)]

feed(adapter, acc, chunk) ==
  CASE adapter = "anthropic" -> feedAnthropic(acc, chunk)
    [] adapter = "bedrock"   -> acc
    [] OTHER -> LET u == field(chunk, UsageKey(adapter))
                IN  IF u = Null THEN acc ELSE UsageFrom(adapter, u)

-----------------------------------------------------------------------------
(* Calls: which are observed, and which of them stream.                     *)

terminalPaths(adapter) ==
  CASE adapter = "openai"    -> {<<"chat", "completions", "create">>,
                                 <<"responses", "create">>, <<"embeddings", "create">>}
    [] adapter = "anthropic" -> {<<"messages", "create">>}
    [] adapter = "gemini"    -> {<<"models", "generateContent">>,
                                 <<"models", "generateContentStream">>}
    [] adapter = "bedrock"   -> {<<"send">>}

isTerminal(path, adapter) == path \in terminalPaths(adapter)

isPrefixOfTerminal(path, adapter) ==
  \E t \in terminalPaths(adapter) : IsStrictPrefix(path, t)

(* Each property access of the path went through a proxy of its parent.     *)
Observed(path, adapter) ==
  /\ isTerminal(path, adapter)
  /\ \A n \in 1..(Len(path) - 1) : isPrefixOfTerminal(SubSeq(path, 1, n), adapter)

operationFor(path, adapter) ==
  CASE adapter = "openai" /\ path[1] = "embeddings" -> "embedding"
    [] adapter = "openai" /\ path[1] = "responses"  -> "responses"
    [] OTHER -> "chat"

modelFromOptions(adapter, options) ==
  IF adapter = "bedrock" THEN read(read(options, "input"), "modelId")
                         ELSE read(options, "model")

isStreamingMethod(path) == Last(path) = "generateContentStream"

isStream(adapter, options) ==
  adapter # "bedrock" /\ read(options, "stream") \notin {Null, FALSE}

prepareStreamOptions(adapter, options) ==
  IF /\ adapter = "openai"
     /\ isStream(adapter, options)
     /\ "stream_options" \notin DOMAIN options
  THEN [k \in DOMAIN options \cup {"stream_options"} |->
          IF k = "stream_options" THEN [include_usage |-> TRUE] ELSE options[k]]
  ELSE options

-----------------------------------------------------------------------------
(* Clients: [ctor, methods, host, serviceId], by what detection looks at.   *)

Constructors(adapter) ==
  CASE adapter = "openai"    -> {"OpenAI", "AzureOpenAI"}
    [] adapter = "anthropic" -> {"Anthropic", "AnthropicBedrock"}
    [] adapter = "gemini"    -> {"GoogleGenAI", "GoogleGenerativeAI"}
    [] adapter = "bedrock"   -> {"BedrockRuntimeClient"}

Shaped(adapter, client) ==
  CASE adapter = "openai"    -> {<<"chat", "completions", "create">>,
                                 <<"embeddings", "create">>} \subseteq client.methods
    [] adapter = "anthropic" -> /\ <<"messages", "create">> \in client.methods
                                /\ \A m \in client.methods : m[1] # "chat"
    [] adapter = "gemini"    -> <<"models", "generateContent">> \in client.methods
    [] adapter = "bedrock"   -> client.serviceId = "Bedrock Runtime"

Detects(adapter, client) ==
  client.ctor \in Constructors(adapter) \/ Shaped(adapter, client)

Registry == <<"openai", "anthropic", "gemini", "bedrock">>

detect(client) ==
  LET hits == {i \in DOMAIN Registry : Detects(Registry[i], client)}
  IN  IF hits = {} THEN Null ELSE Registry[Min(hits)]

HostProviders == [x_ai |-> "xai", together |-> "together", fireworks |-> "fireworks",
  openrouter |-> "openrouter", groq |-> "groq", deepseek |-> "deepseek",
  mistral |-> "mistral", googleapis |-> "gemini", azure |-> "azure-openai"]

providerFor(adapter, client) ==
  IF adapter = "openai" /\ client.host \in DOMAIN HostProviders
  THEN HostProviders[client.host] ELSE adapter
=============================================================================
