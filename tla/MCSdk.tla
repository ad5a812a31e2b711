------------------------------- MODULE MCSdk --------------------------------
(***************************************************************************)
(* Two flows, a client of each adapter, and two calls: "x" is any observed *)
(* or unobserved call, "y" one that is recorded or tracked, or a plain one.*)
(***************************************************************************)
EXTENDS Sdk

(* An object, by the sequence of its keys and values. *)
Object(entries) ==
  [k \in {entries[i][1] : i \in DOMAIN entries} |->
     LET i == CHOOSE i \in DOMAIN entries : entries[i][1] = k
     IN  [at |-> i, is |-> entries[i][2]]]

MCFlow == {"f", "g"}

MCMaxNest == [f |-> 3, g |-> 1]

MCContexts ==
  [f |-> {Object(<< <<"customerId", "ann">> >>),
          Object(<< <<"customer_id", "bob">>, <<"trace_id", Null>>,
                    <<"customerId", "eve">> >>)},
   g |-> {Object(<< <<"customerId", "cem">>,
                    <<"tags", Object(<< <<"plan", "pro">> >>)>> >>)}]

MCClient == {"oai", "ant", "gem", "bed"}

MCShape ==
  [oai |-> [ctor |-> "Proxy", host |-> "groq", serviceId |-> Null,
            methods |-> {<<"chat", "completions", "create">>, <<"responses", "create">>,
                         <<"embeddings", "create">>}],
   ant |-> [ctor |-> "Anthropic", host |-> Null, serviceId |-> Null,
            methods |-> {<<"messages", "create">>}],
   gem |-> [ctor |-> "Proxy", host |-> Null, serviceId |-> Null,
            methods |-> {<<"models", "generateContent">>}],
   bed |-> [ctor |-> "Proxy", host |-> Null, serviceId |-> "Bedrock Runtime",
            methods |-> {<<"send">>}]]

MCWrapOptions ==
  [oai |-> {Object(<< <<"team", "core">>, <<"customerId", "tag">> >>)},
   ant |-> {Empty}, gem |-> {Empty}, bed |-> {Empty}]

MCConfigs == {[apiKey |-> "k2"]}

MCEnv == [apiKey |-> "k1"]

MCCall == {"x", "y"}

Proxy(client, path, options) ==
  [kind |-> "proxy", client |-> client, path |-> path, options |-> options]

Chat == <<"chat", "completions", "create">>
Small == <<"gpt", "4o", "mini", "0718">>
Opus  == <<"claude", "opus", "4", "1">>

MCRequests ==
  [x |-> {Proxy("oai", Chat, [model |-> Small, stream |-> TRUE]),
          Proxy("oai", Chat, [model |-> Small, stream |-> TRUE,
                              stream_options |-> [include_usage |-> FALSE]]),
          Proxy("oai", <<"responses", "create">>, [model |-> Small, stream |-> TRUE]),
          Proxy("oai", <<"chat", "completions", "parse">>, [model |-> Small]),
          Proxy("ant", <<"messages", "create">>,
                [model |-> Opus, stream |-> TRUE, costobs |-> Object(<< <<"feature", "chat">> >>)]),
          Proxy("gem", <<"models", "generateContentStream">>, [model |-> <<"gemini">>]),
          Proxy("gem", <<"models", "embedContent">>, [model |-> <<"gemini">>]),
          Proxy("bed", <<"send">>, [input |-> [modelId |-> <<"nova">>]])},
   y |-> {Proxy("ant", <<"messages", "create">>, [model |-> Opus]),
          [kind |-> "record",
           opts |-> Object(<< <<"provider", "elevenlabs">>, <<"model", <<"eleven">> >>,
                              <<"characters", 7>>, <<"customer_id", "dee">> >>)],
          [kind |-> "track", streamed |-> TRUE, response |-> [modelId |-> Small],
           usage |-> [inputTokens |-> 5, cachedInputTokens |-> 2, outputTokens |-> 3],
           meta |-> Object(<< <<"feature", "sum">> >>)]}]

OpenAIBody == [usage |-> [prompt_tokens |-> 9, completion_tokens |-> 4,
  prompt_tokens_details |-> [cached_tokens |-> 3],
  completion_tokens_details |-> [reasoning_tokens |-> 2]]]

(* One body serves each provider: a reply carries every spelling of a usage. *)
Body ==
  [usage |-> OpenAIBody.usage @@
     [input_tokens |-> 8, output_tokens |-> 6, cache_read_input_tokens |-> 5,
      cache_creation_input_tokens |-> 1] @@
     [inputTokens |-> 4, outputTokens |-> 3, cacheReadInputTokens |-> 2, totalTokens |-> 9],
   usageMetadata |->
     [promptTokenCount |-> 7, candidatesTokenCount |-> 5, cachedContentTokenCount |-> 2,
      thoughtsTokenCount |-> 1, totalTokenCount |-> 13]]

MCReplies ==
  [x |-> {[iterable |-> TRUE, body |-> Body], [iterable |-> FALSE, body |-> Body]},
   y |-> {[iterable |-> FALSE, body |-> Body]}]

MCRules ==
  << [provider |-> "groq", model |-> <<"gpt", "4o">>, match |-> "prefix",
      input_per_token |-> 20, output_per_token |-> 40],
     [provider |-> "groq", model |-> <<"gpt", "4o", "mini">>, match |-> "prefix",
      input_per_token |-> 2, cached_input_per_token |-> 1, output_per_token |-> 4],
     [provider |-> "openai", model |-> <<"gpt">>, match |-> "prefix", input_per_token |-> 3],
     [provider |-> "anthropic", model |-> Opus, input_per_token |-> 15, output_per_token |-> 75],
     [provider |-> "gemini", model |-> <<"gemini">>, input_per_token |-> 6,
      cached_input_per_token |-> 2, output_per_token |-> 8, reasoning_per_token |-> 9],
     [provider |-> "elevenlabs", model |-> <<"eleven">>, operation |-> "audio",
      per_character |-> 5] >>

(* The parts of the instance meet only in the calls' events: contexts and    *)
(* OpenAI's ways to call are explored with one call and quiet queues, the    *)
(* life of the queues with two calls, one an Anthropic stream, and no        *)
(* context, and the other adapters with a client that is alone.  A second    *)
(* registry key, after configure, meets one shutdown only, and a third       *)
(* level of contexts no stream and no other flow.                            *)
InContext ==
  \/ \E f \in Flow : nested[f] # <<>>
  \/ \E c \in Call : calls[c].nested # <<>> \/ calls[c].puller # <<>>

Deep == Len(nested["f"]) = 3 \/ \E c \in Call : Len(calls[c].nested) = 3

QuietQueues ==
  /\ config = << >> /\ shutdowns = 0
  /\ \A i \in DOMAIN queues : queues[i].shipped = {}
  /\ Cardinality({c \in Call : calls[c].phase # "idle"}) <= 1

Has(clients) == \E c \in clients : recorder[c] # Null

PartAtATime ==
  /\ config # << >> => shutdowns <= 1
  /\ Deep => nested["g"] = <<>> /\ \A c \in Call : ~Streams(c) /\ calls[c].puller = <<>>
  /\ InContext \/ Has({"oai"}) => QuietQueues
  /\ Has({"gem", "bed"}) => /\ ~Has({"oai", "ant"}) /\ ~InContext /\ QuietQueues
                                 /\ ~(Has({"gem"}) /\ Has({"bed"}))
=============================================================================
