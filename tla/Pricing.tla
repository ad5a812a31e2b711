------------------------------- MODULE Pricing ------------------------------
(***************************************************************************)
(* The price of a call (sdks/typescript/src/pricing.ts).  A rule is a      *)
(* function from the keys of the pricing file to values; a model's name is *)
(* the sequence of its parts, so that a prefix rule is a sequence prefix.  *)
(* Rates are integers and the two multipliers percentages: a cost is in    *)
(* ten-thousandths of a rate's unit, exact like the Decimals of the code.  *)
(***************************************************************************)
EXTENDS Integers, Sequences, SequencesExt, Adapters

CONSTANT Rules   (* the models of the pricing file, in its order *)

Rates == {"input_per_token", "cached_input_per_token", "output_per_token",
  "reasoning_per_token", "tool_per_token", "audio_per_second", "per_character",
  "batch_discount", "finetune_surcharge"}

(* A list of rules, each for a model's name, and with numbers for its rates. *)
ASSUME RulesAssumption ==
  /\ Rules \in Seq(ToSet(Rules)) /\ Null \notin ToSet(Rules)
  /\ \A r \in ToSet(Rules) : /\ r.model \in Seq(ToSet(r.model))
                             /\ \A key \in Rates : read(r, key) \in Int \cup {Null}

matchOf(r) == Coalesce(read(r, "match"), "exact")

matches(r, provider, model) ==
  /\ r.provider = provider
  /\ IF matchOf(r) = "prefix" THEN IsPrefix(r.model, model) ELSE r.model = model

(* Exact rules come first, then the longest prefix, the earlier of equals.  *)
find(provider, model) ==
  LET hits(kind) == {i \in DOMAIN Rules :
                       matchOf(Rules[i]) = kind /\ matches(Rules[i], provider, model)}
      longest(S) == {i \in S : \A j \in S : Len(Rules[j].model) <= Len(Rules[i].model)}
  IN  IF hits("exact") # {} THEN Rules[Min(hits("exact"))]
      ELSE IF hits("prefix") # {} THEN Rules[Min(longest(hits("prefix")))]
      ELSE Null

Rate(r, key) == Coalesce(read(r, key), 0)

RateOr(r, key, fallback) == Coalesce(read(r, key), Rate(r, fallback))

TokenCost(r, u) ==
    Rate(r, "input_per_token") * u.input_tokens
  + RateOr(r, "cached_input_per_token", "input_per_token") * u.cached_input_tokens
  + Rate(r, "output_per_token") * u.output_tokens
  + RateOr(r, "reasoning_per_token", "output_per_token") * u.reasoning_tokens
  + Rate(r, "tool_per_token") * u.tool_tokens

(* Tiles at the first tier's rate; its base per image only if there are any. *)
ImageCost(r, u) ==
  LET tiers == Coalesce(read(r, "image_tiers"), <<>>)
  IN  IF u.image_tiles = 0 \/ tiers = <<>> THEN 0
      ELSE Rate(tiers[1], "per_tile") * u.image_tiles
           + Rate(tiers[1], "base") * u.image_count

MediaCost(r, u) ==
    Rate(r, "audio_per_second") * u.audio_seconds
  + Rate(r, "per_character") * u.characters
  + ImageCost(r, u)

Percent(r, key, wanted) == IF wanted THEN Coalesce(read(r, key), 100) ELSE 100

cost(u, provider, model, options) ==
  LET r == find(provider, model)
  IN  IF r = Null THEN 0
      ELSE (TokenCost(r, u) + MediaCost(r, u))
           * Percent(r, "batch_discount", options.batch)
           * Percent(r, "finetune_surcharge", options.finetuned)
=============================================================================
