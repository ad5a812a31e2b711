------------------------------ MODULE Metadata ------------------------------
(***************************************************************************)
(* Request contexts and the metadata of an event                           *)
(* (sdks/typescript/src/context.ts, metadata.ts).  A JavaScript object is  *)
(* a function from its keys to the value each has and the place it is at:  *)
(* spreading one object over another keeps the place of a key that is      *)
(* already there, and of two keys of one field the later one is used.      *)
(***************************************************************************)
EXTENDS Integers, FiniteSets, FiniteSetsExt, Adapters

Empty == << >>

Lookup(object, key) == IF key \in DOMAIN object THEN object[key].is ELSE Null

Without(object, keys) == [k \in DOMAIN object \ keys |-> object[k]]

clean(object) == Without(object, {k \in DOMAIN object : object[k].is = Null})

(* The entries of an object are counted, each in a place of its own.        *)
IsObject(object) ==
  /\ IsFiniteSet(DOMAIN object)
  /\ \A k \in DOMAIN object : object[k].at \in 1..Cardinality(DOMAIN object)
  /\ \A j, k \in DOMAIN object : object[j].at = object[k].at => j = k

End(object) == Max({object[k].at : k \in DOMAIN object} \cup {0})

(* { ...outer, ...inner } *)
Spread(outer, inner) ==
  [k \in DOMAIN outer \cup DOMAIN inner |->
     [at |-> IF k \in DOMAIN outer THEN outer[k].at ELSE End(outer) + inner[k].at,
      is |-> IF k \in DOMAIN inner THEN inner[k].is ELSE outer[k].is]]

KnownFields == {"environment", "team", "service", "customer_id", "user_id",
  "trace_id", "feature", "prompt_key", "prompt_version"}

FieldAliases == [customerId |-> "customer_id", userId |-> "user_id",
  traceId |-> "trace_id", promptKey |-> "prompt_key",
  promptVersion |-> "prompt_version"]

canonicalKey(key) == IF key \in DOMAIN FieldAliases THEN FieldAliases[key] ELSE key

(* The keys that give a field, and the one that gives it last.              *)
Spelling(object, name) == {k \in DOMAIN clean(object) : canonicalKey(k) = name}

Latest(object, keys) == CHOOSE k \in keys : \A j \in keys : object[j].at <= object[k].at

Fields(object) ==
  [name \in {canonicalKey(k) : k \in DOMAIN clean(object)} \cap KnownFields |->
     object[Latest(object, Spelling(object, name))].is]

(* Every other key is a tag, and so are the entries of a tags object.       *)
Tags(object) ==
  LET own  == {k \in DOMAIN clean(object) : canonicalKey(k) \notin KnownFields \cup {"tags"}}
      more == clean(Coalesce(Lookup(object, "tags"), Empty))
  IN  [t \in own \cup DOMAIN more |->
         IF t \in own /\ (t \in DOMAIN more => object["tags"].at < object[t].at)
         THEN object[t].is ELSE more[t].is]

NoMeta == [fields |-> << >>, tags |-> << >>]

(* The entries of one object assigned over those of another.                *)
Over(more, entries) ==
  [k \in DOMAIN more \cup DOMAIN entries |->
     IF k \in DOMAIN more THEN more[k] ELSE entries[k]]

Layer(meta, object) ==
  [fields |-> Over(Fields(object), meta.fields), tags |-> Over(Tags(object), meta.tags)]

merge_ContextLast(clientMeta, context, callMeta) ==
  Layer(Layer(Layer(NoMeta, clientMeta), callMeta), context)

merge(clientMeta, context, callMeta) ==
  Layer(Layer(Layer(NoMeta, clientMeta), context), callMeta)
=============================================================================
