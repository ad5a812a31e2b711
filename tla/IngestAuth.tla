----------------------------- MODULE IngestAuth -----------------------------
(***************************************************************************)
(* The authenticator of the ingest service (internal/auth): API keys in    *)
(* Postgres, an argon2id verification, and a cache of verified keys.       *)
(*                                                                         *)
(* Authenticate reads its clock once, before everything else, and touches  *)
(* the cache and the database in separate steps: between any two of them   *)
(* time passes, keys are revoked or issued, and other calls fill the cache.*)
(***************************************************************************)
EXTENDS Integers

CONSTANTS
  Key,         (* raw API keys                                             *)
  PrefixOf,    (* the first 8 characters of each key                       *)
  Org,         (* org slugs                                                *)
  None,        (* no row, no entry, no answer                              *)
  Refused,     (* ErrUnauthorized                                          *)
  Call,        (* concurrent calls of Authenticate, each slot reused       *)
  TTL,         (* the cache TTL                                            *)
  MaxTime      (* bound on the clock                                       *)

ASSUME IngestAuthAssumption ==
  /\ None \notin Org /\ Refused \notin Org
  /\ None \notin [key : Key, org : Org] /\ None \notin [org : Org, expires : Nat]
  /\ TTL \in Nat \ {0}
  /\ MaxTime \in Nat

Prefixes == {PrefixOf[k] : k \in Key}
Rows == [key : Key, org : Org]
Entries == [org : Org, expires : Nat]

VARIABLES
  clock,    \* the time
  row,      \* the active api_keys row of each prefix
  cache,    \* Authenticator.cache
  at,       \* where each call stands
  key,      \* its argument
  start,    \* its local now
  rec,      \* the record its lookup returned, until it returns
  answer    \* what it returned: an org, or Refused

VARIABLE    \* history
  until     \* until[k][o]: the last time the row of k was active for o, or -1

callVars == <<at, key, start, rec, answer>>
vars == <<clock, row, cache, callVars, until>>

Init ==
  /\ clock = 0
  /\ row = [p \in Prefixes |-> None]
  /\ cache = [k \in Key |-> None]
  /\ at = [c \in Call |-> "idle"]
  /\ key \in [Call -> Key]
  /\ start = [c \in Call |-> 0]
  /\ rec = [c \in Call |-> None]
  /\ answer = [c \in Call |-> None]
  /\ until = [k \in Key |-> [o \in Org |-> -1]]

-----------------------------------------------------------------------------
(* The world: the clock, and Postgres.  At most one row of a prefix is     *)
(* active (the unique index api_keys_active_prefix).                       *)

\* What is active now is active until now.
Witnessed(r, time) ==
  [k \in Key |-> [o \in Org |->
    IF r[PrefixOf[k]] # None /\ r[PrefixOf[k]].key = k /\ r[PrefixOf[k]].org = o THEN time ELSE until[k][o]]]

TimePasses ==
  /\ clock < MaxTime
  /\ clock' = clock + 1
  /\ until' = Witnessed(row, clock + 1)
  /\ UNCHANGED <<row, cache, callVars>>

Issue(k, o) ==
  /\ row[PrefixOf[k]] = None
  /\ row' = [row EXCEPT ![PrefixOf[k]] = [key |-> k, org |-> o]]
  /\ until' = [until EXCEPT ![k][o] = clock]
  /\ UNCHANGED <<clock, cache, callVars>>

Revoke(p) ==
  /\ row[p] # None
  /\ row' = [row EXCEPT ![p] = None]
  /\ UNCHANGED <<clock, cache, callVars, until>>

-----------------------------------------------------------------------------
(* Authenticate                                                            *)

Goto(c, from, to) == at[c] = from /\ at' = [at EXCEPT ![c] = to]

Return(c, a) == answer' = [answer EXCEPT ![c] = a]

\* The clock is read first, for the cache and for the entry to come.
Begin(c, k) ==
  /\ Goto(c, "idle", "cache") \/ Goto(c, "done", "cache")
  /\ key' = [key EXCEPT ![c] = k]
  /\ start' = [start EXCEPT ![c] = clock]
  /\ rec' = [rec EXCEPT ![c] = None]
  /\ answer' = [answer EXCEPT ![c] = None]
  /\ UNCHANGED <<clock, row, cache, until>>

Fresh(c) == cache[key[c]] # None /\ start[c] < cache[key[c]].expires

\* Fault: the expiry of the entry is not looked at.
CacheHit_NoExpiry(c) ==
  /\ cache[key[c]] # None
  /\ Goto(c, "cache", "done")
  /\ Return(c, cache[key[c]].org)
  /\ UNCHANGED <<clock, row, cache, key, start, rec, until>>

CacheHit(c) ==
  /\ Fresh(c)
  /\ Goto(c, "cache", "done")
  /\ Return(c, cache[key[c]].org)
  /\ UNCHANGED <<clock, row, cache, key, start, rec, until>>

CacheMiss(c) ==
  /\ ~Fresh(c)
  /\ Goto(c, "cache", "lookup")
  /\ UNCHANGED <<clock, row, cache, key, start, rec, answer, until>>

\* LookupByPrefix finds the active row of the prefix.
Lookup(c) ==
  /\ row[PrefixOf[key[c]]] # None
  /\ Goto(c, "lookup", "verify")
  /\ rec' = [rec EXCEPT ![c] = row[PrefixOf[key[c]]]]
  /\ UNCHANGED <<clock, row, cache, key, start, answer, until>>

\* No row, or any error of the database: both are ErrUnauthorized.
LookupErr(c) ==
  /\ Goto(c, "lookup", "done")
  /\ Return(c, Refused)
  /\ UNCHANGED <<clock, row, cache, key, start, rec, until>>

\* The argon2id hash matches only the key it was made from.
Verify(c) ==
  /\ Goto(c, "verify", "store")
  /\ rec[c].key = key[c]
  /\ UNCHANGED <<clock, row, cache, key, start, rec, answer, until>>

VerifyErr(c) ==
  /\ Goto(c, "verify", "done")
  /\ rec[c].key # key[c]
  /\ Return(c, Refused)
  /\ rec' = [rec EXCEPT ![c] = None]
  /\ UNCHANGED <<clock, row, cache, key, start, until>>

\* The entry expires TTL after the clock reading of this call.
StoreEntry(c) ==
  /\ Goto(c, "store", "done")
  /\ cache' = [cache EXCEPT ![key[c]] = [org |-> rec[c].org, expires |-> start[c] + TTL]]
  /\ Return(c, rec[c].org)
  /\ rec' = [rec EXCEPT ![c] = None]
  /\ UNCHANGED <<clock, row, key, start, until>>

\* PurgeExpired drops what has expired; nothing calls it on its own.
PurgeExpired ==
  /\ cache' = [k \in Key |-> IF cache[k] # None /\ clock > cache[k].expires THEN None ELSE cache[k]]
  /\ UNCHANGED <<clock, row, callVars, until>>

-----------------------------------------------------------------------------
Authenticate(c) ==
  \/ CacheHit(c) \/ CacheMiss(c) \/ Lookup(c) \/ LookupErr(c)
  \/ Verify(c) \/ VerifyErr(c) \/ StoreEntry(c)

Next ==
  \/ TimePasses
  \/ \E k \in Key, o \in Org : Issue(k, o)
  \/ \E p \in Prefixes : Revoke(p)
  \/ \E c \in Call, k \in Key : Begin(c, k)
  \/ \E c \in Call : Authenticate(c)
  \/ PurgeExpired

Spec == Init /\ [][Next]_vars

-----------------------------------------------------------------------------
(* Properties.                                                             *)

\* The variables keep their types; in particular no entry expires before time 0.
AuthTypeOK ==
  /\ clock \in Nat
  /\ row \in [Prefixes -> Rows \cup {None}]
  /\ cache \in [Key -> Entries \cup {None}]
  /\ at \in [Call -> {"idle", "cache", "lookup", "verify", "store", "done"}]
  /\ key \in [Call -> Key]
  /\ start \in [Call -> Nat]
  /\ rec \in [Call -> Rows \cup {None}]
  /\ answer \in [Call -> Org \cup {Refused, None}]
  /\ until \in [Key -> [Org -> Nat \cup {-1}]]

\* Revocation takes effect within the TTL, although the cache is filled by calls
\* that looked the key up before it was revoked and stored it long after: a call
\* that starts TTL or more after the key was last active for an org is never
\* answered with that org.
StaleAtMostTTL ==
  \A c \in Call : answer[c] \in Org => start[c] < until[key[c]][answer[c]] + TTL

\* No cached entry outlives the TTL, counted from the last time the key was
\* active for the org of the entry.
EntriesExpire ==
  \A k \in Key : cache[k] # None => cache[k].expires <= until[k][cache[k].org] + TTL
=============================================================================
