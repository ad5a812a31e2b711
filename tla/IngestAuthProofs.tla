-------------------------- MODULE IngestAuthProofs --------------------------
(***************************************************************************)
(* Proofs about IngestAuth for every set of keys, orgs and concurrent       *)
(* calls, every assignment of prefixes, every TTL and every time.           *)
(*                                                                          *)
(* That a revoked key is refused after the TTL rests on when a call reads   *)
(* its clock: before it looks the key up.  AuthInv carries that order       *)
(* along: whatever a call found active was active at its start (Looked),    *)
(* so the entry it stores expires early enough (EntriesExpire).             *)
(***************************************************************************)
EXTENDS IngestAuth, TLAPS

\* No clock reading lies in the future.
ClocksPast ==
  /\ \A c \in Call : start[c] <= clock
  /\ \A k \in Key, o \in Org : until[k][o] <= clock

\* A row is filed under the prefix of its key, and is active now.
ActiveNow ==
  \A p \in Prefixes : row[p] # None =>
    PrefixOf[row[p].key] = p /\ until[row[p].key][row[p].org] = clock

\* What a call has looked up was active when the call read its clock, or later.
Looked ==
  \A c \in Call :
    /\ at[c] \in {"verify", "store"} => rec[c] # None /\ start[c] <= until[rec[c].key][rec[c].org]
    /\ at[c] = "store" => rec[c].key = key[c]

\* Only a call that returned has an answer.
AnswerLast == \A c \in Call : answer[c] \in Org => at[c] = "done"

AuthInv ==
  /\ AuthTypeOK
  /\ ClocksPast
  /\ ActiveNow
  /\ Looked
  /\ AnswerLast
  /\ EntriesExpire
  /\ StaleAtMostTTL

-----------------------------------------------------------------------------
\* The prefix of a key is one of the prefixes.
LEMMA PrefixType == \A k \in Key : PrefixOf[k] \in Prefixes
  BY DEF Prefixes

\* The initial state satisfies the inductive invariant.
LEMMA InitAuthInv == Init => AuthInv
  BY IngestAuthAssumption
  DEF Init, AuthInv, AuthTypeOK, ClocksPast, ActiveNow, Looked, AnswerLast, EntriesExpire, StaleAtMostTTL

\* A step of the clock keeps it: what is active stays active until the new time.
LEMMA TimeAuthInv == AuthInv /\ TimePasses => AuthInv'
  <1> SUFFICES ASSUME AuthInv, TimePasses PROVE AuthInv'
    OBVIOUS
  <1> USE DEF AuthInv, TimePasses, callVars
  <1>1. /\ until' \in [Key -> [Org -> Nat \cup {-1}]]
        /\ \A k \in Key, o \in Org : until[k][o] <= until'[k][o] /\ until'[k][o] <= clock'
    <2>1. clock \in Nat /\ clock' = clock + 1
      BY DEF AuthTypeOK
    <2>2. \A k \in Key, o \in Org : until[k][o] \in Nat \cup {-1} /\ until[k][o] <= clock
      BY DEF AuthTypeOK, ClocksPast
    <2>3. \A k \in Key, o \in Org : until'[k][o] = clock' \/ until'[k][o] = until[k][o]
      BY <2>1 DEF Witnessed
    <2>4. until' \in [Key -> [Org -> Nat \cup {-1}]]
      BY <2>1, <2>2 DEF Witnessed
    <2> QED
      BY <2>1, <2>2, <2>3, <2>4
  <1>2. AuthTypeOK'
    BY <1>1 DEF AuthTypeOK
  <1>3. ClocksPast'
    BY <1>1 DEF ClocksPast, AuthTypeOK
  <1>4. ActiveNow'
    <2> SUFFICES ASSUME NEW p \in Prefixes, row[p] # None
                 PROVE  PrefixOf[row[p].key] = p /\ until'[row[p].key][row[p].org] = clock'
      BY DEF ActiveNow
    <2>1. row[p] \in Rows
      BY DEF AuthTypeOK
    <2> QED
      BY <2>1 DEF ActiveNow, Witnessed, Rows
  <1>5. Looked'
    <2> SUFFICES ASSUME NEW c \in Call, at[c] \in {"verify", "store"}
                 PROVE  start[c] <= until'[rec[c].key][rec[c].org]
      BY DEF Looked
    <2>1. rec[c] \in Rows /\ start[c] <= until[rec[c].key][rec[c].org]
      BY DEF Looked, AuthTypeOK
    <2> QED
      BY <1>1, <2>1 DEF AuthTypeOK, Rows
  <1>6. AnswerLast'
    BY DEF AnswerLast
  <1>7. EntriesExpire'
    <2> SUFFICES ASSUME NEW k \in Key, cache[k] # None
                 PROVE  cache[k].expires <= until'[k][cache[k].org] + TTL
      BY DEF EntriesExpire
    <2>1. cache[k] \in Entries /\ cache[k].expires <= until[k][cache[k].org] + TTL
      BY DEF EntriesExpire, AuthTypeOK
    <2>2. cache[k].expires \in Nat /\ cache[k].org \in Org
      BY <2>1 DEF Entries
    <2>3. until[k][cache[k].org] \in Int /\ until'[k][cache[k].org] \in Int
      BY <1>1, <2>2 DEF AuthTypeOK
    <2>4. until[k][cache[k].org] <= until'[k][cache[k].org]
      BY <1>1, <2>2
    <2> QED
      BY <2>1, <2>2, <2>3, <2>4, IngestAuthAssumption
  <1>8. StaleAtMostTTL'
    <2> SUFFICES ASSUME NEW c \in Call, answer[c] \in Org
                 PROVE  start[c] < until'[key[c]][answer[c]] + TTL
      BY DEF StaleAtMostTTL
    <2>1. start[c] < until[key[c]][answer[c]] + TTL
      BY DEF StaleAtMostTTL
    <2>2. key[c] \in Key /\ start[c] \in Nat
      BY DEF AuthTypeOK
    <2>3. until[key[c]][answer[c]] \in Int /\ until'[key[c]][answer[c]] \in Int
      BY <1>1, <2>2 DEF AuthTypeOK
    <2>4. until[key[c]][answer[c]] <= until'[key[c]][answer[c]]
      BY <1>1, <2>2
    <2> QED
      BY <2>1, <2>2, <2>3, <2>4, IngestAuthAssumption
  <1> QED
    BY <1>2, <1>3, <1>4, <1>5, <1>6, <1>7, <1>8

\* So does a key that is issued: it is active from now on.
LEMMA IssueAuthInv ==
  ASSUME AuthInv, NEW k \in Key, NEW o \in Org, Issue(k, o)
  PROVE  AuthInv'
  <1> USE DEF AuthInv, Issue, callVars
  <1>1. /\ until' \in [Key -> [Org -> Nat \cup {-1}]]
        /\ \A l \in Key, p \in Org : until[l][p] <= until'[l][p] /\ until'[l][p] <= clock
    BY DEF AuthTypeOK, ClocksPast
  <1>2. AuthTypeOK'
    BY <1>1, PrefixType DEF AuthTypeOK, Rows
  <1>3. ClocksPast'
    BY <1>1 DEF ClocksPast
  <1>4. ActiveNow'
    <2> SUFFICES ASSUME NEW p \in Prefixes, row'[p] # None
                 PROVE  PrefixOf[row'[p].key] = p /\ until'[row'[p].key][row'[p].org] = clock
      BY DEF ActiveNow
    <2>1. CASE p = PrefixOf[k]
      BY <2>1, PrefixType DEF AuthTypeOK
    <2>2. CASE p # PrefixOf[k]
      <3>1. row'[p] = row[p] /\ row[p] \in Rows
        BY <2>2 DEF AuthTypeOK
      <3>2. until[row[p].key][row[p].org] = clock /\ PrefixOf[row[p].key] = p
        BY <3>1 DEF ActiveNow
      <3> QED
        BY <3>1, <3>2 DEF AuthTypeOK, Rows
    <2> QED
      BY <2>1, <2>2
  <1>5. Looked'
    <2> SUFFICES ASSUME NEW c \in Call, at[c] \in {"verify", "store"}
                 PROVE  start[c] <= until'[rec[c].key][rec[c].org]
      BY DEF Looked
    <2>1. rec[c] \in Rows /\ start[c] <= until[rec[c].key][rec[c].org]
      BY DEF Looked, AuthTypeOK
    <2> QED
      BY <1>1, <2>1 DEF AuthTypeOK, Rows
  <1>6. AnswerLast'
    BY DEF AnswerLast
  <1>7. EntriesExpire'
    <2> SUFFICES ASSUME NEW l \in Key, cache[l] # None
                 PROVE  cache[l].expires <= until'[l][cache[l].org] + TTL
      BY DEF EntriesExpire
    <2>1. cache[l] \in Entries /\ cache[l].expires <= until[l][cache[l].org] + TTL
      BY DEF EntriesExpire, AuthTypeOK
    <2>2. cache[l].expires \in Nat /\ cache[l].org \in Org
      BY <2>1 DEF Entries
    <2>3. until[l][cache[l].org] \in Int /\ until'[l][cache[l].org] \in Int
      BY <1>1, <2>2 DEF AuthTypeOK
    <2>4. until[l][cache[l].org] <= until'[l][cache[l].org]
      BY <1>1, <2>2
    <2> QED
      BY <2>1, <2>2, <2>3, <2>4, IngestAuthAssumption
  <1>8. StaleAtMostTTL'
    <2> SUFFICES ASSUME NEW c \in Call, answer[c] \in Org
                 PROVE  start[c] < until'[key[c]][answer[c]] + TTL
      BY DEF StaleAtMostTTL
    <2>1. start[c] < until[key[c]][answer[c]] + TTL
      BY DEF StaleAtMostTTL
    <2>2. key[c] \in Key /\ start[c] \in Nat
      BY DEF AuthTypeOK
    <2>3. until[key[c]][answer[c]] \in Int /\ until'[key[c]][answer[c]] \in Int
      BY <1>1, <2>2 DEF AuthTypeOK
    <2>4. until[key[c]][answer[c]] <= until'[key[c]][answer[c]]
      BY <1>1, <2>2
    <2> QED
      BY <2>1, <2>2, <2>3, <2>4, IngestAuthAssumption
  <1> QED
    BY <1>2, <1>3, <1>4, <1>5, <1>6, <1>7, <1>8

\* A revocation changes no time at which a key was active.
LEMMA RevokeAuthInv ==
  ASSUME AuthInv, NEW p \in Prefixes, Revoke(p)
  PROVE  AuthInv'
  <1> USE DEF AuthInv, Revoke, callVars
  <1>1. AuthTypeOK'
    BY DEF AuthTypeOK
  <1>2. ActiveNow'
    BY DEF ActiveNow, AuthTypeOK
  <1>3. ClocksPast' /\ Looked' /\ AnswerLast' /\ EntriesExpire' /\ StaleAtMostTTL'
    BY DEF ClocksPast, Looked, AnswerLast, EntriesExpire, StaleAtMostTTL
  <1> QED
    BY <1>1, <1>2, <1>3

\* A new call starts now.
LEMMA BeginAuthInv ==
  ASSUME AuthInv, NEW c \in Call, NEW k \in Key, Begin(c, k)
  PROVE  AuthInv'
  <1> USE DEF AuthInv, Begin, Goto
  <1>1. AuthTypeOK'
    BY DEF AuthTypeOK
  <1>2. ClocksPast' /\ ActiveNow'
    BY DEF ClocksPast, ActiveNow, AuthTypeOK
  <1>3. Looked'
    BY DEF Looked, AuthTypeOK
  <1>4. AnswerLast' /\ StaleAtMostTTL'
    BY IngestAuthAssumption DEF AnswerLast, StaleAtMostTTL, AuthTypeOK
  <1>5. EntriesExpire'
    BY DEF EntriesExpire
  <1> QED
    BY <1>1, <1>2, <1>3, <1>4, <1>5

\* A hit answers from an entry that is good enough for the start of the call.
LEMMA HitAuthInv ==
  ASSUME AuthInv, NEW c \in Call, CacheHit(c)
  PROVE  AuthInv'
  <1> USE DEF AuthInv, CacheHit, Goto, Return
  <1>1. key[c] \in Key /\ cache[key[c]] \in Entries /\ start[c] < cache[key[c]].expires
    BY DEF AuthTypeOK, Fresh
  <1>2. start[c] < until[key[c]][cache[key[c]].org] + TTL
    BY <1>1, IngestAuthAssumption DEF EntriesExpire, AuthTypeOK, Entries, Fresh
  <1>3. AuthTypeOK'
    BY <1>1 DEF AuthTypeOK, Entries
  <1>4. ClocksPast' /\ ActiveNow' /\ EntriesExpire'
    BY DEF ClocksPast, ActiveNow, EntriesExpire
  <1>5. Looked' /\ AnswerLast'
    BY DEF Looked, AnswerLast, AuthTypeOK
  <1>6. StaleAtMostTTL'
    BY <1>2 DEF StaleAtMostTTL, AuthTypeOK
  <1> QED
    BY <1>3, <1>4, <1>5, <1>6

\* A lookup finds a row that is active now, so at the start of the call or later.
LEMMA LookupAuthInv ==
  ASSUME AuthInv, NEW c \in Call, Lookup(c)
  PROVE  AuthInv'
  <1> USE DEF AuthInv, Lookup, Goto
  <1> DEFINE found == row[PrefixOf[key[c]]]
  <1>1. found \in Rows /\ until[found.key][found.org] = clock
    BY PrefixType DEF AuthTypeOK, ActiveNow
  <1>2. AuthTypeOK'
    BY <1>1 DEF AuthTypeOK
  <1>3. ClocksPast' /\ ActiveNow' /\ EntriesExpire' /\ StaleAtMostTTL'
    BY DEF ClocksPast, ActiveNow, EntriesExpire, StaleAtMostTTL
  <1>4. Looked'
    BY <1>1, IngestAuthAssumption DEF Looked, AuthTypeOK, ClocksPast, Rows
  <1>5. AnswerLast'
    BY DEF AnswerLast, AuthTypeOK
  <1> QED
    BY <1>2, <1>3, <1>4, <1>5

\* A call that goes on without an answer, or is refused, keeps the invariant.
LEMMA PlainAuthInv ==
  ASSUME AuthInv, NEW c \in Call,
         CacheMiss(c) \/ LookupErr(c) \/ Verify(c) \/ VerifyErr(c)
  PROVE  AuthInv'
  <1> USE DEF AuthInv, CacheMiss, LookupErr, Verify, VerifyErr, Goto, Return
  <1>1. AuthTypeOK'
    BY DEF AuthTypeOK
  <1>2. ClocksPast' /\ ActiveNow' /\ EntriesExpire'
    BY DEF ClocksPast, ActiveNow, EntriesExpire
  <1>3. Looked'
    BY DEF Looked, AuthTypeOK
  <1>4. AnswerLast' /\ StaleAtMostTTL'
    BY IngestAuthAssumption DEF AnswerLast, StaleAtMostTTL, AuthTypeOK
  <1> QED
    BY <1>1, <1>2, <1>3, <1>4

\* The entry a call stores expires TTL after its start, when the key was active.
LEMMA StoreAuthInv ==
  ASSUME AuthInv, NEW c \in Call, StoreEntry(c)
  PROVE  AuthInv'
  <1> USE DEF AuthInv, StoreEntry, Goto, Return
  <1>1. /\ rec[c] \in Rows /\ rec[c].key = key[c] /\ key[c] \in Key /\ rec[c].org \in Org
        /\ start[c] <= until[key[c]][rec[c].org]
    BY DEF Looked, AuthTypeOK, Rows
  <1>2. AuthTypeOK'
    BY <1>1, IngestAuthAssumption DEF AuthTypeOK, Entries
  <1>3. ClocksPast' /\ ActiveNow'
    BY DEF ClocksPast, ActiveNow
  <1>4. Looked' /\ AnswerLast'
    BY DEF Looked, AnswerLast, AuthTypeOK
  <1>5. EntriesExpire'
    <2> SUFFICES ASSUME NEW k \in Key, cache'[k] # None
                 PROVE  cache'[k].expires <= until[k][cache'[k].org] + TTL
      BY DEF EntriesExpire
    <2>1. CASE k = key[c]
      BY <1>1, <2>1, IngestAuthAssumption DEF AuthTypeOK
    <2>2. CASE k # key[c]
      BY <2>2 DEF EntriesExpire, AuthTypeOK
    <2> QED
      BY <2>1, <2>2
  <1>6. StaleAtMostTTL'
    <2>1. start[c] < until[key[c]][rec[c].org] + TTL
      <3>1. start[c] \in Int /\ until[key[c]][rec[c].org] \in Int
        BY <1>1 DEF AuthTypeOK
      <3> QED
        BY <1>1, <3>1, IngestAuthAssumption
    <2> QED
      BY <2>1 DEF StaleAtMostTTL, AuthTypeOK
  <1> QED
    BY <1>2, <1>3, <1>4, <1>5, <1>6

\* Dropping entries keeps it.
LEMMA PurgeAuthInv == AuthInv /\ PurgeExpired => AuthInv'
  <1> SUFFICES ASSUME AuthInv, PurgeExpired PROVE AuthInv'
    OBVIOUS
  <1> USE DEF AuthInv, PurgeExpired, callVars
  <1>1. AuthTypeOK'
    BY DEF AuthTypeOK
  <1>2. EntriesExpire'
    BY DEF EntriesExpire
  <1>3. ClocksPast' /\ ActiveNow' /\ Looked' /\ AnswerLast' /\ StaleAtMostTTL'
    BY DEF ClocksPast, ActiveNow, Looked, AnswerLast, StaleAtMostTTL
  <1> QED
    BY <1>1, <1>2, <1>3

\* Every step keeps the inductive invariant.
LEMMA NextAuthInv == AuthInv /\ [Next]_vars => AuthInv'
  <1> SUFFICES ASSUME AuthInv, [Next]_vars PROVE AuthInv'
    OBVIOUS
  <1>1. CASE TimePasses
    BY <1>1, TimeAuthInv
  <1>2. ASSUME NEW k \in Key, NEW o \in Org, Issue(k, o) PROVE AuthInv'
    BY <1>2, IssueAuthInv
  <1>3. ASSUME NEW p \in Prefixes, Revoke(p) PROVE AuthInv'
    BY <1>3, RevokeAuthInv
  <1>4. ASSUME NEW c \in Call, NEW k \in Key, Begin(c, k) PROVE AuthInv'
    BY <1>4, BeginAuthInv
  <1>5. ASSUME NEW c \in Call, Authenticate(c) PROVE AuthInv'
    <2>1. CASE CacheHit(c)
      BY <2>1, HitAuthInv
    <2>2. CASE Lookup(c)
      BY <2>2, LookupAuthInv
    <2>3. CASE CacheMiss(c) \/ LookupErr(c) \/ Verify(c) \/ VerifyErr(c)
      BY <2>3, PlainAuthInv
    <2>4. CASE StoreEntry(c)
      BY <2>4, StoreAuthInv
    <2> QED
      BY <1>5, <2>1, <2>2, <2>3, <2>4 DEF Authenticate
  <1>6. CASE PurgeExpired
    BY <1>6, PurgeAuthInv
  <1>7. CASE UNCHANGED vars
    BY <1>7 DEF AuthInv, vars, callVars, AuthTypeOK, ClocksPast, ActiveNow, Looked,
                AnswerLast, EntriesExpire, StaleAtMostTTL
  <1> QED
    BY <1>1, <1>2, <1>3, <1>4, <1>5, <1>6, <1>7 DEF Next

\* The invariant holds in every reachable state of the authenticator.
THEOREM AuthInductive == Spec => []AuthInv
  BY InitAuthInv, NextAuthInv, PTL DEF Spec

\* The variables of the authenticator keep their types.
THEOREM AuthTypeCorrect == Spec => []AuthTypeOK
  BY AuthInductive, PTL DEF AuthInv

\* Revocation takes effect within the TTL for every interleaving of lookups,
\* cache fills and revocations.
THEOREM AuthRevocation == Spec => []StaleAtMostTTL
  BY AuthInductive, PTL DEF AuthInv

\* No cached entry outlives the TTL counted from the last time its key was active.
THEOREM AuthEntriesExpire == Spec => []EntriesExpire
  BY AuthInductive, PTL DEF AuthInv
=============================================================================
