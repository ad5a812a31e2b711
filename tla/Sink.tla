-------------------------------- MODULE Sink --------------------------------
(***************************************************************************)
(* What the ingest service promises of an event once its buffer took it,   *)
(* whatever the flush loop does inside: the event is pending until its     *)
(* batch is settled, it is settled once, as written or as lost, and the    *)
(* memory that holds pending events is bounded.  Batch implements it.      *)
(***************************************************************************)
EXTENDS Naturals, FiniteSets

CONSTANTS Event,       \* the events a client may offer
          Limit        \* how many of them may be pending at once

VARIABLES pending,     \* accepted, fate unknown
          settledOk,   \* their batch insert returned no error
          settledLost  \* their batch was given up

vars == <<pending, settledOk, settledLost>>

Fresh == Event \ (pending \cup settledOk \cup settledLost)

Init ==
  /\ pending = {}
  /\ settledOk = {}
  /\ settledLost = {}

\* A whole request is taken or none of it.
Accept ==
  \E S \in (SUBSET Fresh) \ {{}} :
    /\ Cardinality(pending \cup S) <= Limit
    /\ pending' = pending \cup S
    /\ UNCHANGED <<settledOk, settledLost>>

\* A batch leaves the pending set as a whole, one way or the other.
Write ==
  \E S \in (SUBSET pending) \ {{}} :
    /\ pending' = pending \ S
    /\ settledOk' = settledOk \cup S
    /\ UNCHANGED settledLost

Lose ==
  \E S \in (SUBSET pending) \ {{}} :
    /\ pending' = pending \ S
    /\ settledLost' = settledLost \cup S
    /\ UNCHANGED settledOk

Next == Accept \/ Write \/ Lose

Spec == Init /\ [][Next]_vars
=============================================================================
