------------------------------ MODULE MCIngest ------------------------------
(***************************************************************************)
(* Ingest on three requests.  The occurrences follow from the bodies.      *)
(***************************************************************************)
EXTENDS Ingest, TLC

CONSTANTS r1, r2, r3, a, b, x

Requests == {r1, r2, r3}
OccurrencesOf(B) == UNION {{<<r, i>> : i \in DOMAIN B[r]} : r \in DOMAIN B}

\* A batch, one that repeats half of it, one that repeats the other half and ends
\* in an invalid event.
RetryBody == r1 :> <<a, b>> @@ r2 :> <<a>> @@ r3 :> <<b, x>>
RetryEvents == OccurrencesOf(RetryBody)

\* Two overlapping batches, across a restart and with a retried insert.
PairRequests == {r1, r2}
PairBody == r1 :> <<a, b>> @@ r2 :> <<a, x>>
PairEvents == OccurrencesOf(PairBody)

\* A batch, its retry, and a batch that fills the buffer between them.
FullBody == r1 :> <<a>> @@ r2 :> <<a>> @@ r3 :> <<b, x>>
FullEvents == OccurrencesOf(FullBody)
=============================================================================
