------------------------------ MODULE MCReadPath ------------------------------
(* Instances of ReadPath for TLC. *)
EXTENDS ReadPath, TLC

CONSTANTS i1, i2, i3, d1, d2, p, q1

\* Two declarations, the second registered before s3Path was a column, and two
\* deliveries of the first.
TwoDeclarations == (i1 :> d1) @@ (i2 :> d2) @@ (i3 :> d1)
FirstHasProduct == (d1 :> p) @@ (d2 :> None)
\* The item of the second declaration passes the cutoff of searchIscc but not that of search.
NearAndFar == (i1 :> 0) @@ (i2 :> 4) @@ (i3 :> 0)
\* The second declaration is of a declarer on the denylist of getRandom.
DeniedToRandom == [e \in Endpoints |-> IF e = "random" THEN {d2} ELSE {}]

\* What happens once every call is over changes no answer, no more than one row lags
\* at a time, and one delivery dies after its first write: its item is known to the
\* search service and to no table.
Bounded ==
  /\ \E q \in Readers : at[q] \notin {"answered", "error"}
  /\ Cardinality(fresh) <= 1
  /\ item[i3] \in {"new", "emitted"}

=============================================================================
