------------------------ MODULE MCDeclarationPipeline ------------------------
(* Instances of DeclarationPipeline for TLC. *)
EXTENDS DeclarationPipeline, TLC

CONSTANTS r1, r2, r3, d1, d2, d3, alice, bob

\* r1 and r2 submit the same metadata (a client that repeats its POST).
ResubmitOf == (r1 :> d1) @@ (r2 :> d1)
ResubmitDeclarer == d1 :> alice
ResubmitSupersedes == d1 :> None

\* d2 and d3 both supersede d1, but d3 is not by d1's declarer.
FamilyOf == (r1 :> d1) @@ (r2 :> d2) @@ (r3 :> d3)
FamilyDeclarer == (d1 :> alice) @@ (d2 :> alice) @@ (d3 :> bob)
FamilySupersedes == (d1 :> None) @@ (d2 :> d1) @@ (d3 :> d1)

\* d2 and d3 both supersede d1 and all are by one declarer.
RivalDeclarer == (d1 :> alice) @@ (d2 :> alice) @@ (d3 :> alice)

\* A bound: every declaration is dated and every request made within a minute,
\* before any row can be stale.  The clock, the sweeper and declarations without a
\* date are in Pipeline_resubmit.
WithinTheMinute == \A d \in Declarations : age[d] = "fresh"

\* A bound for a search of a counterexample that needs no fault.
WithoutFaults ==
  /\ WithinTheMinute
  /\ \A r \in Requests :
       /\ reqPc[r] \notin {"refused", "error", "dead", "fallback"}
       /\ recPc[r] \notin {"fail", "dropped"}

=============================================================================
