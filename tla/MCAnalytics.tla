---------------------------- MODULE MCAnalytics ----------------------------
(* Instances of Analytics for TLC. *)
EXTENDS Analytics, TLC

CONSTANTS d1, d2, x, w1, w2, j1, j2

\* Two declarations for one ISCC.
OneIscc == (d1 :> x) @@ (d2 :> x)

=============================================================================
