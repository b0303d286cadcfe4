----------------------------- MODULE MCStatsSync -----------------------------
(* Instances of StatsSync for TLC. *)
EXTENDS StatsSync, TLC

CONSTANTS d1, d2, w1, w2

=============================================================================
