---------------------------- MODULE MCSlackLimiter ----------------------------
(* Instances of SlackLimiter for TLC. *)
EXTENDS SlackLimiter, TLC

CONSTANTS c1, c2, c3

AnyContainers == Permutations(Containers)

=============================================================================
