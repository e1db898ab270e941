-------------------------- MODULE MCOrderWorkflow --------------------------
(* Values for the constants of OrderWorkflow that a cfg cannot write down.  *)
EXTENDS OrderWorkflow, TLC

CONSTANTS r1, r2, c1, c2, q1, q2, j1, j2

MCPerms == Permutations({r1, r2}) \cup Permutations({c1, c2})
             \cup Permutations({q1, q2}) \cup Permutations({j1, j2})
=============================================================================
