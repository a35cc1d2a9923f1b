---------------------------- MODULE MCRunLifecycle ----------------------------
(* Instances of RunLifecycle for TLC; callers and Runs are interchangeable. *)
EXTENDS RunInvariant, TLC

CONSTANTS r1, r2, c1, c2, c3

Symmetric == Permutations({c1, c2, c3}) \cup Permutations({r1, r2})

=============================================================================
