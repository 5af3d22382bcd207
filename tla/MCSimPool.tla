----------------------------- MODULE MCSimPool ------------------------------
(***************************************************************************)
(* Three workers, or two for liveness, and two concurrent calls of six and *)
(* of three jobs, so tasks outnumber workers and calls interleave in the   *)
(* queue.                                                                  *)
(***************************************************************************)
EXTENDS SimPool, TLC

CONSTANTS r1, r2, w1, w2, w3

MCRequests == {r1, r2}
MCJobCount == (r1 :> 6) @@ (r2 :> 3)
MCThrows   == (r1 :> {1, 4}) @@ (r2 :> {2})
MCWorkers2 == {w1, w2}
MCWorkers3 == {w1, w2, w3}
Symmetric  == Permutations(MCWorkers3)
=============================================================================
