------------------------------ MODULE SimJobs -------------------------------
(***************************************************************************)
(* Battle jobs as the pool and its callers exchange them: the calls made   *)
(* of Pool.runJobs, the jobs of each, and the answers a call may get.      *)
(***************************************************************************)
EXTENDS Integers

CONSTANTS Requests,   \* the runJobs calls made of the pool
          JobCount,   \* JobCount[r]: how many battles the call asks for
          Throws      \* Throws[r]: the jobs whose battle throws in runJob

\* The job list of api.js buildJobs is numbered k = 0 .. n-1 in list order.
JobsOf(r) == 0 .. JobCount[r] - 1

\* The seeded battle is deterministic: what job k yields if a worker runs it.
Battle(r, k) == IF k \in Throws[r] THEN "threw" ELSE "played"

\* A worker may die under a job; its caller then gets an error record for it.
Answers(r) ==
  {a \in [JobsOf(r) -> {"played", "threw", "crashed"}] :
     \A k \in JobsOf(r) : a[k] \in {Battle(r, k), "crashed"}}
=============================================================================
