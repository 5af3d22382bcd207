----------------------------- MODULE JobService -----------------------------
(***************************************************************************)
(* What the battle pool promises its callers (docker/sim/api.js), without  *)
(* workers, queues or crashes: a caller asks once, and is answered once,   *)
(* with exactly one outcome for every job it asked about.                  *)
(*                                                                         *)
(* api.js relies on this shape and on nothing else: aggregate() counts the *)
(* outcomes, compare() pairs two answers by position.                      *)
(***************************************************************************)
EXTENDS SimJobs

VARIABLES asked,      \* the calls made so far
          answer      \* the calls answered so far, with their answers

jvars == <<asked, answer>>

Init == /\ asked = {}
        /\ answer = [r \in {} |-> {}]

Ask(r) == /\ r \notin asked
          /\ asked' = asked \cup {r}
          /\ UNCHANGED answer

Reply(r) == /\ r \in asked
            /\ r \notin DOMAIN answer
            /\ \E a \in Answers(r) :
                 answer' = [s \in DOMAIN answer \cup {r} |->
                              IF s = r THEN a ELSE answer[s]]
            /\ UNCHANGED asked

Next == \E r \in Requests : Ask(r) \/ Reply(r)

\* The service answers whatever it was asked.
Spec == Init /\ [][Next]_jvars /\ \A r \in Requests : WF_jvars(Reply(r))
=============================================================================
