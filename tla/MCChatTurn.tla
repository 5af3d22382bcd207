----------------------------- MODULE MCChatTurn -----------------------------
(***************************************************************************)
(* The backend of the chat, for TLC: one turn with all its tool rounds and *)
(* two turns whose history has to be shrunk (ChatTurn), and the routing of *)
(* a turn's requests to a model (ModelRouting).  part says which a run     *)
(* takes.                                                                  *)
(***************************************************************************)
EXTENDS ChatTurn, ModelRouting, TLC

CONSTANTS c1, c2

TwoCalls == {c1, c2}

VARIABLE part

\* A model whose context holds all, for turns of three rounds; for two turns
\* of two rounds, one that holds no earlier result and one that holds a
\* shortened history.
MCModels == [budget : {3}, room : {100}] \cup [budget : {2}, room : {2, 7}]

\* A tier with two candidates and one without a pool; a fixed model with its
\* own price rule.  Prices and contexts are small numbers.
SomePools == "low" :> {"flash", "luna"} @@ "medium" :> {}
SomeContexts == "flash" :> 10 @@ "luna" :> 4 @@ "argon" :> 10
TierPrices == "low" :> "1" @@ "medium" :> "none"

-----------------------------------------------------------------------------
mcVars == <<part, vars, routingVars>>

MCInit ==
  /\ part \in {"rounds", "turns", "routing"}
  /\ Init /\ RoutingInit

\* The turns of each part.
Within ==
  /\ part = "rounds" => turns' < 2 /\ budget' # 2
  /\ part = "turns" => budget' # 3
  /\ UNCHANGED <<part, routingVars>>

\* What ChatTurn is fair to, in both of its parts.
Going == part # "routing" /\ Proceed /\ Within

MCNext ==
  \/ part # "routing" /\ Next /\ Within
  \/ part = "routing" /\ RoutingNext /\ UNCHANGED <<part, vars>>

MCSpec == MCInit /\ [][MCNext]_mcVars /\ WF_mcVars(Going)
=============================================================================
