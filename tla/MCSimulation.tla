---------------------------- MODULE MCSimulation -----------------------------
(***************************************************************************)
(* What a simulation consists of, for TLC: the calls (SimCalls), the       *)
(* opponents it plays (MetaOpponents), one battle (BattlePlay) and what    *)
(* its policies see (BattleViews).  The four share no state, so a run      *)
(* takes one of them: part says which, the others keep an initial state.   *)
(***************************************************************************)
EXTENDS SimCalls, BattleViews, BattlePlay, MetaOpponents

VARIABLE part

-----------------------------------------------------------------------------
(* Calls: three opponents, the second illegal; the variant wins against    *)
(* another one than the base.                                              *)
MCOpponents == <<"north", "illegal", "south">>
MCBeats == <<{"north"}, {"south"}>>

-----------------------------------------------------------------------------
(* Opponents: teams of two with two moves; every choice of four report and *)
(* four observed rows from a small stock, with usage in one format or the  *)
(* other.                                                                  *)
Mon(s, i, ms, sp) == [species |-> s, item |-> i, moves |-> ms, spread |-> sp]

MCRoster == {"a", "b", "c"}
MCLearns == [s \in MCRoster |-> CASE s = "a" -> {"hit", "wait"} [] s = "b" -> {"hit", "beam"}
                                  [] s = "c" -> {"beam", "wait"}]

\* The lists of the stock: complete, without moves, misspelt, too short.
Stock ==
  [r1 |-> <<Mon("a", "orb", <<"hit">>, "own"), Mon("b", "orb", <<"beam">>, "own")>>,
   r2 |-> <<Mon("b", "orb", <<"hit">>, "own"), Mon("c", "scarf", <<"beam">>, "own")>>,
   r3 |-> <<Mon("a", "orb", <<"beam">>, "own"), Mon("c", "orb", <<"beam">>, "own")>>,
   s1 |-> <<Mon("a", "orb", <<>>, "none"), Mon("b", "scarf", <<>>, "none")>>,
   s2 |-> <<Mon("a", "scarf", <<>>, "none"), Mon("b", "orb", <<>>, "none")>>,
   s3 |-> <<Mon("a", "scarf", <<>>, "none"), Mon("c", "orb", <<>>, "none")>>,
   s4 |-> <<Mon("c", "orb", <<>>, "none")>>,
   d1 |-> <<Mon("a", "scarf", <<"hit", "wait">>, "none"), Mon("c", "orb", <<"wait">>, "none")>>,
   d2 |-> <<Mon("b", "orb", <<"hit">>, "none"), Mon("a", "typo", <<"hit">>, "none")>>]

Published(id, rating, rank) == [id |-> id, format |-> "singles", rating |-> rating, rank |-> rank]
Seen(id, fmt, w, h) == [id |-> id, format |-> fmt, weight |-> w, hash |-> h]

Reports == {<<>>, <<Published("r1", 5, 9)>>, <<Published("r1", 5, 9), Published("r2", 7, 20)>>,
            <<Published("r3", 0, 1), Published("r2", 0, 0), Published("r1", 6, 3)>>}
Observed ==
  {<<Seen("s1", "singles", w, "h1"), Seen("s2", "singles", 4, "h2"), Seen("s3", "singles", v, "h3"),
     Seen("d1", "doubles", 6, "h5"), Seen("d2", "doubles", 7, "h6"), Seen("e2", "doubles", 1, "h2")>> :
        w, v \in {2, 5}}
  \cup {<<Seen("s3", "singles", 3, "h3"), Seen("s4", "singles", 9, "h4"), Seen("e3", "singles", w, "h3"),
          Seen("s2", "singles", 1, "h2"), Seen("d1", "doubles", 2, "h5"), Seen("e1", "doubles", 4, "h5")>> :
          w \in {1, 8}}

\* e1 and e3 are the lists of d1 and s3, entered once more, and e2 is that of s2 on
\* the other ladder.
ListMembers == [id \in DOMAIN Stock \cup {"e1", "e2", "e3"} |->
  CASE id = "e1" -> Stock.d1 [] id = "e2" -> Stock.s2 [] id = "e3" -> Stock.s3 [] OTHER -> Stock[id]]

Usage == {[a |-> [singles |-> ab, doubles |-> <<"wait", "hit">>],
           b |-> [singles |-> <<"hit", "beam", "hit">>, doubles |-> <<>>],
           c |-> [singles |-> <<>>, doubles |-> cd]] :
             ab \in {<<"wait", "hit">>, <<"wait">>, <<"beam", "hit">>}, cd \in {<<"beam">>, <<"wait", "beam">>, <<>>}}
Spreads == {[a |-> [singles |-> x, doubles |-> "da"], b |-> [singles |-> "sb", doubles |-> "none"],
             c |-> [singles |-> "none", doubles |-> y]] : x \in {"sa", "none"}, y \in {"dc", "none"}}

MCDatabases ==
  {[full |-> f, teams |-> o, members |-> ListMembers, moves |-> u, spread |-> s] :
     f \in Reports, o \in Observed, u \in Usage, s \in Spreads}

-----------------------------------------------------------------------------
(* A battle: doubles with three members a side, two of which hold a stone. *)
MCOrders == {<<1, 2, 3>>, <<3, 1, 2>>}
MCPolicy == <<"heuristic", "greedy">>

-----------------------------------------------------------------------------
(* Views: one Pokemon against two, of one of which little is believed.     *)
Built(ability, item, moves, hp) == [ability |-> ability, item |-> item, moves |-> moves, hp |-> hp]

Sets == [garchomp  |-> Built("rough", "orb", {"quake"}, 3),
         charizard |-> Built("blaze", "stone y", {"heat", "air"}, 3),
         absol     |-> Built("pressure", "lens", {"slash"}, 2)]
Usual == [charizard |-> Built("solar", "sash", {"heat", "sun"}, 1),
          absol     |-> Built("unknown", "stone a", {}, 3)]
MegaStones == [garchomp |-> "stone g", charizard |-> "stone y", absol |-> "stone a"]
MegaAbilities == [garchomp |-> "sand", charizard |-> "drought", absol |-> "bounce"]

ASSUME ViewsAssumption

-----------------------------------------------------------------------------
mcVars == <<part, vars, opponentsVars, battleVars, viewVars>>

MCInit ==
  /\ part \in {"calls", "opponents", "battle", "views"}
  /\ Init /\ BattleInit
  /\ OpponentsInit /\ (part # "opponents" => db = CHOOSE d \in Databases : TRUE)
  /\ ViewsInit /\ (part # "views" => mode = "closed")

Calls(Step) == part = "calls" /\ Step /\ UNCHANGED <<part, opponentsVars, battleVars, viewVars>>

MCNext ==
  \/ Calls(Next)
  \/ part = "opponents" /\ OpponentsNext /\ UNCHANGED <<part, vars, battleVars, viewVars>>
  \/ part = "battle" /\ BattleNext /\ UNCHANGED <<part, vars, opponentsVars, viewVars>>
  \/ part = "views" /\ ViewsNext /\ UNCHANGED <<part, vars, opponentsVars, battleVars>>

\* Fairness of SimCalls, in the runs that take it.
MCSpec == MCInit /\ [][MCNext]_mcVars /\ WF_mcVars(Calls(\E lost \in BOOLEAN : Play(lost)))

=============================================================================
