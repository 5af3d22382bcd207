----------------------------- MODULE BattlePlay ------------------------------
(***************************************************************************)
(* One simulated battle (runBattle in docker/sim/engine.js) with the       *)
(* choices its policies make (policies.js): pass after pass, each side     *)
(* that is asked chooses, by default where its own choice is refused.      *)
(* Pokémon Showdown is external: it asks for a team, for moves or for      *)
(* replacements, refuses what is against the rules, and plays on as soon   *)
(* as every side it asked has chosen.                                      *)
(*                                                                         *)
(* A side's party is a sequence of its members, the first Slots of them    *)
(* active. What a move does is left out, but for who faints. An action is  *)
(* [do, mega, to], for one slot; a team is given by its positions.         *)
(***************************************************************************)
EXTENDS Integers, Sequences, FiniteSets, SequencesExt

CONSTANTS
  Members,          \* of a team
  Orders,           \* teams a preview may choose: sequences of positions
  Slots,            \* active at once: two in doubles
  Stones,           \* members that hold their Mega Stone
  Policy,           \* [Sides -> policies]
  MaxTurns,
  MaxBreaks         \* bound: replacements asked for within a turn

Sides == {1, 2}

ASSUME BattleAssumption ==
  /\ IsFiniteSet(Members)
  /\ Slots \in Nat \ {0} /\ MaxTurns \in Nat \ {0} /\ MaxBreaks \in Nat
  /\ \A o \in Orders : /\ o \in Seq(1 .. Cardinality(Members)) /\ Slots <= Len(o)
                      /\ \A i, j \in DOMAIN o : i # j => o[i] # o[j]
  /\ Policy \in [Sides -> {"random", "greedy", "heuristic"}]

VARIABLES
  party, fainted, evolved,  \* per side: order, the fainted, who Mega Evolved
  req,         \* per side: [ask, slots]: "team", "move", "switch" or "wait"
  trapped,     \* per side: slots that may not switch
  choice,      \* per side, <<>> before it has chosen
  turn, breaks,
  pass, at,    \* guard, and the side whose turn it is in the pass
  fallbacks, refused,   \* choices replaced, and those refused by the rules
  result       \* "none", a side, or "tie"

battle == <<party, fainted, evolved, req, trapped, choice, turn, breaks, result>>
battleVars == <<battle, pass, at, fallbacks, refused>>

Positions == 1 .. Slots
Alive(s, i) == party[s][i] \notin fainted[s]
Asked(s) == req[s].ask # "wait" /\ choice[s] = <<>>
Nothing == [do |-> "pass", mega |-> FALSE, to |-> 0]
Switch(i) == [do |-> "switch", mega |-> FALSE, to |-> i]
Switches(c) == {k \in DOMAIN c : c[k].do = "switch"}
Megas(c) == {k \in DOMAIN c : c[k].mega}

BattleInit ==
  /\ party \in [Sides -> {SetToSeq(Members)}]
  /\ fainted = [s \in Sides |-> {}] /\ evolved = [s \in Sides |-> {}]
  /\ req = [s \in Sides |-> [ask |-> "team", slots |-> {}]]
  /\ trapped = [s \in Sides |-> {}] /\ choice = [s \in Sides |-> <<>>]
  /\ turn = 0 /\ breaks = 0 /\ pass = 1 /\ at = 1
  /\ fallbacks = 0 /\ refused = FALSE /\ result = "none"

-----------------------------------------------------------------------------
(* The policies *)

Bench(s) == {i \in Slots + 1 .. Len(party[s]) : Alive(s, i)}
CanMega(s, k) == party[s][k] \in Stones /\ evolved[s] = {}

\* slotOptions: moves, all with the Mega where it is possible, and the bench.
SlotOptions(s, k) ==
  {[do |-> "move", mega |-> CanMega(s, k), to |-> 0]} \cup
  (IF k \in trapped[s] THEN {} ELSE {Switch(i) : i \in Bench(s)})

\* A switch of one slot is no option for the others.
Apart(c) == \A j, k \in Switches(c) : j # k => c[j].to # c[k].to

SlotChoices(s) ==
  {c \in [Positions -> UNION {SlotOptions(s, k) : k \in Positions} \cup {Nothing}] :
     \A k \in Positions : IF Alive(s, k) THEN c[k] \in SlotOptions(s, k) ELSE c[k] = Nothing}

\* Only one slot keeps the Mega.
KeepMega(c, keep) ==
  [k \in DOMAIN c |->
     [do |-> c[k].do, mega |-> IF k \in keep THEN c[k].mega ELSE FALSE, to |-> c[k].to]]

\* Fault: simpleTurn does not take a slot's switch from the next slot's options.
FaultySimpleTurn(s) ==
  {KeepMega(c, {k \in Megas(c) : \A j \in Megas(c) : k <= j}) : c \in SlotChoices(s)}

\* random and greedy: slot after slot, the first one keeps the Mega.
TurnChoices(s) == {c \in SlotChoices(s) : Apart(c)}
SimpleTurn(s) ==
  {KeepMega(c, {k \in Megas(c) : \A j \in Megas(c) : k <= j}) : c \in TurnChoices(s)}

\* Whichever pair scores best; the Mega goes to the slot that attacks.
HeuristicTurn(s) ==
  UNION {{KeepMega(c, keep) : keep \in IF Megas(c) = {} THEN {{}} ELSE {{k} : k \in Megas(c)}} :
         c \in TurnChoices(s)}

\* forcedSwitch: slot after slot, as long as the bench lasts.
Must(s, k) == {j \in req[s].slots : j <= k}
ForcedSwitch(s) ==
  {c \in [Positions -> {Nothing} \cup {Switch(i) : i \in Bench(s)}] :
     /\ Apart(c)
     /\ \A k \in Positions : (c[k].do = "switch") <=>
          (k \in req[s].slots /\ Cardinality(Must(s, k)) <= Cardinality(Bench(s)))}

Choose(s) ==
  CASE req[s].ask = "team" -> Orders
    [] req[s].ask = "switch" -> ForcedSwitch(s)
    [] OTHER -> IF Policy[s] = "heuristic" THEN HeuristicTurn(s) ELSE SimpleTurn(s)

-----------------------------------------------------------------------------
(* Pokémon Showdown *)

\* What the rules let a side choose.
Allowed(s) ==
  CASE req[s].ask = "team" -> Orders
    [] req[s].ask = "switch" ->
         {c \in [Positions -> {Nothing} \cup {Switch(i) : i \in Bench(s)}] :
            /\ Apart(c) /\ Switches(c) \subseteq req[s].slots
            /\ \/ Switches(c) = req[s].slots
               \/ {c[k].to : k \in Switches(c)} = Bench(s)}
    [] OTHER ->
         {c \in [Positions -> {Nothing} \cup {Switch(i) : i \in Bench(s)}
                              \cup [do : {"move"}, mega : BOOLEAN, to : {0}]] :
            /\ Apart(c) /\ Cardinality(Megas(c)) <= 1
            /\ \A k \in Positions :
                 /\ (c[k] = Nothing) <=> ~Alive(s, k)
                 /\ c[k].mega => CanMega(s, k)
                 /\ c[k].do = "switch" => k \notin trapped[s]}

\* The members in their places after the switches of c.
Swapped(p, c) ==
  [i \in DOMAIN p |->
     IF i \in Switches(c) THEN p[c[i].to]
     ELSE IF \E k \in Switches(c) : c[k].to = i
          THEN p[CHOOSE k \in Switches(c) : c[k].to = i]
          ELSE p[i]]

Wait == [ask |-> "wait", slots |-> {}]

\* Fainted members on the field that someone can replace.
Gaps(p, out) ==
  IF \E i \in Slots + 1 .. Len(p) : p[i] \notin out THEN {k \in Positions : p[k] \in out} ELSE {}

AskMoves ==
  /\ turn' = turn + 1 /\ breaks' = 0
  /\ req' = [s \in Sides |-> [ask |-> "move", slots |-> {}]]
  /\ \E k \in {{}, {1}} : trapped' = [s \in Sides |-> k]   \* bound: first slots only
  /\ UNCHANGED result

AskReplacements(slots) ==
  /\ breaks < MaxBreaks /\ breaks' = breaks + 1
  /\ req' = [s \in Sides |-> IF slots[s] = {} THEN Wait
                             ELSE [ask |-> "switch", slots |-> slots[s]]]
  /\ UNCHANGED <<turn, trapped, result>>

\* Moves are played: members on the field may faint, and a side may lose its
\* last one. Fainted members are replaced, or a pivot asks for a switch; else
\* the next turn begins.
PlayOn(p) ==
  \E out \in [Sides -> SUBSET Members] :
    LET gone == [s \in Sides |-> fainted[s] \cup out[s]]
        lost == {s \in Sides : ToSet(p[s]) \subseteq gone[s]}
        gaps == [s \in Sides |-> Gaps(p[s], gone[s])]
    IN
    /\ \A s \in Sides : out[s] \subseteq {p[s][k] : k \in Positions} \ fainted[s]
    /\ breaks = MaxBreaks => \A s \in Sides : out[s] = {}
    /\ fainted' = gone /\ party' = p /\ choice' = [s \in Sides |-> <<>>]
    /\ IF lost # {}
       THEN /\ result' = IF lost = Sides THEN "tie" ELSE IF lost = {1} THEN "second" ELSE "first"
            /\ req' = [s \in Sides |-> Wait]
            /\ UNCHANGED <<turn, breaks, trapped>>
       ELSE IF \E s \in Sides : gaps[s] # {} THEN AskReplacements(gaps)
       ELSE \/ AskMoves
            \/ \E s \in Sides, k \in Positions :     \* U-turn and the like
                 /\ p[s][k] \notin gone[s]
                 /\ \E i \in Slots + 1 .. Len(p[s]) : p[s][i] \notin gone[s]
                 /\ AskReplacements([q \in Sides |-> IF q = s THEN {k} ELSE {}])

\* A choice the rules allow is kept; the last one that was asked for starts play.
Accept(s, c) ==
  LET all == [choice EXCEPT ![s] = c] IN
  IF \E q \in Sides \ {s} : Asked(q)
  THEN /\ choice' = all
       /\ UNCHANGED <<party, fainted, evolved, req, trapped, turn, breaks, result>>
  ELSE IF req[s].ask = "team"
  THEN /\ party' = [q \in Sides |-> [i \in DOMAIN all[q] |-> party[q][all[q][i]]]]
       /\ choice' = [q \in Sides |-> <<>>] /\ UNCHANGED <<fainted, evolved>>
       /\ AskMoves
  ELSE /\ evolved' = [q \in Sides |-> evolved[q] \cup {party[q][k] : k \in Megas(all[q])}]
       /\ PlayOn([q \in Sides |-> Swapped(party[q], all[q])])
-----------------------------------------------------------------------------
(* The loop of runBattle *)

Over == at = 0

Skip ==
  /\ at \in Sides /\ ~Asked(at) /\ at' = at + 1
  /\ UNCHANGED <<battle, pass, fallbacks, refused>>

\* The policy's choice, or "default" where it throws or is refused.
Decide ==
  /\ at \in Sides /\ Asked(at) /\ at' = at + 1 /\ UNCHANGED pass
  /\ \/ \E c \in Choose(at) :
          IF c \in Allowed(at)
          THEN Accept(at, c) /\ UNCHANGED <<fallbacks, refused>>
          ELSE /\ fallbacks' = fallbacks + 1 /\ refused' = TRUE
               /\ \E d \in Allowed(at) : Accept(at, d)
     \/ /\ fallbacks = 0 /\ fallbacks' = 1     \* bound: one policy throws, once
        /\ UNCHANGED refused
        /\ \E d \in Allowed(at) : Accept(at, d)

GoesOn == result = "none" /\ turn <= MaxTurns /\ pass < 4 * MaxTurns

PassEnds ==
  /\ at = 3
  /\ IF GoesOn THEN at' = 1 /\ pass' = pass + 1 ELSE at' = 0 /\ UNCHANGED pass
  /\ UNCHANGED <<battle, fallbacks, refused>>

BattleNext == Skip \/ Decide \/ PassEnds

BattleSpec == BattleInit /\ [][BattleNext]_battleVars
-----------------------------------------------------------------------------
\* What a policy chooses is never refused, whoever has fainted, is trapped or may
\* Mega Evolve: a "default" only stands in for a policy that threw. Otherwise a
\* side would be reported to play its policy while the simulator plays for it.
ChoicesAreLegal == ~refused

\* "A battle that hasn't ended after this many turns is scored as a tie": the
\* bound on passes never cuts a battle short before.
CutByTurnsOnly == Over /\ result = "none" => turn > MaxTurns

\* A battle is the one its policies were asked to play: each of their choices
\* counts, and nothing but its length ends it without a winner.
BattleSound == ChoicesAreLegal /\ CutByTurnsOnly
=============================================================================
