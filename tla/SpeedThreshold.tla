--------------------------- MODULE SpeedThreshold ----------------------------
(***************************************************************************)
(* compute_speed_threshold (server.py) and the search under it,            *)
(* min_sp_to_outspeed (champions_stats.py): for each nature asked for, the *)
(* fewest Speed points that outspeed a target, tried one by one.           *)
(***************************************************************************)
EXTENDS StatPoints

CONSTANTS
  Bases,        \* Speed at level 50 without points
  Mods,         \* modifiers: [stage, scarf, ability, tailwind, paralyzed]
  NaturesAsked  \* sequences of natures a caller may ask for

ASSUME ThresholdAssumption ==
  /\ Bases \subseteq Nat
  /\ Mods # {}
  /\ Mods \subseteq [stage : Int, scarf : BOOLEAN, ability : BOOLEAN,
                     tailwind : BOOLEAN, paralyzed : BOOLEAN]
  /\ NaturesAsked \subseteq Seq(DOMAIN Natures)

VARIABLES
  pc,         \* idle or search
  call,       \* [base, mods, tie, target] of the call under way
  natures,    \* natures not yet solved
  tried,      \* the points tried next
  options     \* one result per nature solved

thresholdVars == <<pc, call, natures, tried, options>>

None == -1

ThresholdInit ==
  /\ pc = "idle"
  /\ call = [base |-> 0, mods |-> CHOOSE m \in Mods : TRUE, tie |-> FALSE, target |-> 0]
  /\ natures = <<>> /\ tried = 0 /\ options = <<>>

Speed(points, nature) ==
  EffectiveSpeed(call.base, points, NatureEffect(nature, "speed"), call.mods)

Beats(points, nature) ==
  \/ Speed(points, nature) > call.target
  \/ call.tie /\ Speed(points, nature) = call.target

\* The tool is called: the defender's Speed is the target.
Call ==
  /\ pc = "idle"
  /\ \E base, their \in Bases, mods, theirs \in Mods, tie \in BOOLEAN,
        d \in 0 .. MaxPerStat, nature \in DOMAIN Natures :
       call' = [base |-> base, mods |-> mods, tie |-> tie,
                target |-> EffectiveSpeed(their, d, NatureEffect(nature, "speed"), theirs)]
  /\ natures' \in NaturesAsked
  /\ tried' = 0 /\ options' = <<>>
  /\ pc' = "search"

Searching == pc = "search" /\ natures # <<>>

Result(min) ==
  [nature |-> Head(natures), min |-> min,
   speed |-> IF min = None THEN None ELSE Speed(min, Head(natures)),
   left |-> IF min = None THEN None ELSE MaxTotal - min]

FaultyFound ==
  /\ Searching /\ Beats(tried, Head(natures))
  /\ options' = Append(options, Result(tried))
  /\ natures' = Tail(natures)
  /\ UNCHANGED <<pc, call, tried>>

\* These points are enough: on to the next nature.
Found ==
  /\ Searching /\ Beats(tried, Head(natures))
  /\ options' = Append(options, Result(tried))
  /\ natures' = Tail(natures)
  /\ tried' = 0
  /\ UNCHANGED <<pc, call>>

TryMore ==
  /\ Searching /\ ~Beats(tried, Head(natures)) /\ tried < MaxPerStat
  /\ tried' = tried + 1
  /\ UNCHANGED <<pc, call, natures, options>>

\* Not even the cap is enough.
GiveUp ==
  /\ Searching /\ ~Beats(tried, Head(natures)) /\ tried = MaxPerStat
  /\ options' = Append(options, Result(None))
  /\ natures' = Tail(natures)
  /\ tried' = 0
  /\ UNCHANGED <<pc, call>>

Answer ==
  /\ pc = "search" /\ natures = <<>>
  /\ pc' = "idle"
  /\ UNCHANGED <<call, natures, tried, options>>

ThresholdNext == Call \/ Found \/ TryMore \/ GiveUp \/ Answer

ThresholdSpec == ThresholdInit /\ [][ThresholdNext]_thresholdVars

-----------------------------------------------------------------------------
\* Of one call's solved natures and the one under way (min_sp_to_outspeed).
SearchTyped ==
  /\ pc \in {"idle", "search"}
  /\ call.base \in Nat /\ call.mods \in Mods /\ call.tie \in BOOLEAN /\ call.target \in Nat
  /\ natures \in Seq(DOMAIN Natures)
  /\ tried \in 0 .. MaxPerStat
  /\ \A i \in DOMAIN options : options[i].nature \in DOMAIN Natures
       /\ options[i].min \in (0 .. MaxPerStat) \cup {None}

\* The answer is a threshold: exactly the points from min on outspeed the
\* target, however the modifiers floor; None says that no points do. A caller
\* may spend more than min and still be faster (min_sp_to_outspeed).
AnswersExact ==
  \A i \in DOMAIN options : \A p \in 0 .. MaxPerStat :
    Beats(p, options[i].nature) <=> options[i].min # None /\ p >= options[i].min

\* A nature that raises Speed never asks for more points than one that leaves
\* it, nor that one for more than one that lowers it.
PlusNeverDearer ==
  LET Rank(i) == CASE NatureEffect(options[i].nature, "speed") = "+" -> 0
                   [] NatureEffect(options[i].nature, "speed") = "=" -> 1
                   [] NatureEffect(options[i].nature, "speed") = "-" -> 2
  IN  \A i, j \in DOMAIN options :
        Rank(i) <= Rank(j) /\ options[j].min # None =>
          options[i].min # None /\ options[i].min <= options[j].min

\* The Speed tool's answer is exact for each nature and consistent between them.
ThresholdExact ==
  /\ SearchTyped
  /\ AnswersExact
  /\ PlusNeverDearer
=============================================================================
