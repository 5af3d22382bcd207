----------------------------- MODULE StatPoints ------------------------------
(***************************************************************************)
(* Stat arithmetic of Champions (champions_stats.py): spreads of Stat      *)
(* Points, natures, stats at level 50 and Speed in battle. A spread as     *)
(* given is a sequence of [key, sp]; once normalised it is a function from *)
(* stat to points. Only whole numbers are given.                           *)
(***************************************************************************)
EXTENDS Integers, Sequences, FiniteSetsExt

CONSTANTS
  MaxPerStat,   \* 32
  MaxTotal,     \* 66
  AllStats,
  Alias,        \* spelling -> stat
  Natures       \* nature -> [plus, minus]

ASSUME CapAssumption == MaxPerStat \in Nat /\ MaxTotal \in Nat /\ MaxPerStat <= MaxTotal

CanonicalStat(key) == IF key \in DOMAIN Alias THEN Alias[key] ELSE key

\* Of two spellings of one stat the later one counts; unknown keys stay.
NormalizeSpread(given) ==
  LET keys == {CanonicalStat(given[i].key) : i \in DOMAIN given}
      Last(k) == Max({i \in DOMAIN given : CanonicalStat(given[i].key) = k})
  IN  [k \in keys |-> given[Last(k)].sp]

TotalPoints(spread) ==
  MapThenSumSet(LAMBDA s : IF spread[s] > 0 THEN spread[s] ELSE 0,
                DOMAIN spread \cap AllStats)

\* validate_spread's ok.
ValidSpread(spread) ==
  /\ DOMAIN spread \subseteq AllStats
  /\ \A s \in DOMAIN spread : spread[s] \in 0 .. MaxPerStat
  /\ TotalPoints(spread) <= MaxTotal

LooksLikeEvs(spread) == \E s \in DOMAIN spread : spread[s] > MaxPerStat

NatureEffect(nature, stat) ==
  IF stat = Natures[nature].plus THEN "+"
  ELSE IF stat = Natures[nature].minus THEN "-" ELSE "="

\* The stat a nature acts on: the listed base plus the points, then a tenth.
ComputeStat(base, sp, effect) ==
  LET pre == base + sp
  IN  CASE effect = "+" -> (pre * 11) \div 10
        [] effect = "-" -> (pre * 9) \div 10
        [] effect = "=" -> pre

\* Stat stages are clamped, and each multiplier floors.
Clamped(stage) == IF stage > 6 THEN 6 ELSE IF stage < -6 THEN -6 ELSE stage

Staged(speed, stage) ==
  IF stage >= 0 THEN (speed * (2 + stage)) \div 2 ELSE (speed * 2) \div (2 - stage)

EffectiveSpeed(base, sp, effect, mods) ==
  LET staged  == Staged(ComputeStat(base, sp, effect), Clamped(mods.stage))
      scarfed == IF mods.scarf THEN (staged * 3) \div 2 ELSE staged
      able    == IF mods.ability THEN 2 * scarfed ELSE scarfed
      windy   == IF mods.tailwind THEN 2 * able ELSE able
  IN  IF mods.paralyzed THEN windy \div 2 ELSE windy
=============================================================================
