----------------------------- MODULE PlayedForms -----------------------------
(***************************************************************************)
(* The form a species is played in (usage.py): when its Mega Stones make   *)
(* up most of what it holds, the usage tools describe its most held Mega   *)
(* instead of its base form.  Held-item usage is joined to the Mega forms  *)
(* by species and stone, so a stone is a row for each form it unlocks.     *)
(*                                                                         *)
(* A form is a record [name, slug, stone, speed], a row of mega_forms;     *)
(* usage gives each species the percentages of the stones it holds.  Of a  *)
(* form, the Speed stands for its stats, typing and ability.               *)
(***************************************************************************)
EXTENDS Integers, FiniteSets, FiniteSetsExt

CONSTANTS
  Species,
  Forms,
  BaseSpeed,     \* [Species -> Int]
  Usages,        \* functions from species to [stones -> percentages]
  Threshold,     \* MEGA_USAGE_THRESHOLD
  NoForm,
  MaxAnswers     \* bound: answers compared

ASSUME PlayedAssumption ==
  /\ NoForm \notin Forms
  /\ \A u \in Usages : \A s \in Species : \A st \in DOMAIN u[s] : u[s][st] \in 0 .. 100

VARIABLES usage, answers

playedVars == <<usage, answers>>

PlayedInit == usage \in Usages /\ answers = {}

-----------------------------------------------------------------------------
Unlocked(s, st) == {f \in Forms : f.slug = s /\ f.stone = st}

\* mega_stone_usage: a stone without a form of the species keeps one row.
Rows(s) ==
  UNION {{[percent |-> usage[s][st], form |-> f] :
            f \in IF Unlocked(s, st) = {} THEN {NoForm} ELSE Unlocked(s, st)} :
         st \in DOMAIN usage[s]}

Added(rows) == MapThenSumSet(LAMBDA r : r.percent, rows)
Total(s) == Added(Rows(s))
FormRows(s) == {r \in Rows(s) : r.form # NoForm}

\* mega_usage_index
PlayedAsMega(s) == Total(s) >= Threshold /\ FormRows(s) # {}

\* The first of the rows by percentage.
Dominant(s) == CHOOSE r \in FormRows(s) : \A q \in FormRows(s) : q.percent <= r.percent

Base(s) == [form |-> NoForm, speed |-> BaseSpeed[s]]
Mega(s) == [form |-> Dominant(s).form, speed |-> Dominant(s).form.speed]

\* as_played
AsPlayed(s) == IF PlayedAsMega(s) THEN Mega(s) ELSE Base(s)

\* Fault: the tiers are those of the base forms.
FaultyTier(s) == Base(s)

\* The row of get_speed_tiers.
Tier(s) == IF PlayedAsMega(s) THEN Mega(s) ELSE Base(s)

\* Megas with another Speed than the dominant one.
OtherSpeeds(s) ==
  {r.form : r \in {q \in FormRows(s) : q # Dominant(s) /\ q.form.speed # Tier(s).speed}}

Show(by, s, row, others) ==
  answers' = answers \cup {[tool |-> by, species |-> s, row |-> row, others |-> others]}

GetUsageStats(s) == Show("get_usage_stats", s, AsPlayed(s), {})
GetThreatProfile(s) == Show("get_threat_profile", s, AsPlayed(s), {})
GetPokemonSets(s) ==
  Show("get_pokemon_sets", s, IF PlayedAsMega(s) THEN Mega(s) ELSE Base(s), {})
GetSpeedTiers(s) ==
  Show("get_speed_tiers", s, Tier(s), IF PlayedAsMega(s) THEN OtherSpeeds(s) ELSE {})

PlayedNext ==
  /\ Cardinality(answers) < MaxAnswers
  /\ \E s \in Species :
       GetUsageStats(s) \/ GetThreatProfile(s) \/ GetPokemonSets(s) \/ GetSpeedTiers(s)
  /\ UNCHANGED usage

PlayedSpec == PlayedInit /\ [][PlayedNext]_playedVars

-----------------------------------------------------------------------------
AsMega(a) == a.row.form # NoForm

\* The usage ranking, the threat profile, the sets and the Speed tiers
\* describe one form of a species.
ToolsAgree == \A a, b \in answers : a.species = b.species => a.row = b.row

\* The Mega a species is described as is the one whose stone is held most.
MostHeldMega ==
  \A a \in answers : AsMega(a) =>
    \A st \in DOMAIN usage[a.species] :
      Unlocked(a.species, st) # {} =>
        usage[a.species][st] <= usage[a.species][a.row.form.stone]

\* Every Speed a Mega of the species is met with is in its tier's row.
NoTierHidden ==
  \A a \in answers : a.tool = "get_speed_tiers" /\ AsMega(a) =>
    \A r \in FormRows(a.species) :
      r.form.speed \in {a.row.speed} \cup {f.speed : f \in a.others}

\* The tools show one form of a species, the right one, and hide no Speed.
PlayedSound == ToolsAgree /\ MostHeldMega /\ NoTierHidden

-----------------------------------------------------------------------------
(* What comments say and the code does not keep.                            *)

\* The stones' real share: every stone of the species counted once.
StoneShare(s) == MapThenSumSet(LAMBDA st : usage[s][st], DOMAIN usage[s])

\* usage.py: "when its Mega Stones are the bulk of its held items". A species is
\* described as its Mega only when they are.
DominatedOnly == \A a \in answers : AsMega(a) => StoneShare(a.species) >= Threshold

\* And always when they are, each stone unlocking a Mega of the species.
DominatedAlways ==
  \A a \in answers :
    /\ usage[a.species] # <<>>
    /\ \A st \in DOMAIN usage[a.species] : Unlocked(a.species, st) # {}
    /\ StoneShare(a.species) >= Threshold
    => AsMega(a)
=============================================================================
