------------------------------ MODULE TeamCheck ------------------------------
(***************************************************************************)
(* The tools that judge a finished team: validate_team (legality.py), the  *)
(* dependency gaps and battle forms of analyze_team (teambuilder.py) and   *)
(* the gate of create_pokepaste (pokepaste.py). Members are checked one by *)
(* one, each against what the ones before it left behind.                  *)
(*                                                                         *)
(* A member is [species, item, ability, moves, nature, spread], with       *)
(* Unset for a field that is missing. A violation or warning is the member *)
(* it is about and its rule.                                               *)
(***************************************************************************)
EXTENDS StatPoints, FiniteSets

CONSTANTS
  Teams,             \* what a caller may pass: sequences of members
  TeamSize, MovesPerSet,
  Dex,               \* slug -> [base, abilities, learns] of the roster
  NameOf,            \* any exact, localised or Mega spelling -> slug
  CloseTo,           \* a name nothing spells -> the slug it is closest to
  MegaForms,         \* [species, stone, ability]
  ChampionsItems,
  WeatherSetters, WeatherAbusers,  \* abilities
  WeatherMoves,
  Unset

\* A caller passes names and lists of any kind; the roster spells its own.
ASSUME TeamsAssumption ==
  Teams \subseteq Seq([species : {Unset} \cup STRING, item : {Unset} \cup STRING,
                      ability : {Unset} \cup STRING, moves : Seq(STRING),
                      nature : {Unset} \cup STRING,
                      spread : Seq([key : STRING, sp : Int])])
ASSUME SizesAssumption == TeamSize \in Nat /\ MovesPerSet \in Nat
ASSUME NamesAssumption ==
  /\ \A name \in DOMAIN NameOf : NameOf[name] \in DOMAIN Dex
  /\ \A name \in DOMAIN CloseTo : CloseTo[name] \in DOMAIN Dex
  /\ Unset \notin DOMAIN Dex

VARIABLES
  team, tool,
  at,                     \* the member checked next
  base_species_seen, items_seen,
  violations, warnings,
  gaps,                   \* dependency gaps of the last analysis
  forms,                  \* member -> ability it battles with
  paste                   \* what create_pokepaste published

seen == <<base_species_seen, items_seen>>
report == <<violations, warnings>>
vars == <<team, tool, at, seen, report, gaps, forms, paste>>

Init ==
  /\ team = <<>> /\ tool = "none" /\ at = 1
  /\ base_species_seen = {} /\ items_seen = {}
  /\ violations = {} /\ warnings = {}
  /\ gaps = {} /\ forms = <<>> /\ paste = <<>>

-----------------------------------------------------------------------------
ResolveSlug(name) == IF name \in DOMAIN NameOf THEN NameOf[name] ELSE Unset

\* try_resolve: a spelling of the roster, else the closest name.
TryResolve(name) ==
  IF ResolveSlug(name) = Unset /\ name \in DOMAIN CloseTo
  THEN CloseTo[name] ELSE ResolveSlug(name)

HeldItem(m) == {m.item} \ {Unset}
Abilities(m) == {m.ability} \ {Unset}
MoveSet(m) == {m.moves[i] : i \in DOMAIN m.moves}

\* A Mega's ability is legal on a member that holds the Mega's stone.
AbilityOk(m, slug) ==
  \/ m.ability \in Dex[slug].abilities
  \/ \E f \in MegaForms : f.species = slug /\ f.stone = m.item /\ f.ability = m.ability

BrokenBy(m, slug) ==
  LET sp == NormalizeSpread(m.spread)
  IN  {rule \in {"species_clause", "item_clause", "move", "nature", "stat_points"} :
         CASE rule = "species_clause" -> Dex[slug].base \in base_species_seen
           [] rule = "item_clause" -> HeldItem(m) \cap items_seen # {}
           [] rule = "move" -> ~(MoveSet(m) \subseteq Dex[slug].learns)
           [] rule = "nature" -> m.nature \notin DOMAIN Natures \cup {Unset}
           [] rule = "stat_points" -> ~ValidSpread(sp) \/ LooksLikeEvs(sp)}

Doubted(m, slug) ==
  LET sp == NormalizeSpread(m.spread)
  IN  {rule \in {"item", "ability", "stat_points"} :
         CASE rule = "item" -> ~(HeldItem(m) \subseteq ChampionsItems)
           [] rule = "ability" -> Abilities(m) # {} /\ ~AbilityOk(m, slug)
           [] rule = "stat_points" -> ValidSpread(sp) /\ TotalPoints(sp) < MaxTotal}

-----------------------------------------------------------------------------
\* validate_team is called, by itself or first thing by analyze_team.
Begin ==
  /\ tool \in {"none", "done"}
  /\ team' \in IF tool = "none" THEN Teams ELSE {team}
  /\ tool' \in {"validate", "analyze"}
  /\ at' = 1
  /\ base_species_seen' = {} /\ items_seen' = {}
  /\ violations' = IF team' = <<>> \/ Len(team') > TeamSize
                   THEN {[member |-> 0, rule |-> "team_size"]} ELSE {}
  /\ warnings' = {}
  /\ UNCHANGED <<gaps, forms, paste>>

FaultyCheckMember ==
  /\ tool \in {"validate", "analyze"} /\ at <= Len(team)
  /\ LET m == team[at]
         slug == TryResolve(m.species)
         On(rules) == {[member |-> at, rule |-> r] : r \in rules}
     IN  IF slug = Unset
         THEN /\ violations' = violations \cup On({"roster"})
              /\ UNCHANGED <<warnings, seen>>
         ELSE /\ violations' = violations \cup On(BrokenBy(m, slug))
              /\ warnings' = warnings \cup On(Doubted(m, slug))
              /\ base_species_seen' = {Dex[slug].base}
              /\ items_seen' = HeldItem(m)
  /\ at' = at + 1
  /\ UNCHANGED <<team, tool, gaps, forms, paste>>

\* One round of the loop. A name outside the roster ends it early, so neither
\* its item nor its species is remembered.
CheckMember ==
  /\ tool \in {"validate", "analyze"} /\ at <= Len(team)
  /\ LET m == team[at]
         slug == TryResolve(m.species)
         On(rules) == {[member |-> at, rule |-> r] : r \in rules}
     IN  IF slug = Unset
         THEN /\ violations' = violations \cup On({"roster"})
              /\ UNCHANGED <<warnings, seen>>
         ELSE /\ violations' = violations \cup On(BrokenBy(m, slug))
              /\ warnings' = warnings \cup On(Doubted(m, slug))
              /\ base_species_seen' = base_species_seen \cup {Dex[slug].base}
              /\ items_seen' = items_seen \cup HeldItem(m)
  /\ at' = at + 1
  /\ UNCHANGED <<team, tool, gaps, forms, paste>>

\* _mode_dependency_gaps, of which the weather: listed abilities and moves.
Gaps ==
  LET moves == UNION {MoveSet(team[i]) : i \in DOMAIN team}
      abilities == UNION {Abilities(team[i]) : i \in DOMAIN team}
  IN  IF /\ abilities \cap WeatherAbusers # {}
         /\ abilities \cap WeatherSetters = {}
         /\ moves \cap WeatherMoves = {}
      THEN {"weather"} ELSE {}

\* _member_form: a member holding the stone of its own Mega battles as it.
MemberForm(m) ==
  LET slug == TryResolve(m.species)
      mega == {f \in MegaForms : f.species = slug /\ f.stone = m.item}
  IN  IF slug # Unset /\ m.item # Unset /\ mega # {}
      THEN (CHOOSE f \in mega : TRUE).ability ELSE m.ability

Report ==
  /\ tool \in {"validate", "analyze"} /\ at > Len(team)
  /\ tool' = "done"
  /\ IF tool = "analyze"
     THEN /\ gaps' = Gaps
          /\ forms' = [i \in DOMAIN team |-> MemberForm(team[i])]
     ELSE UNCHANGED <<gaps, forms>>
  /\ UNCHANGED <<team, at, seen, report, paste>>

Spent(m) ==
  LET sp == NormalizeSpread(m.spread)
  IN  MapThenSumSet(LAMBDA s : sp[s], DOMAIN sp)

\* check_team_complete: something is missing for this member.
Missing(m) ==
  \/ Unset \in {m.species, m.ability, m.item, m.nature}
  \/ Len(m.moves) < MovesPerSet
  \/ m.spread = <<>>
  \/ LooksLikeEvs(NormalizeSpread(m.spread)) \/ ~(Spent(m) >= MaxTotal)

\* The block of a member holds its first four moves.
Rendered(m) ==
  [m EXCEPT !.moves = SubSeq(@, 1, IF Len(@) < MovesPerSet THEN Len(@) ELSE MovesPerSet)]

CreatePokepaste(force) ==
  /\ tool = "done"
  /\ team # <<>>
  /\ force \/ \A i \in DOMAIN team : ~Missing(team[i])
  /\ paste' = [force |-> force, team |-> [i \in DOMAIN team |-> Rendered(team[i])]]
  /\ UNCHANGED <<team, tool, at, seen, report, gaps, forms>>

Next ==
  \/ Begin \/ CheckMember \/ Report
  \/ \E force \in BOOLEAN : CreatePokepaste(force)

Spec == Init /\ [][Next]_vars

-----------------------------------------------------------------------------
Legal == tool = "done" /\ violations = {}

\* A loop under way: what it has seen are members it has passed.
TypeOK ==
  /\ tool \in {"none", "validate", "analyze", "done"}
  /\ team \in Teams \cup {<<>>} /\ at \in 1 .. Len(team) + 1
  /\ \A r \in violations \cup warnings : r.member \in 0 .. at - 1
  /\ base_species_seen \subseteq {Dex[s].base : s \in DOMAIN Dex}
  /\ items_seen \subseteq UNION {HeldItem(team[i]) : i \in 1 .. at - 1}

Resolved == {i \in DOMAIN team : TryResolve(team[i].species) # Unset}
SlugAt(i) == TryResolve(team[i].species)

\* The verdict of the member-by-member loop is the rules of the format, stated
\* of the whole team: it depends on no order of the members (validate_team).
LegalIsDeclarative ==
  tool = "done" =>
    (violations = {} <=>
       /\ Len(team) \in 1 .. TeamSize
       /\ Resolved = DOMAIN team
       /\ \A i, j \in DOMAIN team : i # j =>
            /\ Dex[SlugAt(i)].base # Dex[SlugAt(j)].base
            /\ team[i].item = Unset \/ team[i].item # team[j].item
       /\ \A i \in DOMAIN team :
            /\ MoveSet(team[i]) \subseteq Dex[SlugAt(i)].learns
            /\ team[i].nature \in DOMAIN Natures \cup {Unset}
            /\ ValidSpread(NormalizeSpread(team[i].spread)))

\* A team that passed validate_team and was published without force has nothing
\* left to chance: full sets of learnable moves, every point spent, none over.
PublishedIsPlayable ==
  Legal /\ paste # <<>> => paste.force \/
    \A i \in DOMAIN paste.team :
      LET m == paste.team[i]
      IN  /\ Len(m.moves) = MovesPerSet
          /\ MoveSet(m) \subseteq Dex[SlugAt(i)].learns
          /\ Spent(m) <= MaxTotal /\ Spent(m) >= MaxTotal

\* analyze_team and validate_team agree on abilities: the one a member is
\* analysed with is its species' or its own Mega's, unless it was warned about.
FormAbilityLegal ==
  tool = "done" /\ Len(forms) = Len(team) =>
    \A i \in Resolved :
      \/ forms[i] = Unset
      \/ [member |-> i, rule |-> "ability"] \in warnings
      \/ forms[i] \in Dex[SlugAt(i)].abilities
      \/ \E f \in MegaForms : f.species = SlugAt(i) /\ f.ability = forms[i]

\* The three verdicts on a finished team, and the loop's own state.
TeamSound ==
  /\ TypeOK
  /\ LegalIsDeclarative
  /\ PublishedIsPlayable
  /\ FormAbilityLegal

-----------------------------------------------------------------------------
(* What docs and comments say and the code does not keep.                   *)

\* docs/tools.md on validate_team: "Full legality report for a team: roster
\* membership, ...". No team with a name the roster does not know is legal.
RosterMembership ==
  Legal => \A i \in DOMAIN team : team[i].species \in DOMAIN NameOf

\* docs/tools.md on create_pokepaste: "Every member must be complete: species,
\* item, ability, nature, four moves and a full 66-SP spread. Otherwise the
\* request is rejected".
OnlyCompletePublished ==
  paste # <<>> => paste.force \/ \A i \in DOMAIN team :
    Len(team[i].moves) = MovesPerSet /\ Spent(team[i]) = MaxTotal

\* teambuilder.py: "team members whose plan needs a field effect nobody on the
\* team sets". A weather gap is reported only when no battle form sets weather.
WeatherGapIsReal ==
  tool = "done" /\ "weather" \in gaps =>
    \A i \in DOMAIN forms : forms[i] \notin WeatherSetters
=============================================================================
