----------------------------- MODULE RosterBuild -----------------------------
(***************************************************************************)
(* The roster stage of the pull (pull/build.py): pokechamp's listings      *)
(* become the roster, its movepools and moves; one page per Pokemon gives  *)
(* its usage; the legal Mega forms become mega_forms, with the stone that  *)
(* unlocks each, found in the text of the items; PokeAPI gives the foreign *)
(* names.  An error of any request ends the build.                         *)
(*                                                                         *)
(* An entry is a record [slug, no, formNo, name, stem, mega, learns]:      *)
(* stem is the name without a "(Male)" at its end, mega says whether       *)
(* formName starts with "Mega".  A stone is a record [name, species,       *)
(* target, letter]: the species and the form its text names, the letter    *)
(* its name ends in.  Abilities, types and stats are left out.             *)
(***************************************************************************)
EXTENDS Integers, Sequences, FiniteSets, SequencesExt

CONSTANTS
  Rosters,       \* filter indexes: sequences of entries, the order of the site
  Listings,      \* sets of entries with stats: a page of another age
  ItemPages,     \* sets of stones the items page may list
  MoveIds,
  Ends,          \* pairs <<name, species>>: the name ends with " species"
  Blocks,        \* the formats a page has a usage block for
  NoTarget, NoStone, NoPage, NoName, Named, Full

VARIABLES
  stage,         \* what build has done so far
  filterIndex, listing, items, fullMoves, namedMoves,   \* the fetched pages
  pages,         \* _ingest_usage: answers of gather, by position
  pokemon, learnable, moves, skipped, usage, megaForms   \* the tables

site == <<filterIndex, listing, items, fullMoves, namedMoves>>
tables == <<pokemon, learnable, moves, skipped, usage, megaForms>>
buildVars == <<stage, site, pages, tables>>

Init ==
  /\ stage = "start"
  /\ filterIndex \in Rosters /\ listing \in Listings /\ items \in ItemPages
  /\ fullMoves \in SUBSET MoveIds /\ namedMoves \in SUBSET MoveIds
  /\ pages = <<>>
  /\ pokemon = <<>> /\ learnable = {} /\ moves = <<>> /\ skipped = 0
  /\ usage = {} /\ megaForms = {}

-----------------------------------------------------------------------------
\* Only what both pages know is legal.
Legal == SelectSeq(filterIndex, LAMBDA e : e \in listing)
BaseEntries == SelectSeq(Legal, LAMBDA e : ~e.mega)
MegaEntries == {e \in ToSet(Legal) : e.mega}

Siblings(e) == {s \in ToSet(BaseEntries) : s.no = e.no}
Lowest(es) == CHOOSE s \in es : \A t \in es : s.formNo <= t.formNo

\* Fault: the species' entry is the one numbered 0.
FaultySpeciesSibling(e) ==
  IF \E s \in Siblings(e) : s.formNo = 0
  THEN CHOOSE s \in Siblings(e) : s.formNo = 0 ELSE e

\* The entry a form is a form of; without one, the form itself.
SpeciesSibling(e) == IF Siblings(e) = {} THEN e ELSE Lowest(Siblings(e))

\* moves: the full row, else the row that has only a name.
MoveRow(m) == IF m \in fullMoves THEN Full ELSE Named

Known == fullMoves \cup namedMoves

PokemonRow(e) ==
  [slug |-> e.slug, name |-> e.name,
   base |-> SpeciesSibling(e).stem, ja |-> NoName,
   forms |-> {m.name : m \in {x \in MegaEntries : x.no = e.no}}]

ParsePokechamp ==
  /\ stage = "start"
  /\ stage' = "pages"
  /\ pokemon' = [i \in DOMAIN BaseEntries |-> PokemonRow(BaseEntries[i])]
  /\ learnable' = UNION {{e.slug} \X (e.learns \cap Known) : e \in ToSet(BaseEntries)}
  /\ skipped' = LET lost[i \in 0..Len(BaseEntries)] ==
                      IF i = 0 THEN 0
                      ELSE lost[i - 1] + Cardinality(BaseEntries[i].learns \ Known)
                IN  lost[Len(BaseEntries)]
  /\ moves' = [m \in Known |-> MoveRow(m)]
  /\ pages' = [i \in DOMAIN BaseEntries |-> NoPage]
  /\ UNCHANGED <<site, usage, megaForms>>

-----------------------------------------------------------------------------
\* gather returns the answers in the order of the requests.
Place(i) == i

PageAnswers(i) ==
  /\ stage = "pages" /\ i \in DOMAIN pages
  /\ \A j \in DOMAIN pages : pages[j] # BaseEntries[i].slug
  /\ pages' = [pages EXCEPT ![Place(i)] = BaseEntries[i].slug]
  /\ UNCHANGED <<stage, site, tables>>

\* _ingest_usage: entry and page are paired by position (zip).
IngestUsage ==
  /\ stage = "pages" /\ \A i \in DOMAIN pages : pages[i] # NoPage
  /\ stage' = "usage"
  /\ usage' = {[slug |-> pokemon[i].slug, fmt |-> f, page |-> pages[i]] :
                 i \in DOMAIN pages, f \in Blocks \cap {"singles", "doubles"}}
  /\ UNCHANGED <<site, pages, pokemon, learnable, moves, skipped, megaForms>>

-----------------------------------------------------------------------------
\* The stones of a species; "Eternal Flower Floette" is a Floette.
Candidates(species) ==
  LET own == {s \in items : s.species = species} IN
  IF own # {} THEN own ELSE {s \in items : <<s.species, species>> \in Ends}

\* _resolve_mega_stones for one species: pairs of a form and its stone.
StonesOf(forms, stones) ==
  LET told == {<<s.target, s.name>> : s \in {x \in stones : x.target # NoTarget}}
      unresolved == {f \in forms : \A p \in told : p[1] # f}
      leftover == {s.name : s \in stones} \ {p[2] : p \in told}
  IN  IF Cardinality(stones) = 1 THEN forms \X {s.name : s \in stones}
      ELSE told \cup (IF Cardinality(unresolved) = 1 /\ Cardinality(leftover) = 1
                      THEN unresolved \X leftover ELSE {})

SpeciesForms(s) == {e.name : e \in {x \in MegaEntries : SpeciesSibling(x).stem = s}}

StoneForForm == UNION {StonesOf(SpeciesForms(s), Candidates(s)) :
                         s \in {SpeciesSibling(e).stem : e \in MegaEntries}}

StoneOf(form) ==
  IF \E p \in StoneForForm : p[1] = form
  THEN (CHOOSE p \in StoneForForm : p[1] = form)[2] ELSE NoStone

\* A form whose species has no row of its own name is left out.
BuildMegaForms ==
  /\ stage = "usage"
  /\ stage' = "megas"
  /\ megaForms' = UNION {
       {[form |-> e.name, slug |-> r.slug, stone |-> StoneOf(e.name)] :
          r \in {x \in ToSet(pokemon) : x.name = SpeciesSibling(e).name}} :
       e \in MegaEntries}
  /\ UNCHANGED <<site, pages, pokemon, learnable, moves, skipped, usage>>

\* enrich: names come by species; a species PokeAPI does not have has none.
Enrich(found) ==
  /\ stage = "megas"
  /\ stage' = "enriched"
  /\ pokemon' = [i \in DOMAIN pokemon |-> [pokemon[i] EXCEPT
                   !.ja = IF pokemon[i].base \in found THEN pokemon[i].base ELSE NoName]]
  /\ UNCHANGED <<site, pages, learnable, moves, skipped, usage, megaForms>>

\* A request fails: the error leaves build, the tables are never swapped in.
RequestFails ==
  /\ stage \in {"start", "pages", "megas"}
  /\ stage' = "failed"
  /\ UNCHANGED <<site, pages, tables>>

BuildNext ==
  \/ ParsePokechamp \/ IngestUsage \/ BuildMegaForms \/ RequestFails
  \/ \E i \in DOMAIN pages : PageAnswers(i)
  \/ \E found \in SUBSET {pokemon[i].base : i \in DOMAIN pokemon} : Enrich(found)
=============================================================================
