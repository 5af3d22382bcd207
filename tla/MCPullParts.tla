----------------------------- MODULE MCPullParts -----------------------------
(***************************************************************************)
(* What a pull consists of beside its cycle, for TLC: pulls side by side   *)
(* on one data directory (PullSwap), the cache they read through           *)
(* (PullCache), the roster and its names (RosterBuild, NameIndex), the     *)
(* observed teams (ObservedCorpus), the scrape of reports (TeamReports)    *)
(* and the reading of their text (ReportText).  A run takes one of them:   *)
(* part says which, the others keep an initial state.                      *)
(***************************************************************************)
EXTENDS PullSwap, PullCache, ObservedCorpus, TeamReports, ReportText, SequencesExt

VARIABLES
  part,
  stage, filterIndex, listing, items, fullMoves, namedMoves, pages, pokemon, learnable,
  moves, skipped, usage, megaForms, byJa, byEn, jaItems             \* of NameIndex

-----------------------------------------------------------------------------
(* The cache, with the pages of three sites at a time: those that expire    *)
(* and those that are kept, the seasons, the events.                        *)
ASSUME CacheAssumption

\* The stages in which the pages of a part are read, and what becomes of them.
ReadIn == [pages |-> {"sheet", "item", "gen"}, seasons |-> {"season"},
           events |-> {"index", "standings"}]

Sites == DOMAIN ReadIn

\* A part takes every step of its own stages. Through the others it goes without
\* delay: it begins with the items, and a season that is not there is a 404.
Own == pc \in ReadIn[part] \union {"idle", "done"}

SitesNext ==
  \/ Own /\ (Tick \/ Fail)
  \/ part = "events" /\ Own /\ List
  \/ Own /\ \E k \in Site : k[1] \in ReadIn[part] /\ Change(k)
  \/ Begin /\ (part = "pages" \/ pc' = "item")
  \/ GetSeason /\ (part = "seasons" \/ got'[<<"season", number>>] = Missing)
  \/ Onward \/ LastSeason \/ GetSheet \/ GetGathered \/ GetIndex \/ GetStandings

-----------------------------------------------------------------------------
(* The roster: Raichu has two Megas and a regional form that has none,      *)
(* Floette is entered as form 5 and its stone names it by a longer name,    *)
(* the two Meowstics share one stone, Absol's second Mega has a stone that  *)
(* names it and a first stone that does not.                                *)
RosterEntry(slug, no, formNo, name, stem, learns) ==
  [slug |-> slug, no |-> no, formNo |-> formNo, name |-> name, stem |-> stem,
   mega |-> FALSE, learns |-> learns]

MegaEntry(no, formNo, name) ==
  [slug |-> name, no |-> no, formNo |-> formNo, name |-> name, stem |-> name,
   mega |-> TRUE, learns |-> {}]

Alolan == RosterEntry("alolan-raichu", 26, 1, "Alolan Raichu", "Alolan Raichu", {1})
Raichu == RosterEntry("raichu", 26, 0, "Raichu", "Raichu", {1})
Floette == RosterEntry("floette", 670, 5, "Floette", "Floette", {1})
MeowsticM == RosterEntry("meowstic-male", 678, 0, "Meowstic (Male)", "Meowstic", {1})
MeowsticF == RosterEntry("meowstic-female", 678, 1, "Meowstic (Female)", "Meowstic", {})
Absol == RosterEntry("absol", 359, 0, "Absol", "Absol", {1})

RaichuX == MegaEntry(26, 2, "Mega Raichu X")
RaichuY == MegaEntry(26, 3, "Mega Raichu Y")
MegaFloette == MegaEntry(670, 6, "Mega Floette")
MegaMale == MegaEntry(678, 2, "Mega Meowstic (Male)")
MegaFemale == MegaEntry(678, 3, "Mega Meowstic (Female)")
MegaAbsol == MegaEntry(359, 1, "Mega Absol")
AbsolZ == MegaEntry(359, 2, "Mega Absol Z")

RosterSite == <<Alolan, Raichu, RaichuX, RaichuY, Absol, MegaAbsol, AbsolZ,
          Floette, MegaFloette, MeowsticM, MeowsticF, MegaMale, MegaFemale>>

\* A regulation may leave out forms and Megas, never a species' own entry.
Optional == {{Alolan}, {RaichuX}, {RaichuY}, {MegaAbsol}, {AbsolZ}, {MegaMale, MegaFemale}}

SomeRosters ==
  {SelectSeq(RosterSite, LAMBDA e : e \notin UNION out) : out \in SUBSET Optional}

SomeListings == {ToSet(RosterSite), ToSet(RosterSite) \ {RaichuY, AbsolZ}}

Stone(name, species, target, letter) ==
  [name |-> name, species |-> species, target |-> target, letter |-> letter]

AllStones == {
  Stone("Raichunite X", "Raichu", "Mega Raichu X", "x"),
  Stone("Raichunite Y", "Raichu", "Mega Raichu Y", "y"),
  Stone("Floettite", "Eternal Flower Floette", "no target", ""),
  Stone("Meowsticite", "Meowstic", "no target", ""),
  Stone("Absolite", "Absol", "no target", ""),
  Stone("Absolite Z", "Absol", "Mega Absol Z", "z")}



SomeTokens == "alolan-raichu" :> "Alola" @@ "raichu" :> "" @@ "floette" :> "Eternal"
  @@ "meowstic-male" :> "" @@ "meowstic-female" :> "F" @@ "absol" :> ""

SomeKeys ==
  "alolan-raichu" :> <<"alolan-raichu", "alolan-raichu", "raichu-alola">>
  @@ "raichu" :> <<"raichu", "raichu", "raichu">>
  @@ "floette" :> <<"floette", "floette", "floette-eternal">>
  @@ "meowstic-male" :> <<"meowstic-male", "meowstic-male", "meowstic">>
  @@ "meowstic-female" :> <<"meowstic-female", "meowstic-female", "meowstic-f">>
  @@ "absol" :> <<"absol", "absol", "absol">>

SomeAliases == {<<"eternal-flower-floette", "floette">>, <<"meowstic-f", "meowstic-female">>}
SomeCanonical == {<<<<"Absol", "">>, "Absolite">>}

StoneFor == "Mega Raichu X" :> "Raichunite X" @@ "Mega Raichu Y" :> "Raichunite Y"
  @@ "Mega Floette" :> "Floettite" @@ "Mega Meowstic (Male)" :> "Meowsticite"
  @@ "Mega Meowstic (Female)" :> "Meowsticite" @@ "Mega Absol" :> "Absolite"
  @@ "Mega Absol Z" :> "Absolite Z"

JaNameOf == "Raichunite X" :> <<"Raichu", "x">> @@ "Raichunite Y" :> <<"Raichu", "y">>
  @@ "Floettite" :> <<"Floette", "">> @@ "Meowsticite" :> <<"Meowstic", "">>
  @@ "Absolite" :> <<"Absol", "">> @@ "Absolite Z" :> <<"Absol", "z">>

Index == INSTANCE NameIndex WITH
  Rosters <- SomeRosters, Listings <- SomeListings, ItemPages <- {AllStones}, MoveIds <- {1},
  Ends <- {<<"Eternal Flower Floette", "Floette">>}, Blocks <- {"singles", "doubles", "casual"},
  Tokens <- SomeTokens, Keys <- SomeKeys, Aliases <- SomeAliases, Canonical <- SomeCanonical,
  NoTarget <- "no target", NoStone <- "no stone", NoPage <- "no page", NoName <- "no name",
  NoSlug <- "no slug", NoToken <- "no token", Named <- "named", Full <- "full"

-----------------------------------------------------------------------------
(* The observed teams, of two. One event has a list that does not resolve,  *)
(* one a singles name, one is out of scope; a third entrant gave no list.   *)
amoonguss == [slug |-> "amoonguss", moves |-> {"ragepowder", "protect"}]
glimmora  == [slug |-> "glimmora", moves |-> {"spikes", "spikyshield"}]
gliscor   == [slug |-> "gliscor", moves |-> {"spikes", "protect"}]
unknown   == [slug |-> "nowhere", moves |-> {}]

Entry(p, n, l) == [player |-> p, placing |-> n, list |-> l]
Event(id, reg, single, st) ==
  [id |-> id, regulation |-> reg, players |-> 16, single |-> single,
   weight |-> 2, standings |-> st]

SomeEvents ==
  {Event("open", "M-C", FALSE, <<Entry("ann", 1, <<amoonguss, glimmora>>),
                                 Entry("bob", 2, <<>>),
                                 Entry("cat", 3, <<glimmora, unknown>>)>>),
   Event("cup", "M-C", TRUE, <<Entry("ann", 1, <<glimmora, gliscor>>),
                               Entry("bob", 0, <<unknown>>)>>),
   Event("old", "M-B", FALSE, <<Entry("ann", 1, <<amoonguss, gliscor>>)>>)}

SomeExports ==
  {[season |-> "M-6", regulation |-> "M-C", fmt |-> "singles", weight |-> 2,
    lists |-> <<<<glimmora, gliscor>>, <<gliscor, unknown>>>>],
   [season |-> "M-5", regulation |-> "M-B", fmt |-> "singles", weight |-> 2,
    lists |-> <<<<amoonguss, glimmora>>>>]}

SomeReported ==
  {[url |-> "u1", rank |-> 1, list |-> <<amoonguss, gliscor>>],
   [url |-> "u2", rank |-> 0, list |-> <<amoonguss>>]}

-----------------------------------------------------------------------------
(* The scrape: the first source has two pages, the second repeats an        *)
(* article with more species and a rank, and lists one whose address        *)
(* differs from another's in the query alone.                               *)
ListedReport(a, k, rank, mons) == [article |-> a, key |-> k, rank |-> rank, mons |-> mons]

SomeListed ==
  << << <<ListedReport("a1", "k1", 0, <<"garchomp", "unread">>)>>,
        <<ListedReport("a2", "k2", 7, <<"rotom", "garchomp", "rotom">>)>> >>,
     << <<ListedReport("a1", "k1", 3, <<"garchomp", "rotom">>), ListedReport("a3", "k2", 0, <<"rotom", "rotom">>)>> >> >>

SomeSets == "a1" :> <<"rotom", "garchomp", "rotom">> @@ "a2" :> <<"rotom", "rotom", "garchomp">>
              @@ "a3" :> <<"rotom">>

-----------------------------------------------------------------------------
(* The text: a team of two, of which one name is part of the other's.       *)
Duo == <<"mew", "mewtwo">>
Written == {{"mew"}, {"mewtwo"}, {"mew", "mewtwo"}}

-----------------------------------------------------------------------------
namesVars == <<stage, filterIndex, listing, items, fullMoves, namedMoves, pages, pokemon,
               learnable, moves, skipped, usage, megaForms, byJa, byEn, jaItems>>
mcVars == <<part, vars, cacheVars, namesVars, corpusVars, scrapeVars, textVars>>

MCInit ==
  /\ part \in {"swap", "pages", "seasons", "events", "names", "corpus", "scrape", "text"}
  /\ Init /\ CorpusInit /\ ScrapeInit /\ TextInit
  /\ CacheInit
  /\ Index!IndexInit
  /\ part # "names" => /\ filterIndex = RosterSite /\ listing = ToSet(RosterSite)
                       /\ fullMoves = {} /\ namedMoves = {}

MCNext ==
  \/ /\ part = "swap" /\ Next
     /\ UNCHANGED <<part, cacheVars, namesVars, corpusVars, scrapeVars, textVars>>
  \/ /\ part \in Sites /\ SitesNext
     /\ UNCHANGED <<part, vars, namesVars, corpusVars, scrapeVars, textVars>>
  \/ /\ part = "names" /\ Index!Next
     /\ UNCHANGED <<part, vars, cacheVars, corpusVars, scrapeVars, textVars>>
  \/ /\ part = "corpus" /\ CorpusNext
     /\ UNCHANGED <<part, vars, cacheVars, namesVars, scrapeVars, textVars>>
  \/ /\ part = "scrape" /\ ScrapeNext
     /\ UNCHANGED <<part, vars, cacheVars, namesVars, corpusVars, textVars>>
  \/ /\ part = "text" /\ TextNext
     /\ UNCHANGED <<part, vars, cacheVars, namesVars, corpusVars, scrapeVars>>

MCSpec == MCInit /\ [][MCNext]_mcVars

-----------------------------------------------------------------------------
\* All sources mean the same entry by the same name (NamesSound of NameIndex).
NamesAgree == part = "names" => Index!NamesSound
=============================================================================
