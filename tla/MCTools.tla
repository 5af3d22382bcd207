------------------------------- MODULE MCTools -------------------------------
(***************************************************************************)
(* The query tools of the MCP server, for TLC: the verdicts on a team      *)
(* (TeamCheck), the observed sets (ObservedReads), the form a species is   *)
(* shown in (PlayedForms), names (NameLookup), roles (RoleLookup) and the  *)
(* Speed points needed (SpeedThreshold).  The tools share no state, so a   *)
(* run takes one of them: part says which, the others stay as they are.    *)
(***************************************************************************)
EXTENDS TeamCheck, SpeedThreshold, PlayedForms, SequencesExt

VARIABLES
  part,
  build_teams, build_members, found,                \* of ObservedReads
  mirror, named,                                    \* of NameLookup
  catalogue, loaded, lookup, asked, described       \* of RoleLookup

-----------------------------------------------------------------------------
(* Teams of up to three and some of four for a limit of three, two moves    *)
(* to a set, spreads of at most seven points a stat and fourteen in all.    *)
MCStats == {"hp", "attack", "speed"}
MCAlias == [k \in MCStats \cup {"spe"} |-> IF k = "spe" THEN "speed" ELSE k]
MCNatures == [n \in {"jolly", "serious", "brave"} |->
  CASE n = "jolly"   -> [plus |-> "speed", minus |-> "attack"]
    [] n = "brave"   -> [plus |-> "attack", minus |-> "speed"]
    [] n = "serious" -> [plus |-> "none", minus |-> "none"]]

MCDex == [s \in {"venusaur", "charizard", "rotom", "rotom-wash"} |->
  CASE s = "venusaur"  -> [base |-> "venusaur", abilities |-> {"chlorophyll"},
                           learns |-> {"protect", "drain", "bomb"}]
    [] s = "charizard" -> [base |-> "charizard", abilities |-> {"blaze"},
                           learns |-> {"protect", "heat", "sun"}]
    [] OTHER           -> [base |-> "rotom", abilities |-> {"levitate"},
                           learns |-> {"protect", "volt"}]]
MCNames == [n \in DOMAIN MCDex |-> n]
MCClose == [n \in {"charizord"} |-> "charizard"]
MCMegas == {[species |-> "charizard", stone |-> "charizarditey", ability |-> "drought"],
            [species |-> "venusaur", stone |-> "venusaurite", ability |-> "thickfat"]}
MCItems == {"charizarditey", "venusaurite", "sash"}
MCSetters == {"drought"}
MCAbusers == {"chlorophyll"}
MCWeatherMoves == {"sun"}

P(k, v) == [key |-> k, sp |-> v]
full == <<P("attack", 7), P("spe", 7)>>
over == <<P("attack", 7), P("spe", 7), P("hp", 1)>>
some == <<P("speed", 1), P("spe", 7)>>
evs  == <<P("attack", 8), P("speed", 1)>>

M(s, i, a, ms, n, sp) ==
  [species |-> s, item |-> i, ability |-> a, moves |-> ms, nature |-> n, spread |-> sp]

MCMembers ==
  {M("venusaur", "sash", "chlorophyll", <<"protect", "drain">>, "jolly", full),
   M("venusaur", "charizarditey", "chlorophyll", <<"drain", "bomb">>, "jolly", full),
   M("charizard", "charizarditey", "blaze", <<"protect", "heat">>, "jolly", full),
   M("charizard", "charizarditey", "drought", <<"heat", "heat", "protect">>, "jolly", full),
   M("charizord", Unset, "blaze", <<"sun", "heat">>, "jolly", full),
   M("charizard", "sash", "drought", <<"heat", "volt">>, "jolly", over),
   M("rotom-wash", Unset, Unset, <<"volt">>, Unset, some),
   M("rotom", "leftovers", "levitate", <<"volt">>, "jolly", some),
   M("rotom-wash", "orb", "levitate", <<"volt", "protect">>, "bold", evs),
   M("golbat", "sash", Unset, <<>>, Unset, <<>>)}

MCTeams ==
  UNION {[1 .. n -> MCMembers] : n \in 0 .. 3} \cup
  {<<m, m, m, m>> : m \in MCMembers}

-----------------------------------------------------------------------------
(* Corpora of up to four teams of two with two move slots: one has the same *)
(* list at three events of different weight, one mixes full sets with rows  *)
(* of items only, one is empty.                                             *)
Team(fmt, w, l) == [format |-> fmt, weight |-> w, list |-> l]
Mon(s, i, ms) == [slug |-> s, item |-> i, moves |-> ms]

\* The tables of a sequence of teams, as a pull writes them.
Tables(ts) ==
  [teams |-> [id \in DOMAIN ts |->
      [format |-> ts[id].format, weight |-> ts[id].weight, hash |-> ts[id].list]],
   members |-> UNION {{[row |-> <<id, i>>, id |-> id] @@ ts[id].list[i] :
      i \in DOMAIN ts[id].list} : id \in DOMAIN ts}]

gScarf  == Mon("g", "scarf", {"quake", "claw"})
gOrb    == Mon("g", "orb", {"quake", "dance"})
gSash   == Mon("g", "sash", {"claw", "dance"})
gItem   == Mon("g", "scarf", {})
iSash   == Mon("i", "sash", {"fake", "turn"})
iOrb    == Mon("i", "orb", {"fake", "blitz"})
kOrb    == Mon("k", "orb", {"spore", "trick"})

ListsOfTwo ==
  {<<gScarf, iSash>>, <<gOrb, kOrb>>, <<gSash, iOrb>>, <<iSash, kOrb>>}

SomeCorpora ==
  {Tables(<<>>),
   Tables(<<Team("doubles", 40, <<gScarf, iSash>>), Team("doubles", 1, <<gOrb, kOrb>>)>>),
   Tables(<<Team("doubles", 1, <<gScarf, iSash>>), Team("doubles", 3, <<gScarf, iSash>>),
            Team("doubles", 2, <<gScarf, iSash>>), Team("doubles", 2, <<gSash, kOrb>>)>>),
   Tables(<<Team("singles", 3, <<gItem, iSash>>), Team("singles", 1, <<gOrb, iOrb>>),
            Team("doubles", 5, <<gScarf, kOrb>>)>>)}
  \cup {Tables(<<Team("doubles", 2, a), Team("doubles", 1, b),
                 Team("doubles", w, c), Team("singles", 1, <<gOrb, iOrb>>)>>) :
          a, b, c \in ListsOfTwo, w \in {1, 12}}

\* The same set from two generations, and one that Champions does not allow.
SomeOldSets ==
  {[slug |-> "g", format |-> "doubles", set |-> Mon("g", "orb", {"quake", "claw"}),
    generation |-> 9],
   [slug |-> "g", format |-> "doubles", set |-> Mon("g", "orb", {"quake", "claw"}),
    generation |-> 7],
   [slug |-> "g", format |-> "singles", set |-> Mon("g", "berry", {"quake", "rocks"}),
    generation |-> 6]}

SomeMoves == [s \in {"g", "i", "k"} |->
  CASE s = "g" -> {"quake", "claw", "dance"}
    [] s = "i" -> {"fake", "turn", "blitz"}
    [] s = "k" -> {"spore", "trick"}]

Reads == INSTANCE ObservedReads WITH
  Corpora <- SomeCorpora, SmogonSets <- SomeOldSets, Learnable <- SomeMoves,
  ChampionsItems <- {"scarf", "orb", "sash"}, Items <- {"scarf", "orb", "sash"},
  Formats <- {"doubles", "singles"}, Slugs <- {"g", "i", "k"}, MoveSlots <- 2, Limit <- 2,
  Anyone <- "any", answer <- found

-----------------------------------------------------------------------------
(* Raichu with two Megas of different Speed and a stone whose form is not   *)
(* in the mirror, and the two Meowstics, whose Megas share a stone and are  *)
(* both rows of the male.                                                   *)
RaichuX == [name |-> "Mega Raichu X", slug |-> "raichu", stone |-> "raichunite-x", speed |-> 110]
RaichuY == [name |-> "Mega Raichu Y", slug |-> "raichu", stone |-> "raichunite-y", speed |-> 130]
MegaMale == [name |-> "Mega Meowstic (Male)", slug |-> "meowstic-male",
             stone |-> "meowsticite", speed |-> 124]
MegaFemale == [name |-> "Mega Meowstic (Female)", slug |-> "meowstic-male",
               stone |-> "meowsticite", speed |-> 125]

SomeForms == {RaichuX, RaichuY, MegaMale, MegaFemale}
SomeSpecies == {"raichu", "meowstic-male", "meowstic-female"}
SomeBase == "raichu" :> 110 @@ "meowstic-male" :> 104 @@ "meowstic-female" :> 104

Percents == {0, 20, 30, 49, 50, 70}

\* Percentages of one species add up to at most 100.
Shares(stones) == {p \in [stones -> Percents] : MapThenSumSet(LAMBDA st : p[st], stones) <= 100}
Held(stones) == UNION {Shares(held) : held \in SUBSET stones}

SomeUsages ==
  {"raichu" :> r @@ "meowstic-male" :> <<>> @@ "meowstic-female" :> <<>> :
     r \in Held({"raichunite-x", "raichunite-y", "raichunite-z"})}
  \cup {"raichu" :> <<>> @@ "meowstic-male" :> m @@ "meowstic-female" :> f :
          m \in Held({"meowsticite"}), f \in Held({"meowsticite"})}

NoMega == [name |-> "none", slug |-> "none", stone |-> "none", speed |-> 0]

-----------------------------------------------------------------------------
(* Five entries in every order of the table, two of one species, with       *)
(* German and Japanese names, and the ways to write a Mega.                 *)
Entries == {
  [slug |-> "raichu", names |-> {"raichu"}, local |-> {"ライチュウ"}],
  [slug |-> "alolan-raichu", names |-> {"alolan raichu", "raichu-alola"},
   local |-> {"ライチュウ"}],
  [slug |-> "charizard", names |-> {"charizard"}, local |-> {"glurak", "リザードン"}],
  [slug |-> "altaria", names |-> {"altaria"}, local |-> {"チルタリス"}],
  [slug |-> "flabebe", names |-> {"flabébé"}, local |-> {"フラベベ"}]}

\* Every order of the table, with and without the regional form.
SomeMirrors == SetToSeqs(Entries) \cup
               SetToSeqs({e \in Entries : e.slug # "alolan-raichu"})

SomeMegaNames == {
  [name |-> "Mega Charizard X", key |-> "mega-charizard-x", base |-> "charizard"],
  [name |-> "Mega Charizard Y", key |-> "mega-charizard-y", base |-> "charizard"],
  [name |-> "Mega Altaria", key |-> "mega-altaria", base |-> "altaria"]}

Japanese == {"ライチュウ", "リザードン", "チルタリス", "フラベベ", "ピカチュウ"}

Keyed ==
  "raichu" :> "raichu" @@ "alolan raichu" :> "alolan-raichu"
  @@ "raichu-alola" :> "raichu-alola" @@ "charizard" :> "charizard"
  @@ "Glurak" :> "glurak" @@ "glurak" :> "glurak" @@ "flabébé" :> "flabebe"
  @@ "Flabebe" :> "flabebe" @@ "charizrad" :> "charizrad"
  @@ "charizard x" :> "charizard-x" @@ "altaria" :> "altaria"
  @@ "mega charizard x" :> "mega-charizard-x" @@ "mega altaria" :> "mega-altaria"
  @@ "charizard-mega-x" :> "charizard-mega-x" @@ "pikachu" :> "pikachu"
  @@ [j \in Japanese |-> ""]

SomePrefixed == {<<"mega charizard x", "charizard x">>, <<"mega altaria", "altaria">>}
SomeSuffixed == {<<"charizard-mega-x", "charizard">>}
SomeClose == {<<"charizrad", "charizard">>, <<"charizard-x", "charizard">>}

SomeTexts == DOMAIN Keyed

\* What each text means to its writer: entries, or a Mega form.
Meanings ==
  "raichu" :> {"raichu"} @@ "alolan raichu" :> {"alolan-raichu"}
  @@ "raichu-alola" :> {"alolan-raichu"} @@ "charizard" :> {"charizard"}
  @@ "Glurak" :> {"charizard"} @@ "glurak" :> {"charizard"} @@ "flabébé" :> {"flabebe"}
  @@ "Flabebe" :> {"flabebe"} @@ "charizrad" :> {"charizard"} @@ "pikachu" :> {}
  @@ "altaria" :> {"altaria"} @@ "charizard x" :> {"charizard"} @@ "チルタリス" :> {"altaria"}
  @@ "ライチュウ" :> {"raichu", "alolan-raichu"} @@ "リザードン" :> {"charizard"}
  @@ "フラベベ" :> {"flabebe"} @@ "ピカチュウ" :> {}

MegasMeant == "mega charizard x" :> "Mega Charizard X" @@ "mega altaria" :> "Mega Altaria"
  @@ "charizard-mega-x" :> "Mega Charizard X"

Lookup == INSTANCE NameLookup WITH
  Mirrors <- SomeMirrors, MegaForms <- SomeMegaNames, Texts <- SomeTexts, KeyOf <- Keyed,
  Prefixed <- SomePrefixed, Suffixed <- SomeSuffixed, Close <- SomeClose, Means <- Meanings,
  MegaMeant <- MegasMeant, NoKey <- "", NoSlug <- "none", answer <- named

-----------------------------------------------------------------------------
(* Roles of the catalogue with some of their aliases, and phrases beside    *)
(* theirs.                                                                  *)
Role(id, aliases) == [id |-> id, name |-> id, aliases |-> aliases]

SomeRoles == {
  Role(<<"physical", "-", "wall">>, <<<<"physical", "-", "tank">>>>),
  Role(<<"physical", "-", "wall", "breaker">>,
    <<<<"wall", "breaker">>, <<"physical", "-", "breaker">>, <<"breaker">>>>),
  Role(<<"tank">>, <<<<"semi", "-", "wall">>>>),
  Role(<<"stall", "breaker">>, <<<<"anti", "-", "stall">>, <<"taunt", "-", "user">>>>),
  Role(<<"disruptor">>, <<<<"taunt", "-", "user">>, <<"encore", "-", "user">>>>)}

OtherPhrases == {
  <<"wall">>, <<"taunt">>, <<"user">>, <<"stall">>, <<"physical">>, <<"nuke">>, <<>>,
  <<"tank", "-", "user">>, <<"wall", "-", "breaker">>, <<"semi", "-", "wall", "breaker">>}

RoleNames == INSTANCE RoleLookup WITH
  Roles <- SomeRoles, Phrases <- OtherPhrases, NoRole <- << >>, answer <- described

ASSUME RoleNames!RoleAssumption

-----------------------------------------------------------------------------
(* The real nature multipliers with the cap of seven points.                *)
Plain == [stage |-> 0, scarf |-> FALSE, ability |-> FALSE, tailwind |-> FALSE,
          paralyzed |-> FALSE]
SomeMods == {Plain, [Plain EXCEPT !.stage = -1, !.scarf = TRUE, !.paralyzed = TRUE],
           [Plain EXCEPT !.stage = 7, !.tailwind = TRUE, !.ability = TRUE, !.paralyzed = TRUE]}
SomeBases == {20, 29}
SomeAsked == {<<"serious", "jolly">>, <<"brave", "serious", "jolly">>}

-----------------------------------------------------------------------------
readsVars == <<build_teams, build_members, found>>
namesVars == <<mirror, named>>
rolesVars == <<catalogue, loaded, lookup, asked, described>>
mcVars == <<part, vars, readsVars, playedVars, namesVars, rolesVars, thresholdVars>>

MCInit ==
  /\ part \in {"team", "reads", "played", "names", "roles", "speed"}
  /\ Init /\ ThresholdInit
  /\ IF part = "reads" THEN Reads!Init
     ELSE build_teams = << >> /\ build_members = {} /\ found = [tool |-> "none"]
  /\ IF part = "played" THEN PlayedInit ELSE usage = << >> /\ answers = {}
  /\ IF part = "names" THEN Lookup!Init ELSE mirror = << >> /\ named = Lookup!NoAnswer
  /\ IF part = "roles" THEN RoleNames!Init
     ELSE /\ catalogue = << >> /\ loaded = 0 /\ lookup = << >>
          /\ asked = << >> /\ described = RoleNames!NoAnswer

MCNext ==
  \/ /\ part = "team" /\ Next
     /\ UNCHANGED <<part, readsVars, playedVars, namesVars, rolesVars, thresholdVars>>
  \/ /\ part = "reads" /\ Reads!Next
     /\ UNCHANGED <<part, vars, playedVars, namesVars, rolesVars, thresholdVars>>
  \/ /\ part = "played" /\ PlayedNext
     /\ UNCHANGED <<part, vars, readsVars, namesVars, rolesVars, thresholdVars>>
  \/ /\ part = "names" /\ Lookup!Next
     /\ UNCHANGED <<part, vars, readsVars, playedVars, rolesVars, thresholdVars>>
  \/ /\ part = "roles" /\ RoleNames!Next
     /\ UNCHANGED <<part, vars, readsVars, playedVars, namesVars, thresholdVars>>
  \/ /\ part = "speed" /\ ThresholdNext
     /\ UNCHANGED <<part, vars, readsVars, playedVars, namesVars, rolesVars>>

MCSpec == MCInit /\ [][MCNext]_mcVars

-----------------------------------------------------------------------------
\* What the tools say of the corpus is what its teams brought (ReadsSound of
\* ObservedReads).
ReadsSound == part = "reads" => Reads!ReadsSound

\* A caller is answered for the Pokemon, the Mega or the role that is named
\* (NameFound of NameLookup, RoleFound of RoleLookup).
NamesFound ==
  CASE part = "names" -> Lookup!NameFound
    [] part = "roles" -> RoleNames!RoleFound
    [] OTHER -> TRUE
=============================================================================
