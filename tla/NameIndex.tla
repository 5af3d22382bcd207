------------------------------ MODULE NameIndex ------------------------------
(***************************************************************************)
(* The names a team list is read with (pull/builds.py), built on the       *)
(* roster of RosterBuild once it is complete: the Japanese names of pokedb *)
(* with their form, the English names of Limitless, the Japanese names of  *)
(* the Mega Stones, which PokeAPI has for some only.                       *)
(*                                                                         *)
(* A Japanese species name is the species itself; a Japanese stone name is *)
(* a pair <<species, letter>>, the letter "" where the name has none.  An  *)
(* English name is a record [key, mega]: the key as normalize_key leaves   *)
(* it, and the Mega ending after it, "none" where there is none.           *)
(***************************************************************************)
EXTENDS RosterBuild

CONSTANTS
  Tokens,        \* [slug -> token its Showdown name ends in, "" for none]
  Keys,          \* [slug -> sequence of the normalised slug, name, Showdown name]
  Aliases,       \* pairs <<key, slug>>: LIMITLESS_ALIASES
  Canonical,     \* pairs <<Japanese stone name, stone>>: what PokeAPI has
  NoSlug, NoToken,
  StoneFor,      \* [form -> the stone that really unlocks it]
  JaNameOf       \* [stone -> its real Japanese name]

VARIABLES byJa, byEn, jaItems      \* the indexes of a BuildIngest

vars == <<buildVars, byJa, byEn, jaItems>>

IndexInit == Init /\ byJa = <<>> /\ byEn = <<>> /\ jaItems = <<>>

-----------------------------------------------------------------------------
\* _roster_index
JaIndex ==
  [j \in {r.ja : r \in ToSet(pokemon)} \ {NoName} |->
     SelectSeq([i \in DOMAIN pokemon |-> pokemon[i].slug],
               LAMBDA s : \E r \in ToSet(pokemon) : r.slug = s /\ r.ja = j)]

\* setdefault: the first row that claims a key has it.
EnIndex ==
  [k \in UNION {ToSet(Keys[r.slug]) : r \in ToSet(pokemon)} |->
     LET i == CHOOSE n \in DOMAIN pokemon :
                /\ k \in ToSet(Keys[pokemon[n].slug])
                /\ \A m \in 1..(n - 1) : k \notin ToSet(Keys[pokemon[m].slug])
     IN  pokemon[i].slug]

\* The stones of all rows of a species, one for each form they unlock.
StoneNames(j) == {f \in megaForms : f.stone # NoStone /\ f.slug \in ToSet(JaIndex[j])}

Letter(stone) == (CHOOSE s \in items : s.name = stone).letter

\* PokeAPI is asked for the items of the roster only.
Real == {c \in Canonical : \E s \in items : s.name = c[2]}

\* A guess is added only where no name stands.
Adds(key) == \A c \in Real : c[1] # key

\* The species' name and the stone's letter, or no letter where the species
\* has one stone only.
Guesses(j) ==
  {<<<<j, Letter(f.stone)>>, f.stone>> :
     f \in {x \in StoneNames(j) : Letter(x.stone) \in {"x", "y"}}}
  \cup {<<<<j, "">>, f.stone>> :
     f \in {x \in StoneNames(j) : Cardinality(StoneNames(j)) = 1}}

\* _ja_item_index
JaItemIndex ==
  LET added == {p \in UNION {Guesses(j) : j \in DOMAIN JaIndex} : Adds(p[1])}
      all == added \cup {c \in Real : \A p \in added : p[1] # c[1]}
  IN  [k \in {p[1] : p \in all} |-> (CHOOSE p \in all : p[1] = k)[2]]

\* BuildIngest.__init__, after the names and the Mega forms are written.
StartIngest ==
  /\ stage = "enriched"
  /\ stage' = "indexed"
  /\ byJa' = JaIndex /\ byEn' = EnIndex /\ jaItems' = JaItemIndex
  /\ UNCHANGED <<site, pages, tables>>

Next ==
  \/ BuildNext /\ UNCHANGED <<byJa, byEn, jaItems>>
  \/ StartIngest

Spec == IndexInit /\ [][Next]_vars

-----------------------------------------------------------------------------
\* The entries whose Showdown name has no form in it.
Plain(slugs) == SelectSeq(slugs, LAMBDA s : Tokens[s] = "")

\* resolve_ja: one entry needs no form; else its token must be known.
ResolveJa(ja, token) ==
  LET cands == IF ja \in DOMAIN byJa THEN byJa[ja] ELSE <<>>
      ends == SelectSeq(cands, LAMBDA s : Tokens[s] = token)
  IN  IF cands = <<>> THEN NoSlug
      ELSE IF Len(cands) = 1 THEN cands[1]
      ELSE IF token = NoToken THEN NoSlug
      ELSE IF token # "" THEN IF ends = <<>> THEN NoSlug ELSE ends[1]
      ELSE IF Plain(cands) # <<>> THEN Plain(cands)[1] ELSE cands[1]

Lookup(key) ==
  IF key \in DOMAIN byEn THEN byEn[key]
  ELSE IF \E a \in Aliases : a[1] = key THEN (CHOOSE a \in Aliases : a[1] = key)[2]
  ELSE NoSlug

\* _MEGA_SUFFIX_RE: -mega, -mega-x, -mega-y
Stripped(n) == n.mega \in {"plain", "x", "y"}

\* _resolve_en: the name, then an alias, then what stands before a Mega ending.
ResolveEn(n) == IF n.mega = "none" \/ Stripped(n) THEN Lookup(n.key) ELSE NoSlug

\* BuildIngest._item: a Z stone is its base stone's name and a Z.
JaItem(name) ==
  LET base == <<name[1], "">>
      zs == {s \in items : s.letter = "z" /\ \E b \in items :
               b.name = jaItems[base] /\ b.letter = "" /\ b.species = s.species}
  IN  IF name \in DOMAIN jaItems THEN jaItems[name]
      ELSE IF name[2] = "z" /\ base \in DOMAIN jaItems /\ zs # {}
      THEN (CHOOSE s \in zs : TRUE).name ELSE NoStone
-----------------------------------------------------------------------------
Built == stage \in {"megas", "enriched", "indexed"}


\* The usage stored for a Pokemon comes from its own page, in each of the
\* two formats, whatever the order the pages arrived in.
UsageOfOwnPage ==
  stage \in {"usage", "megas", "enriched", "indexed"} =>
    {<<u.slug, u.fmt, u.page>> : u \in usage} =
      {<<r.slug, f, r.slug>> : r \in ToSet(pokemon), f \in {"singles", "doubles"}}

\* Each move of a learnset is in the movepool with a row of moves, the full
\* one where the site has it, or is counted as skipped.
MovesAccounted ==
  stage # "start" /\ stage # "failed" =>
    /\ \A p \in learnable : p[2] \in DOMAIN moves
    /\ \A m \in DOMAIN moves : moves[m] = Full <=> m \in fullMoves
    /\ Cardinality(learnable) + skipped =
         Cardinality(UNION {{e.slug} \X e.learns : e \in ToSet(BaseEntries)})

\* Each legal Mega form has one row, on the entry of its species with the
\* lowest form number, also where no form is numbered 0.
MegaOnItsSpecies ==
  Built => \A e \in MegaEntries :
    \E m \in megaForms : {x \in megaForms : x.form = e.name} = {m}
      /\ m.slug = Lowest(Siblings(e)).slug

\* Each Mega form is stored with the stone that really unlocks it.
EachMegaItsStone == Built => \A m \in megaForms : m.stone = StoneFor[m.form]

\* A Pokemon is found by each of its English names, and by its Japanese name
\* and form when PokeAPI has the species: both sources mean the same entry.
SourcesAgree ==
  stage = "indexed" => \A r \in ToSet(pokemon) :
    /\ \A k \in ToSet(Keys[r.slug]) : ResolveEn([key |-> k, mega |-> "none"]) = r.slug
    /\ r.ja # NoName => ResolveJa(r.ja, Tokens[r.slug]) = r.slug

\* The Japanese name of a stone is never read as another stone.
StoneNotMistaken ==
  stage = "indexed" => \A s \in items : JaItem(JaNameOf[s.name]) \in {s.name, NoStone}

\* Every source of the mirror means the same entry by the same name, and each
\* entry has its own usage, moves, Mega forms and stones.
NamesSound ==
  /\ UsageOfOwnPage /\ MovesAccounted /\ MegaOnItsSpecies /\ EachMegaItsStone
  /\ SourcesAgree /\ StoneNotMistaken
=============================================================================
