------------------------------ MODULE NameLookup ------------------------------
(***************************************************************************)
(* How a tool call's Pokemon name becomes a row of the mirror (names.py,   *)
(* Db.resolve_slug, profiles.resolve_entity) and what the Pokedex tools    *)
(* answer for it: the entry, or the Mega form the name stands for.         *)
(*                                                                         *)
(* A name is a text.  KeyOf is what slugify and normalize_key leave of it: *)
(* lower-case Latin letters and digits, nothing of a Japanese name.  An    *)
(* entry has a slug, its two English names and the localized ones.         *)
(***************************************************************************)
EXTENDS Integers, Sequences, FiniteSets, SequencesExt

CONSTANTS
  Mirrors,       \* sequences of entries [slug, names, local], as in the table
  MegaForms,     \* records [name, key, base, stone]
  Texts,         \* what a caller may ask for
  KeyOf,         \* [Texts and names -> keys]
  Prefixed,      \* pairs <<text, what stands behind its "mega " or "primal ">>
  Suffixed,      \* pairs <<key, the key without its Mega ending>>
  Close,         \* pairs <<key, slug>>: spelled nearly alike
  Means,         \* text -> the entries its writer may mean
  MegaMeant,     \* text -> the Mega its writer means
  NoKey, NoSlug

VARIABLES mirror, answer

vars == <<mirror, answer>>

NoAnswer == [tool |-> "none"]

Init == mirror \in Mirrors /\ answer = NoAnswer

Slugs == {mirror[i].slug : i \in DOMAIN mirror}

\* The slug of the first of these entries.
FirstSlug(is) ==
  IF is = {} THEN NoSlug
  ELSE mirror[CHOOSE i \in is : \A j \in is : i <= j].slug

-----------------------------------------------------------------------------
\* normalized comparison
Same(a, b) == KeyOf[a] = KeyOf[b]

\* resolve_slug: slug, then the English names, then any name's key.
ResolveSlug(text) ==
  LET exact == FirstSlug({i \in DOMAIN mirror : text \in mirror[i].names})
      like == FirstSlug({i \in DOMAIN mirror :
                           \E n \in mirror[i].names \cup mirror[i].local : Same(n, text)})
  IN  IF KeyOf[text] \in Slugs THEN KeyOf[text]
      ELSE IF exact # NoSlug THEN exact ELSE like

\* A Mega's base species: its name behind the prefix.
ByPrefix(text) ==
  LET rest == {p \in Prefixed : p[1] = text} IN
  IF rest = {} THEN NoSlug ELSE ResolveSlug((CHOOSE p \in rest : TRUE)[2])

BySuffix(text) ==
  LET bases == {p \in Suffixed : p[1] = KeyOf[text] /\ p[2] \in Slugs} IN
  IF bases = {} THEN NoSlug ELSE (CHOOSE p \in bases : TRUE)[2]

\* get_close_matches, the nearest one
ByLikeness(text) ==
  LET near == {p \in Close : p[1] = KeyOf[text] /\ p[2] \in Slugs} IN
  IF near = {} THEN NoSlug ELSE (CHOOSE p \in near : TRUE)[2]

\* resolve; NoSlug stands for the NameError
Resolve(text) ==
  LET found == SelectSeq(<<ResolveSlug(text), ByPrefix(text), BySuffix(text),
                           ByLikeness(text)>>, LAMBDA s : s # NoSlug)
  IN  IF found = <<>> THEN NoSlug ELSE found[1]

\* _entities: the roster and every Mega form of it.
Megas == {m \in MegaForms : m.base \in Slugs}

\* Fault: the ordinary resolver is asked first.
FaultyResolveEntity(text) ==
  IF Resolve(text) # NoSlug THEN Resolve(text)
  ELSE IF KeyOf[text] \in {m.key : m \in Megas} THEN KeyOf[text] ELSE NoSlug

\* resolve_entity
ResolveEntity(text) ==
  IF KeyOf[text] \in Slugs \cup {m.key : m \in Megas} THEN KeyOf[text] ELSE Resolve(text)

\* The record a tool answers with: a Mega's own, else the entry's.
RecordOf(text) ==
  LET ms == {m \in Megas : m.key = ResolveEntity(text)} IN
  IF ms # {} THEN [of |-> (CHOOSE m \in ms : TRUE).name, isMega |-> TRUE]
  ELSE IF Resolve(text) # NoSlug THEN [of |-> Resolve(text), isMega |-> FALSE]
  ELSE [of |-> NoSlug, isMega |-> FALSE]

GetPokemon(text) == answer' = [tool |-> "get_pokemon", asked |-> text, record |-> RecordOf(text)]

GetWeaknesses(text) ==
  answer' = [tool |-> "get_pokemon_weaknesses", asked |-> text, record |-> RecordOf(text)]

Next ==
  /\ answer = NoAnswer
  /\ \E text \in Texts : GetPokemon(text) \/ GetWeaknesses(text)
  /\ UNCHANGED mirror

Spec == Init /\ [][Next]_vars

-----------------------------------------------------------------------------
Asked(texts) == answer # NoAnswer /\ answer.asked \in texts
Latin(text) == KeyOf[text] # NoKey

\* A name written in Latin letters, in any language, with or without accents
\* or with a small error, is answered for an entry it names, and one of no
\* entry is an error.
LatinNameFound ==
  Asked({t \in DOMAIN Means : Latin(t)}) =>
    IF Means[answer.asked] \cap Slugs = {} THEN answer.record.of = NoSlug
    ELSE answer.record.of \in Means[answer.asked]

\* "Mega X" is answered with the Mega's own record by both tools, although
\* the ordinary resolver takes it for the base species or a similar name.
MegaForItself ==
  Asked({p[1] : p \in Prefixed}) =>
    answer.record = [of |-> MegaMeant[answer.asked], isMega |-> TRUE]

\* A caller who names a Pokemon or a Mega is answered for that one.
NameFound == LatinNameFound /\ MegaForItself

-----------------------------------------------------------------------------
(* What docs say and the code does not keep.                                *)

\* A localized name is answered for an entry that has it.
LocalizedFound ==
  Asked({t \in DOMAIN Means : ~Latin(t)}) => answer.record.of \in Means[answer.asked] \cup {NoSlug}

\* Each way to write a Mega's name is answered for the Mega.
MegaAnswersForMega ==
  Asked(DOMAIN MegaMeant) => answer.record.isMega
=============================================================================
