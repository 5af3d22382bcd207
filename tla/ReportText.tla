----------------------------- MODULE ReportText ------------------------------
(***************************************************************************)
(* How the sets of a team are read out of the text of an article           *)
(* (parse_freeform in src/champions_mcp/pull/reports_extract.py): for each *)
(* Pokémon a place where its section seems to begin, then everything up to *)
(* the next one's place is taken for its set.                              *)
(*                                                                         *)
(* A text is a sequence of lines, and distances are counted in lines. A    *)
(* line mentions Pokémon, as a heading or in prose, or states a fact of a  *)
(* set. "of" is the Pokémon its writer had in mind, or Nobody.             *)
(***************************************************************************)
EXTENDS Integers, Sequences, FiniteSets, SequencesExt

CONSTANTS
  Team,          \* sequence of Pokémon
  Names,         \* sets of Pokémon that a mention may be read as
  Kinds,         \* fields of a set, "moves" among them
  Nobody,
  Apart,         \* 40 characters in the code
  Ahead,         \* 400
  Enough,        \* 6
  HeadLength,    \* 700
  SectionLength, \* 1600
  MaxLines, MaxHeads, MaxProse   \* bounds on the text

\* Only names of the team are looked for.
ASSUME TextAssumption ==
  /\ Team \in Seq(UNION Names) /\ Names \subseteq SUBSET ToSet(Team) /\ Nobody \notin ToSet(Team)
  /\ "moves" \in Kinds /\ Kinds \cap {"heading", "prose"} = {}
  /\ {Apart, Ahead, Enough, HeadLength, SectionLength} \subseteq Nat \ {0}

VARIABLES
  text,    \* the lines, as they are written
  textPc,  \* writing, choosing or read
  chosen,  \* per member of the team that has been looked for, its place or 0
  sets     \* per member a function from fields to lines, or << >> for none

textVars == <<text, textPc, chosen, sets>>

Mentions(i) == text[i].kind \in {"heading", "prose"}
Facts == {i \in DOMAIN text : text[i].kind \in Kinds}
Places(kind) == {i \in DOMAIN text : text[i].kind = kind}
Writing == IF Places("heading") = {} THEN {Nobody} ELSE text[Max(Places("heading"))].who

TextInit == text = << >> /\ textPc = "writing" /\ chosen = << >> /\ sets = << >>

-----------------------------------------------------------------------------
(* Somebody writes an article. *)

Mention(kind, who) == [kind |-> kind, who |-> who, of |-> Nobody]
Fact(kind, of) == [kind |-> kind, who |-> {}, of |-> of]

Write ==
  /\ textPc = "writing" /\ Len(text) < MaxLines
  /\ \/ Cardinality(Places("heading")) < MaxHeads
        /\ \E who \in Names : text' = Append(text, Mention("heading", who))
     \/ Cardinality(Places("prose")) < MaxProse
        /\ \E who \in Names : text' = Append(text, Mention("prose", who))
     \/ \E kind \in Kinds, of \in Writing : text' = Append(text, Fact(kind, of))
  /\ UNCHANGED <<textPc, chosen, sets>>

Publish == textPc = "writing" /\ textPc' = "choosing" /\ UNCHANGED <<text, chosen, sets>>

-----------------------------------------------------------------------------
(* parse_freeform *)

\* Set vocabulary close after a mention.
SetLike(i) == Cardinality({j \in Facts : i < j /\ j <= i + Ahead})

Candidates(m) == {i \in DOMAIN text : Mentions(i) /\ m \in text[i].who /\ SetLike(i) > 0}

Counted(i) == IF SetLike(i) > Enough THEN Enough ELSE SetLike(i)

\* Fault: headings count no more than prose.
FaultyBetter(i, j) == Counted(i) > Counted(j) \/ (Counted(i) = Counted(j) /\ i < j)

\* The order of _section_starts: headings, much vocabulary, early places.
Better(i, j) ==
  \/ text[i].kind = "heading" /\ text[j].kind # "heading"
  \/ /\ text[i].kind = text[j].kind
     /\ Counted(i) > Counted(j) \/ (Counted(i) = Counted(j) /\ i < j)

\* The places of the next member that are not too close to another one's.
FreePlaces ==
  {i \in Candidates(Team[Len(chosen) + 1]) :
     \A q \in ToSet(chosen) \ {0} : i - q > Apart \/ q - i > Apart}

\* The best of them.
ChooseSection ==
  /\ textPc = "choosing" /\ Len(chosen) < Len(Team)
  /\ chosen' = Append(chosen, IF FreePlaces = {} THEN 0
                              ELSE CHOOSE i \in FreePlaces :
                                     \A j \in FreePlaces \ {i} : Better(i, j))
  /\ UNCHANGED <<text, textPc, sets>>

\* The line after the section of the n-th member.
SectionEnd(n) ==
  Min({chosen[n] + SectionLength} \cup {q \in ToSet(chosen) : q > chosen[n]})

\* The facts of a kind that are read: moves in the whole section, others in its
\* head, an ability only if it is one the species can have.
Seen(n, kind) ==
  {i \in Facts : /\ chosen[n] < i /\ i < SectionEnd(n) /\ text[i].kind = kind
                 /\ kind # "moves" => i < chosen[n] + HeadLength
                 /\ kind = "ability" => text[i].of = Team[n]}

\* The fields found, each by its first fact.
Found(n) == [kind \in {k \in Kinds : Seen(n, k) # {}} |-> Min(Seen(n, kind))]

\* Two fields make a set, or three moves, which the members in rich have.
MakesSet(n, rich) ==
  /\ chosen[n] # 0
  /\ \/ Cardinality(DOMAIN Found(n)) >= 2
     \/ n \in rich /\ "moves" \in DOMAIN Found(n)

Made(rich) == {n \in DOMAIN Team : MakesSet(n, rich)}

\* Two sets make a team.
ReadSets(rich) ==
  /\ textPc = "choosing" /\ Len(chosen) = Len(Team) /\ textPc' = "read"
  /\ sets' = IF Cardinality(Made(rich)) >= 2
             THEN [n \in DOMAIN Team |-> IF n \in Made(rich) THEN Found(n) ELSE << >>]
             ELSE << >>
  /\ UNCHANGED <<text, chosen>>

TextNext ==
  \/ Write \/ Publish \/ ChooseSection
  \/ \E rich \in SUBSET DOMAIN Team : ReadSets(rich)

TextSpec == TextInit /\ [][TextNext]_textVars
-----------------------------------------------------------------------------
Lines(n) == {sets[n][k] : k \in DOMAIN sets[n]}

\* Everybody in a team of different Pokémon has one section of its own, under its
\* name alone, that begins with a heading, goes on with its set and is neither too
\* short nor too long to be seen.
WellWritten ==
  /\ \A m, n \in DOMAIN Team : Team[m] = Team[n] => m = n
  /\ \A n \in DOMAIN Team : \E i \in Places("heading") :
       /\ text[i].who = {Team[n]}
       /\ \A j \in Places("heading") \ {i} : Team[n] \notin text[j].who
       /\ i + 1 \in Facts
  /\ \A i, j \in Places("heading") : i < j => j - i > Apart
  /\ \A i \in Facts : text[i].of # Nobody

\* "A heading-like mention followed by set vocabulary beats a passing mention in
\* running prose": where everybody has a section, whatever is mentioned inside
\* the sections of others, no Pokémon is given a line of another's set.
OwnSetsRead ==
  textPc = "read" /\ WellWritten =>
    \A n \in DOMAIN sets : \A i \in Lines(n) : text[i].of = Team[n]

\* In any text, no line is read into two sets.
NothingReadTwice ==
  textPc = "read" =>
    \A m, n \in DOMAIN sets : m # n => Lines(m) \cap Lines(n) = {}

\* No Pokémon is published with what the text says of another.
TextSound == OwnSetsRead /\ NothingReadTwice
=============================================================================
