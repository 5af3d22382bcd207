---------------------------- MODULE MetaOpponents ----------------------------
(***************************************************************************)
(* The opponents of a simulation (BattleSimulator in sim.py): complete     *)
(* teams of players' reports first, then observed teams, completed from    *)
(* usage where the records lack moves or spreads, and VGC teams when a BSS *)
(* pool stays short.  An opponent named later by its id is built again.    *)
(*                                                                         *)
(* A database has the rows of full_teams and build_teams (sequences, in    *)
(* the order of the table), the members of each team id, and the usage of  *)
(* each species and format: its moves and its spread, <<>> or NoSpread     *)
(* where the table has no row.  Ability and nature are completed as the    *)
(* spread is and are left out.  A query's loop takes its rows one by one,  *)
(* in the order it asks for; a pool takes up to three queries.             *)
(***************************************************************************)
EXTENDS Selection, SequencesExt

CONSTANTS
  Databases,
  Roster,       \* species of Champions
  Learns,       \* [Roster -> moves]
  Items,        \* items of Champions
  ChoiceItems, StatusMoves,
  TeamSize, MovesPerMember,  \* six, four
  MaxLimit,     \* bound: opponents asked for
  NoSpread, Fallback        \* no usage row; _FALLBACK_SPREAD

Formats == {"singles", "doubles"}

\* What a team recorded of its members.
AreMembers(team) ==
  /\ team \in Seq(ToSet(team))
  /\ \A i \in DOMAIN team :
       LET m == team[i] IN
       m = [species |-> m.species, item |-> m.item, moves |-> m.moves, spread |-> m.spread]

\* team_id is the key of both tables, those of reports are told apart by their
\* prefix, and a report is stored with all its members only.  Ratings are taken as
\* whole numbers, 0 where there is none, as for ranks.
Stored(d) ==
  LET full == ToSet(d.full)  teams == ToSet(d.teams) IN
  /\ d.full \in Seq(full) /\ d.teams \in Seq(teams)
  /\ \A r \in full : r.rating \in Nat /\ r.rank \in Nat /\ Len(d.members[r.id]) = TeamSize
  /\ \A r \in teams : r.format \in Formats
  /\ \A r \in full \cup teams : AreMembers(d.members[r.id])
  /\ \A i, j \in DOMAIN d.full : d.full[i].id = d.full[j].id => i = j
  /\ \A i, j \in DOMAIN d.teams : d.teams[i].id = d.teams[j].id => i = j
  /\ \A r \in full, t \in teams : r.id # t.id
  /\ \A slug \in Roster, fmt \in Formats :
       d.moves[slug][fmt] \in Seq(ToSet(d.moves[slug][fmt]))

ASSUME DatabasesAssumption == \A d \in Databases : Stored(d)
ASSUME SpreadAssumption == Fallback # NoSpread
ASSUME CountsAssumption == MovesPerMember \in Nat /\ MaxLimit \in Nat

VARIABLES
  db,
  want,        \* the pool asked for: format and limit
  source,      \* where rows come from: "report", a format, or "none"
  remaining,   \* rows of the query not taken yet
  found,       \* what the query made of the others
  digests,     \* team_hash of the lists found
  opponents,   \* the pool
  rematch      \* an opponent that was named by its id, and what was built

opponentsVars == <<db, want, source, remaining, found, digests, opponents, rematch>>

NoRematch == <<>>

OpponentsInit ==
  /\ db \in Databases
  /\ want = [format |-> "singles", limit |-> 0] /\ source = "none"
  /\ remaining = {} /\ found = <<>> /\ digests = {} /\ opponents = <<>> /\ rematch = NoRematch

Other(fmt) == IF fmt = "doubles" THEN "singles" ELSE "doubles"

FirstOf(s, n) == Select(s, {i \in DOMAIN s : i <= n})

-----------------------------------------------------------------------------
\* modal_spread by _usage_top: this format's, else the other's, else a default.
ModalSpread(slug, fmt) ==
  LET rows == {f \in Formats : db.spread[slug][f] # NoSpread} IN
  IF fmt \in rows THEN db.spread[slug][fmt]
  ELSE IF rows # {} THEN db.spread[slug][Other(fmt)] ELSE Fallback

\* A Choice item locks its holder into a move, so status moves are skipped.
Usable(item, mv) == ~(item \in ChoiceItems /\ mv \in StatusMoves)

UsageMoves(slug, fmt, item) ==
  LET top(f) == FirstOf(Select(db.moves[slug][f],
                               {i \in DOMAIN db.moves[slug][f] : Usable(item, db.moves[slug][f][i])}),
                        MovesPerMember)
  IN  IF top(fmt) # <<>> THEN top(fmt) ELSE top(Other(fmt))

\* member_problem: a typo or an entry Champions does not allow.
MemberProblem(m) ==
  \/ m.species \notin Roster \/ m.item \notin Items
  \/ ~(ToSet(m.moves) \subseteq Learns[m.species])

\* complete_member: a spread is filled in where none was recorded.
CompleteMember(m, fmt) ==
  IF m.spread = NoSpread THEN [m EXCEPT !.spread = ModalSpread(m.species, fmt)] ELSE m

Playable(team) == \A i \in DOMAIN team : ~MemberProblem(team[i]) /\ team[i].moves # <<>>

\* team_paste of a team: its members, completed.
TeamPaste(team, fmt) == [i \in DOMAIN team |-> CompleteMember(team[i], fmt)]

Label(team) == [i \in DOMAIN team |-> team[i].species]

Entry(row, team, fmt) ==
  IF Playable(team)
  THEN <<[id |-> row.id, label |-> Label(team), from |-> row.from, paste |-> TeamPaste(team, fmt)]>>
  ELSE <<>>

\* _full_team_entry: as the player published it.
FullTeamEntry(row) == Entry([id |-> row.id, from |-> "report"], db.members[row.id], row.format)

WholeTeam(team) == Len(team) = TeamSize

\* _corpus_team_entry: six members, whose items all resolved; no moves recorded
\* means the usual ones.
CorpusTeamEntry(row, fmt) ==
  LET team == db.members[row.id]
      filled == [i \in DOMAIN team |->
                   IF team[i].moves # <<>> \/ team[i].species \notin Roster THEN team[i]
                   ELSE [team[i] EXCEPT !.moves = UsageMoves(team[i].species, fmt, team[i].item)]]
  IN  IF WholeTeam(team) THEN Entry([id |-> row.id, from |-> row.format], filled, fmt) ELSE <<>>

-----------------------------------------------------------------------------
(* The queries *)

Later(x, y) == y # 0 /\ (x = 0 \/ x > y)

\* Highest rating first; without a rating by rank, and the unranked last.
Before(x, y) ==
  \/ x.rating > y.rating
  \/ x.rating = y.rating /\ Later(y.rank, x.rank)

\* The row that ORDER BY gives next of those remaining; rows that tie keep the order of
\* the table.
NextReport(i) ==
  \A j \in remaining \ {i} :
    \/ Before(db.full[i], db.full[j])
    \/ ~Before(db.full[j], db.full[i]) /\ i < j

NextTeam(i) ==
  \A j \in remaining \ {i} :
    \/ db.teams[i].weight > db.teams[j].weight
    \/ db.teams[i].weight = db.teams[j].weight /\ i < j

Labels == {opponents[i].label : i \in DOMAIN opponents}
Room == want.limit - Len(opponents)

\* The limit a query is given; the teams of species seen will be dropped.
Quota == IF source = want.format THEN Room + Cardinality(Labels) ELSE Room

Finished == Len(found) >= Quota \/ remaining = {}

AskReports(fmt) ==
  /\ source' = "report" /\ remaining' = {i \in DOMAIN db.full : db.full[i].format = fmt}
  /\ found' = <<>> /\ digests' = {}

AskTeams(fmt) ==
  /\ source' = fmt /\ remaining' = {i \in DOMAIN db.teams : db.teams[i].format = fmt}
  /\ found' = <<>> /\ digests' = {}

Return == source' = "none" /\ remaining' = {} /\ found' = <<>> /\ digests' = {}

\* meta_opponents: report teams, observed teams of other species, VGC teams.
MetaOpponents(fmt, limit) ==
  /\ source = "none"
  /\ want' = [format |-> fmt, limit |-> limit] /\ opponents' = <<>> /\ rematch' = NoRematch
  /\ AskReports(fmt)
  /\ UNCHANGED db

\* _full_teams, a row.
TakeReport ==
  /\ source = "report" /\ ~Finished
  /\ \E i \in remaining :
       /\ NextReport(i)
       /\ remaining' = remaining \ {i} /\ found' = found \o FullTeamEntry(db.full[i])
  /\ UNCHANGED <<db, want, source, digests, opponents, rematch>>

\* Fault: a list counts again for every event it was entered at.
FaultyRepeated(row) == FALSE

\* The list was taken from an earlier row already.
Repeated(row) == row.hash \in digests

\* _corpus_teams, a row.
TakeTeam ==
  /\ source \in Formats /\ ~Finished
  /\ \E i \in remaining :
       LET row == db.teams[i]
           entry == IF Repeated(row) THEN <<>> ELSE CorpusTeamEntry(row, source)
       IN  /\ NextTeam(i)
           /\ remaining' = remaining \ {i} /\ found' = found \o entry
           /\ digests' = IF entry = <<>> THEN digests ELSE digests \cup {row.hash}
  /\ UNCHANGED <<db, want, source, opponents, rematch>>

\* VGC teams, if a BSS pool is short.
AskVgc ==
  IF Len(opponents') < want.limit /\ want.format = "singles" THEN AskTeams("doubles") ELSE Return

AddReports ==
  /\ source = "report" /\ Finished
  /\ opponents' = found
  /\ IF Len(found) < want.limit THEN AskTeams(want.format) ELSE Return
  /\ UNCHANGED <<db, want, rematch>>

AddTeams ==
  /\ source = want.format /\ Finished
  /\ opponents' = opponents \o
       FirstOf(Select(found, {i \in DOMAIN found : found[i].label \notin Labels}), Room)
  /\ AskVgc
  /\ UNCHANGED <<db, want, rematch>>

AddVgc ==
  /\ source \in Formats \ {want.format} /\ Finished
  /\ opponents' = opponents \o found
  /\ Return
  /\ UNCHANGED <<db, want, rematch>>

-----------------------------------------------------------------------------
\* beliefs: the spread a player assumes a species has, hidden on open sheets.
Belief(slug, fmt) == ModalSpread(slug, fmt)

\* team_by_id: an opponent of the pool, built again by its id.
TeamById(id) ==
  LET full == {i \in DOMAIN db.full : db.full[i].id = id}
      row == db.teams[CHOOSE i \in DOMAIN db.teams : db.teams[i].id = id]
  IN  IF full # {} THEN FullTeamEntry(db.full[CHOOSE i \in full : TRUE])
      ELSE CorpusTeamEntry(row, row.format)

Rematch ==
  /\ source = "none"
  /\ \E i \in DOMAIN opponents :
       rematch' = [entry |-> opponents[i], again |-> TeamById(opponents[i].id)]
  /\ UNCHANGED <<db, want, source, remaining, found, digests, opponents>>

OpponentsNext ==
  \/ \E fmt \in Formats, limit \in 1 .. MaxLimit : MetaOpponents(fmt, limit)
  \/ TakeReport \/ TakeTeam
  \/ AddReports \/ AddTeams \/ AddVgc
  \/ Rematch

OpponentsSpec == OpponentsInit /\ [][OpponentsNext]_opponentsVars

-----------------------------------------------------------------------------
Drawn == ToSet(opponents)

\* Nothing the simulator's validator would drop at request time enters the pool:
\* whole teams of Champions species and items, and of moves the species learn,
\* also where usage filled them in; what usage gave a Choice holder attacks.
PoolPlayable ==
  \A t \in Drawn :
    /\ Len(t.paste) = TeamSize
    /\ \A i \in DOMAIN t.paste :
         LET m == t.paste[i] IN
         /\ m.species \in Roster /\ m.item \in Items /\ m.spread # NoSpread
         /\ m.moves # <<>> /\ ToSet(m.moves) \subseteq Learns[m.species]
         /\ db.members[t.id][i].moves = <<>> =>
              \A mv \in ToSet(m.moves) : ~(m.item \in ChoiceItems /\ mv \in StatusMoves)

HashOf(id) == {db.teams[i].hash : i \in {j \in DOMAIN db.teams : db.teams[j].id = id}}

\* No opponent plays twice, under its id, as the same list entered at another
\* event of its format, or as the observed copy of a published team.
PoolDistinct ==
  \A i, j \in DOMAIN opponents : i # j =>
    LET x == opponents[i]  y == opponents[j] IN
    /\ x.id # y.id
    /\ x.from = y.from /\ HashOf(x.id) = HashOf(y.id) => HashOf(x.id) = {}
    /\ x.from = "report" /\ y.from = want.format => x.label # y.label

\* No playable report team is left out for one of a lower final rating.
BestReports ==
  \A i, j \in DOMAIN db.full :
    /\ db.full[i].format = want.format /\ db.full[j].format = want.format
    /\ db.full[i].rating > db.full[j].rating /\ Playable(db.members[db.full[i].id])
    /\ \E t \in Drawn : t.id = db.full[j].id
    => \E t \in Drawn : t.id = db.full[i].id

\* The opponent named by an id is "built exactly as the meta simulation played it"
\* (team_by_id), whatever the format of the call it came from.
RematchIsSame == rematch # NoRematch => rematch.again = <<rematch.entry>>

\* An observed opponent of the call's format that recorded no spread has the one
\* its players are assumed to have, so that hiding spreads does not mislead.
SpreadsAsAssumed ==
  \A t \in Drawn : t.from = want.format =>
    \A i \in DOMAIN t.paste :
      db.members[t.id][i].spread = NoSpread =>
        t.paste[i].spread = Belief(t.paste[i].species, want.format)

\* An opponent pool is fair, while it is put together and when it is done: playable,
\* without repetition, the best reports first, reproducible by id, and played as
\* the other side is told.
OpponentsSound ==
  PoolPlayable /\ PoolDistinct /\ BestReports /\ RematchIsSame /\ SpreadsAsAssumed

\* meta_opponents: "the pool is topped up with VGC teams only if there aren't
\* enough": no VGC team is added while an observed BSS team that could play, of
\* other species than the report teams', is left out.
VgcOnlyIfShort ==
  (\E t \in Drawn : want.format = "singles" /\ t.from = "doubles") =>
    \A i \in DOMAIN db.teams :
      LET e == CorpusTeamEntry(db.teams[i], "singles") IN
      db.teams[i].format = "singles" /\ e # <<>> =>
        \E t \in Drawn :
          HashOf(t.id) = {db.teams[i].hash} \/ (t.from = "report" /\ t.label = e[1].label)
=============================================================================
