--------------------------- MODULE ObservedCorpus ----------------------------
(***************************************************************************)
(* How observed teams get into build_teams, build_members and full_teams:  *)
(* BuildIngest and ingest_builds (pull/builds.py), ingest_reports           *)
(* (pull/reports.py), in a full pull on an empty file or in a refresh of    *)
(* the corpus on a copy of the mirror (pull/__main__.py).                   *)
(*                                                                         *)
(* A Pokémon with its set is a record of Mons; Nowhere stands for the slug *)
(* of a name no index resolves. An event is a record [id, regulation,      *)
(* players, single, weight, standings], its standings a sequence of        *)
(* [player, placing, list]; an export is [season, regulation, fmt, weight, *)
(* lists]; an article is [url, rank, list]. Hashes and ids are the values  *)
(* they digest. build_members has no key: a row says which entry of its    *)
(* source it is of, so two lists under one id have all their rows in it.   *)
(***************************************************************************)
EXTENDS Integers, Sequences, FiniteSets

CONSTANTS
  Events, Exports, Reported,  \* what the upstreams may publish
  Regulations,                \* builds_regulations; empty: no event, every export
  MinPlayers,                 \* builds_min_players
  TeamSize,                   \* six
  AllyMoves, HazardMoves, ProtectMoves,
  Nowhere

Formats == {"singles", "doubles"}

\* Standings and exports are lists, weights and placings numbers.
ASSUME CorpusAssumption ==
  /\ \A ev \in Events :
       /\ ev.weight \in Nat
       /\ ev.standings \in Seq({ev.standings[i] : i \in DOMAIN ev.standings})
       /\ \A i \in DOMAIN ev.standings : ev.standings[i].placing \in Nat
  /\ \A x \in Exports :
       /\ x.weight \in Nat /\ x.fmt \in Formats
       /\ x.lists \in Seq({x.lists[i] : i \in DOMAIN x.lists})
  /\ \A a \in Reported : a.rank \in Nat

VARIABLES
  upstream,       \* what the sites return to this pull
  corpusPc,       \* stage of the pull: idle, ingest, reports
  full,           \* a full build, with its reports, or a refresh
  todo,           \* events and exports not yet added
  teams,          \* BuildIngest.teams, by team id: a later row replaces
  members,        \* BuildIngest.members
  build_teams, build_members, full_teams

ingest == <<teams, members>>
tables == <<build_teams, build_members, full_teams>>
corpusVars == <<upstream, corpusPc, full, todo, ingest, tables>>

NoTeams == [id \in {} |-> 0]

Snapshots == [events : SUBSET Events, exports : SUBSET Exports,
              articles : SUBSET Reported]

CorpusInit ==
  /\ upstream = [events |-> {}, exports |-> {}, articles |-> {}]
  /\ corpusPc = "idle" /\ full = FALSE
  /\ todo = [events |-> {}, exports |-> {}]
  /\ teams = NoTeams /\ members = {}
  /\ build_teams = NoTeams /\ build_members = {} /\ full_teams = NoTeams

-----------------------------------------------------------------------------
\* A list is kept only when every one of its Pokémon resolves.
Resolved(list) == DOMAIN list # {} /\ \A i \in DOMAIN list : list[i].slug # Nowhere

\* The tells of one list: moves for an ally, Protect on three, hazards.
Moves(list) == UNION {list[i].moves : i \in DOMAIN list}
Protects(list) ==
  Cardinality({p \in (DOMAIN list) \X ProtectMoves : p[2] \in list[p[1]].moves})
DoublesScore(list) ==
  Cardinality(Moves(list) \cap AllyMoves) + (IF Protects(list) >= 3 THEN 2 ELSE 0)
SinglesScore(list) == Cardinality(Moves(list) \cap HazardMoves)

Total(score(_), lists) ==
  LET sum[i \in 0 .. Len(lists)] ==
        IF i = 0 THEN 0 ELSE sum[i - 1] + score(lists[i])
  IN  sum[Len(lists)]

ClassifyFormat(ev) ==
  LET given == SelectSeq(ev.standings, LAMBDA e : e.list # <<>>)
      lists == [i \in DOMAIN given |-> given[i].list]
  IN  IF ev.single \/ Total(SinglesScore, lists) > Total(DoublesScore, lists)
      THEN "singles" ELSE "doubles"

\* Twice the weight: recency and field size, times 1 + 0.5 / placing.
ObservationWeight(base, placing) ==
  2 * base + (IF placing = 0 THEN 0 ELSE base \div placing)

TeamHash(list) ==
  [m \in {list[i] : i \in DOMAIN list} |->
     Cardinality({i \in DOMAIN list : list[i] = m})]

Row(source, ref, fmt, evidence, weight, list) ==
  [source |-> source, ref |-> ref, format |-> fmt, evidence |-> evidence,
   weight |-> weight, hash |-> TeamHash(list)]

MemberRows(id, entry, list) ==
  {[id |-> id, entry |-> entry, slot |-> i, mon |-> list[i]] : i \in DOMAIN list}

\* INSERT OR REPLACE into a table with a key.
InsertOrReplace(new, old) ==
  [id \in DOMAIN new \union DOMAIN old |-> IF id \in DOMAIN new THEN new[id] ELSE old[id]]

-----------------------------------------------------------------------------
(* new is the entries of an upstream, [id, row, list] each, in their order. *)
WholeOnes(new) == {i \in DOMAIN new : Resolved(new[i].list)}

\* Of the entries under one id, the last: its row replaces the others'.
LastUnder(new, id) ==
  CHOOSE i \in WholeOnes(new) :
    new[i].id = id /\ \A j \in WholeOnes(new) : new[j].id = id => j <= i

TeamRows(new) == [id \in {new[i].id : i \in WholeOnes(new)} |-> new[LastUnder(new, id)].row]

\* Both lists grow by the whole ones of the entries.
Add(new) ==
  /\ teams' = InsertOrReplace(TeamRows(new), teams)
  /\ members' = members \union UNION {MemberRows(new[i].id, i, new[i].list) : i \in WholeOnes(new)}

EventEntries(ev) ==
  [i \in DOMAIN ev.standings |->
     [id   |-> <<"limitless", ev.id, ev.standings[i].player>>,
      row  |-> Row("limitless", ev.id, ClassifyFormat(ev), "full_set",
                   ObservationWeight(ev.weight, ev.standings[i].placing),
                   ev.standings[i].list),
      list |-> ev.standings[i].list]]

\* Of a ladder Pokémon only species and item are known.
LadderList(list) == [j \in DOMAIN list |-> [list[j] EXCEPT !.moves = {}]]

LadderEntries(x) ==
  [i \in DOMAIN x.lists |->
     [id   |-> <<"pokedb", <<x.season, x.fmt>>, i>>,
      row  |-> Row("pokedb", <<x.season, x.fmt>>, x.fmt, "team_and_item",
                   ObservationWeight(x.weight, i), LadderList(x.lists[i])),
      list |-> LadderList(x.lists[i])]]

-----------------------------------------------------------------------------
EventInScope(ev) == ev.regulation \in Regulations /\ ev.players >= MinPlayers
ExportInScope(x) == Regulations = {} \/ x.regulation \in Regulations

\* A pull starts: on an empty file, or on a copy of what is there.
StartIngest ==
  /\ corpusPc = "idle"
  /\ upstream' \in Snapshots
  /\ full' \in BOOLEAN
  /\ corpusPc' = "ingest"
  /\ todo' = [events  |-> {ev \in upstream'.events : EventInScope(ev)},
              exports |-> {x \in upstream'.exports : ExportInScope(x)}]
  /\ teams' = NoTeams /\ members' = {}
  /\ IF full'
     THEN build_teams' = NoTeams /\ build_members' = {} /\ full_teams' = NoTeams
     ELSE UNCHANGED tables

\* add_limitless, with the format classify_format gives the event.
AddLimitless(ev) ==
  /\ corpusPc = "ingest"
  /\ ev \in todo.events
  /\ todo' = [todo EXCEPT !.events = @ \ {ev}]
  /\ Add(EventEntries(ev))
  /\ UNCHANGED <<upstream, corpusPc, full, tables>>

\* add_pokedb.
AddPokedb(x) ==
  /\ corpusPc = "ingest" /\ todo.events = {}
  /\ x \in todo.exports
  /\ todo' = [todo EXCEPT !.exports = @ \ {x}]
  /\ Add(LadderEntries(x))
  /\ UNCHANGED <<upstream, corpusPc, full, tables>>

Added == corpusPc = "ingest" /\ todo.events = {} /\ todo.exports = {}

FaultyFlush ==
  /\ Added
  /\ build_teams' = InsertOrReplace(teams, build_teams)
  /\ build_members' = members \union build_members
  /\ corpusPc' = IF full THEN "reports" ELSE "idle"
  /\ UNCHANGED <<upstream, full, todo, ingest, full_teams>>

\* Replace the corpus by what was accumulated.
Flush ==
  /\ Added
  /\ build_teams' = teams
  /\ build_members' = members
  /\ corpusPc' = IF full THEN "reports" ELSE "idle"
  /\ UNCHANGED <<upstream, full, todo, ingest, full_teams>>

Reports == {id \in DOMAIN build_teams : build_teams[id].source = "report"}

Complete(a) == Resolved(a.list) /\ Len(a.list) = TeamSize
ReportId(a) == <<"report", a.url, 0>>

ReportRow(a) ==
  Row("report", a.url, "singles", "full_set", ObservationWeight(1, a.rank), a.list)

\* The complete articles: one per url, as merge leaves them.
ReportTeams == {a \in upstream.articles : Complete(a)}
ReportIds == {ReportId(a) : a \in ReportTeams}
Article(id) == CHOOSE a \in ReportTeams : ReportId(a) = id

\* ingest_reports: the complete teams of the articles, in all three tables.
IngestReports ==
  /\ corpusPc = "reports"
  /\ full_teams' = [id \in ReportIds |-> Article(id).list]
  /\ build_teams' = InsertOrReplace([id \in ReportIds |-> ReportRow(Article(id))],
                      [id \in DOMAIN build_teams \ Reports |-> build_teams[id]])
  /\ build_members' = {q \in build_members : q.id \notin Reports} \union
                        UNION {MemberRows(ReportId(a), 1, a.list) : a \in ReportTeams}
  /\ corpusPc' = "idle"
  /\ UNCHANGED <<upstream, full, todo, ingest>>

\* CHAMPIONS_MCP_REPORTS_SKIP.
SkipReports ==
  /\ corpusPc = "reports"
  /\ corpusPc' = "idle"
  /\ UNCHANGED <<upstream, full, todo, ingest, tables>>

CorpusNext ==
  \/ StartIngest
  \/ \E ev \in Events : AddLimitless(ev)
  \/ \E x \in Exports : AddPokedb(x)
  \/ Flush
  \/ IngestReports
  \/ SkipReports

CorpusSpec == CorpusInit /\ [][CorpusNext]_corpusVars

-----------------------------------------------------------------------------
\* The stages, and tables whose rows have the shape of the schema.
CorpusTyped ==
  /\ corpusPc \in {"idle", "ingest", "reports"}
  /\ upstream \in Snapshots /\ full \in BOOLEAN
  /\ todo.events \subseteq upstream.events
  /\ todo.exports \subseteq upstream.exports
  /\ \A t \in {teams, build_teams} : \A id \in DOMAIN t :
       /\ t[id].source = id[1]
       /\ t[id].format \in Formats
       /\ t[id].weight \in Nat

\* No row of build_members is without its team and no team without rows: the
\* joins of the query tools lose nothing (add_limitless, flush, ingest_reports).
RowsHaveTeams == {q.id : q \in build_members} = DOMAIN build_teams

\* A stored team is a whole list: every Pokémon its team_hash digests has a row
\* and none is unresolved, however many of its upstream entries did not resolve.
Stored(id) == {q.mon : q \in {p \in build_members : p.id = id}}

WholeTeamsOnly ==
  \A id \in DOMAIN build_teams :
    /\ DOMAIN build_teams[id].hash \subseteq Stored(id)
    /\ \A m \in Stored(id) : m.slug # Nowhere

\* After a pull the ladder and tournament teams are those its upstreams returned
\* in scope: a team that dropped out does not linger (flush).
FromUpstream(t) ==
  \/ \E ev \in upstream.events :
       t.source = "limitless" /\ t.ref = ev.id /\ EventInScope(ev)
  \/ \E x \in upstream.exports :
       t.source = "pokedb" /\ t.ref = <<x.season, x.fmt>> /\ ExportInScope(x)

NothingLingers ==
  corpusPc = "idle" =>
    \A id \in DOMAIN build_teams :
      build_teams[id].source = "report" \/ FromUpstream(build_teams[id])

\* After a full pull full_teams and the observed report teams are the same teams
\* (ingest_reports writes both); a refresh empties the latter alone.
ReportsAgree ==
  corpusPc = "idle" /\ full =>
    /\ Reports = DOMAIN full_teams
    /\ \A id \in Reports : build_teams[id].hash = TeamHash(full_teams[id])

\* After any sequence of pulls and refreshes the three tables hold the same teams,
\* whole, and those of the last sources only.
CorpusSound ==
  CorpusTyped /\ RowsHaveTeams /\ WholeTeamsOnly /\ NothingLingers /\ ReportsAgree

-----------------------------------------------------------------------------
(* What comments say and the code does not keep. *)

\* db.py on build_members: "that team's six members and their sets". No team
\* joins with more rows than a team has Pokémon.
SixMembers ==
  \A id \in DOMAIN build_teams : Cardinality({q \in build_members : q.id = id}) <= TeamSize

\* observation_weight: "A positive weight". A team of many half-lives ago has its
\* weight rounded to six places.
WeightsPositive == \A id \in DOMAIN build_teams : build_teams[id].weight > 0
=============================================================================
