---------------------------- MODULE ObservedReads ----------------------------
(***************************************************************************)
(* The tools that read the observed corpus (builds.py over the observed_*  *)
(* queries of db.py): get_observed_sets, get_team_context and              *)
(* get_sample_teams, and the cross-game sets they fall back on             *)
(* (historical_sets.py). The tables are what a pull left; every call is    *)
(* one action that replaces the answer.                                    *)
(*                                                                         *)
(* build_teams is a function from team id to [format, weight, hash]; a row *)
(* of build_members is [row, id, slug, item, moves], row its place in the  *)
(* table and moves the empty set where moves_json is NULL. Ability and     *)
(* nature are decided as the item is and are left out. Shares are kept as  *)
(* the two weights they divide; ties in a ranking fall either way.         *)
(***************************************************************************)
EXTENDS Integers, Sequences, FiniteSets, FiniteSetsExt, TLC

CONSTANTS
  Corpora,           \* tables a pull may have left: [teams, members]
  SmogonSets,        \* rows of smogon_sets: [slug, format, set, generation]
  Learnable,         \* slug -> moves it learns in Champions
  ChampionsItems,    \* items of Champions
  Formats, Slugs, Items,
  MoveSlots,         \* four
  Limit,             \* what a caller asks for
  Anyone                \* no condition

VARIABLES build_teams, build_members, answer

vars == <<build_teams, build_members, answer>>

Init ==
  /\ \E c \in Corpora : build_teams = c.teams /\ build_members = c.members
  /\ answer = [tool |-> "none"]

-----------------------------------------------------------------------------
\* The first k of S by descending weight, for every way to break ties.
Leading(S, weight, k) ==
  {T \in kSubset(IF Cardinality(S) < k THEN Cardinality(S) ELSE k, S) :
     \A x \in T, y \in S \ T : weight[x] >= weight[y]}

\* A share in hundredths against a threshold.
AtLeast(part, whole, percent) == 100 * part >= percent * whole

TeamsOf(fmt) == {id \in DOMAIN build_teams : build_teams[id].format = fmt}

BuildsAvailable(fmt) == TeamsOf(fmt) # {}

ObservedRows(fmt) == {r \in build_members : r.id \in TeamsOf(fmt)}

ObservedMembers(slug, fmt) == {r \in ObservedRows(fmt) : r.slug = slug}

ObservedRosters(fmt) ==
  [id \in {r.id : r \in ObservedRows(fmt)} |->
     {r.slug : r \in {q \in build_members : q.id = id}}]

TotalWeight(rows) == MapThenSumSet(LAMBDA r : build_teams[r.id].weight, rows)
TeamsWeight(ids) == MapThenSumSet(LAMBDA id : build_teams[id].weight, ids)

SetOf(r) == [item |-> r.item, moves |-> r.moves]

-----------------------------------------------------------------------------
\* The fallback: the newest of each distinct cross-game set, and whether all of
\* it exists in Champions.
HistoricalSets(slug, fmt) ==
  LET rows == {h \in SmogonSets : h.slug = slug /\ h.format = fmt}
  IN  {[set |-> s,
        newest |-> Max({h.generation : h \in {g \in rows : g.set = s}}),
        legal |-> s.moves \subseteq Learnable[slug] /\ s.item \in ChampionsItems] :
         s \in {h.set : h \in rows}}

\* Only the rows holding the item, on teams with the teammate.
Conditioned(rows, fmt, item, mate) ==
  {r \in rows : /\ item = Anyone \/ r.item = item
                /\ mate = Anyone \/ mate \in ObservedRosters(fmt)[r.id]}

Runs(rows, m) == {r \in rows : m \in r.moves}

\* locked from 85 percent, fringe below 15.
Band(share, total) ==
  IF AtLeast(share, total, 85) THEN "locked"
  ELSE IF ~AtLeast(share, total, 15) THEN "fringe" ELSE "contested"

\* _move_analysis: the band of every move, and the slots left free.
MoveAnalysis(rows) ==
  LET total == TotalWeight(rows)
      moves == UNION {r.moves : r \in rows}
      slots == Max({Cardinality(r.moves) : r \in rows})
      band  == [m \in moves |-> Band(TotalWeight(Runs(rows, m)), total)]
      fixed == Cardinality({m \in moves : band[m] = "locked"})
  IN  [band |-> band, free |-> IF fixed < slots THEN slots - fixed ELSE 0]

\* _naive_trap: the moves most popular one by one, and who runs just those.
NaiveTraps(rows) ==
  LET moves == UNION {r.moves : r \in rows}
      popular == Leading(moves, [m \in moves |-> TotalWeight(Runs(rows, m))], MoveSlots)
  IN  {[naive  |-> naive,
        played |-> TotalWeight({r \in rows : r.moves = naive})] : naive \in popular}

NoSets == [evidence |-> "none", rows |-> {}, sets |-> {}, fringe |-> {}, band |-> <<>>,
           free |-> 0, naive |-> {}, played |-> 0, historical |-> {}]

\* The body of get_observed_sets once rows are left: the heaviest sets, of the
\* others the ones that are not rare, the bands, the trap, and the fallback when
\* fewer than three distinct sets were seen.
ObservedSets(rows, slug, fmt) ==
  LET total  == TotalWeight(rows)
      full   == {r \in rows : r.moves # {}}
      groups == {SetOf(r) : r \in rows}
      W      == [s \in groups |-> TotalWeight({r \in rows : SetOf(r) = s})]
      past(main) == {s \in groups \ main : AtLeast(W[s], total, 5)}
      moves  == IF full = {} THEN {[band |-> <<>>, free |-> 0]} ELSE {MoveAnalysis(full)}
      traps  == IF full = {} THEN {[naive |-> {}, played |-> 0]} ELSE NaiveTraps(full)
      old    == IF Cardinality(groups) < 3 THEN HistoricalSets(slug, fmt) ELSE {}
  IN  UNION {{[evidence |-> IF full # {} THEN "full_set" ELSE "team_and_item",
               rows |-> rows, sets |-> main, fringe |-> fringe,
               band |-> m.band, free |-> m.free,
               naive |-> trap.naive, played |-> trap.played, historical |-> old] :
                fringe \in Leading(past(main), W, 3), m \in moves, trap \in traps} :
             main \in Leading(groups, W, Limit)}

GetObservedSets(slug, fmt, item, mate) ==
  LET seen == ObservedMembers(slug, fmt)
      rows == Conditioned(seen, fmt, item, mate)
      fall == [NoSets EXCEPT !.historical = HistoricalSets(slug, fmt)]
  IN  /\ \E a \in IF ~BuildsAvailable(fmt) \/ seen = {} THEN {fall}
                  ELSE IF rows = {} THEN {NoSets}
                  ELSE ObservedSets(rows, slug, fmt) :
           answer' = [tool |-> "sets", slug |-> slug, format |-> fmt,
                      item |-> item, mate |-> mate] @@ a
      /\ UNCHANGED <<build_teams, build_members>>

-----------------------------------------------------------------------------
FaultyPartner(s, fmt, matching) ==
  LET rows == {r \in ObservedRows(fmt) : r.slug = s}
  IN  [slug |-> s,
       with |-> TotalWeight({r \in rows : r.id \in matching}),
       matched |-> TeamsWeight(matching),
       overall |-> TotalWeight(rows),
       baseline |-> TeamsWeight(DOMAIN build_teams)]

\* A partner's weight with the core and format-wide, over the weights of the
\* matching teams and of all teams.
Partner(s, fmt, matching) ==
  LET rows == {r \in ObservedRows(fmt) : r.slug = s}
  IN  [slug |-> s,
       with |-> TotalWeight({r \in rows : r.id \in matching}),
       matched |-> TeamsWeight(matching),
       overall |-> TotalWeight(rows),
       baseline |-> TeamsWeight(DOMAIN ObservedRosters(fmt))]

\* affinity: how often with the core over how often at all, against a/b.
AffinityAtLeast(p, a, b) == b * p.with * p.baseline >= a * p.overall * p.matched
Drawn(p) == p.with * p.baseline > p.overall * p.matched

GetTeamContext(core, fmt) ==
  LET rosters  == ObservedRosters(fmt)
      matching == {id \in DOMAIN rosters : core \subseteq rosters[id]}
      ranked   == {Partner(s, fmt, matching) :
                     s \in UNION {rosters[id] : id \in matching} \ core}
      rare(conv) == {p \in ranked \ conv : AffinityAtLeast(p, 3, 2)}
  IN  /\ BuildsAvailable(fmt)
      /\ core # {}
      /\ \E conv \in Leading(ranked, [p \in ranked |-> p.with], Limit) :
           answer' = [tool |-> "context", core |-> core, format |-> fmt,
                      matching |-> matching, partners |-> conv,
                      underexplored |-> rare(conv)]
      /\ UNCHANGED <<build_teams, build_members>>

-----------------------------------------------------------------------------
\* The row SQLite returns for a group under MAX(weight): the heaviest.
Representative(ids, h) ==
  CHOOSE id \in ids :
    /\ build_teams[id].hash = h
    /\ \A j \in ids : build_teams[j].hash = h => build_teams[id].weight >= build_teams[j].weight

\* observed_teams_for: one team per hash, heaviest first. The window that counts
\* times_seen runs over the groups, of which there is one per hash.
GetSampleTeams(slug, fmt) ==
  LET ids    == {id \in TeamsOf(fmt) :
                   slug = Anyone \/ \E r \in build_members : r.id = id /\ r.slug = slug}
      hashes == {build_teams[id].hash : id \in ids}
      Rep(h) == Representative(ids, h)
  IN  /\ BuildsAvailable(fmt)
      /\ \E shown \in Leading(hashes, [h \in hashes |-> build_teams[Rep(h)].weight], Limit) :
           answer' = [tool |-> "teams", slug |-> slug, format |-> fmt,
                      teams |-> {Rep(h) : h \in shown},
                      times_seen |-> [id \in {Rep(h) : h \in shown} |->
                        Cardinality({h \in hashes : h = build_teams[id].hash})]]
      /\ UNCHANGED <<build_teams, build_members>>

Next ==
  \E fmt \in Formats :
    \/ \E slug \in Slugs, item \in Items \cup {Anyone}, mate \in Slugs \cup {Anyone} :
         GetObservedSets(slug, fmt, item, mate)
    \/ \E core \in SUBSET Slugs : GetTeamContext(core, fmt)
    \/ \E slug \in Slugs \cup {Anyone} : GetSampleTeams(slug, fmt)

Spec == Init /\ [][Next]_vars

-----------------------------------------------------------------------------
Sets == answer.tool = "sets"

\* A build the tool reports was brought whole: one row of one team of the format
\* has that item with those moves, next to the teammate that was asked for.
Attested ==
  Sets => \A s \in answer.sets \cup answer.fringe :
    \E r \in build_members :
      /\ r.slug = answer.slug /\ SetOf(r) = s
      /\ build_teams[r.id].format = answer.format
      /\ answer.item \in {Anyone, s.item}
      /\ answer.mate # Anyone =>
           \E q \in build_members : q.id = r.id /\ q.slug = answer.mate

\* What is locked together is common together: with k moves locked, the builds
\* running all of them weigh at least 100 - 15k percent, and there are never more
\* locked moves than slots (_move_analysis).
LockedTogether ==
  Sets /\ answer.naive # {} =>
    LET full == {r \in answer.rows : r.moves # {}}
        locked == {m \in DOMAIN answer.band : answer.band[m] = "locked"}
        all == TotalWeight({r \in full : locked \subseteq r.moves})
    IN  /\ AtLeast(all, TotalWeight(full), 100 - 15 * Cardinality(locked))
        /\ Cardinality(locked) <= MoveSlots

\* The stacking check and the bands, counted apart, agree: the stacked set runs
\* every locked move, and where these fill the slots it is a set people play
\* (_naive_trap against _move_analysis).
TrapKnowsLocked ==
  Sets /\ answer.naive # {} =>
    LET full == {r \in answer.rows : r.moves # {}}
        locked == {m \in DOMAIN answer.band : answer.band[m] = "locked"}
    IN  /\ locked \subseteq answer.naive
        /\ Cardinality(locked) = MoveSlots =>
             AtLeast(answer.played, TotalWeight(full), 100 - 15 * MoveSlots)

\* affinity above one means what the tool says of it: the partner is on a larger
\* share of the teams with the core than of the teams without it.
AffinityMeansDrawn ==
  answer.tool = "context" => \A p \in answer.partners \cup answer.underexplored :
    LET rest == DOMAIN ObservedRosters(answer.format) \ answer.matching
        without == TotalWeight({r \in build_members : r.slug = p.slug /\ r.id \in rest})
    IN  Drawn(p) <=> p.with * TeamsWeight(rest) > without * p.matched

\* The same list entered at several events appears once, by its heaviest entry,
\* and no list outweighing a shown one is left out (observed_teams_for).
SamplesAreDistinct ==
  answer.tool = "teams" =>
    LET fits == {id \in TeamsOf(answer.format) : answer.slug = Anyone \/
                   \E r \in build_members : r.id = id /\ r.slug = answer.slug}
        Hash(id) == build_teams[id].hash
    IN  /\ \A x, y \in answer.teams : Hash(x) = Hash(y) => x = y
        /\ \A x \in answer.teams, y \in fits :
             build_teams[y].weight > build_teams[x].weight =>
               \E z \in answer.teams : Hash(z) = Hash(y) /\ z # x

\* What the three tools say of the corpus is what its teams brought.
ReadsSound ==
  /\ Attested /\ LockedTogether /\ TrapKnowsLocked
  /\ AffinityMeansDrawn /\ SamplesAreDistinct

-----------------------------------------------------------------------------
(* What comments say and the code does not keep.                            *)

\* builds.py on RARE_SET_SHARE: "Sets below this weighted share are reported
\* under `fringe_sets` rather than the main list".
RareSetsAreFringe ==
  Sets => \A s \in answer.sets :
    AtLeast(TotalWeight({r \in answer.rows : SetOf(r) = s}), TotalWeight(answer.rows), 5)

\* db.py counts times_seen "OVER (PARTITION BY t.team_hash)" for a list "entered
\* at five events": the number of teams of the format that entered it.
TimesSeenCounts ==
  answer.tool = "teams" => \A id \in answer.teams :
    answer.times_seen[id] =
      Cardinality({j \in TeamsOf(answer.format) : build_teams[j].hash = build_teams[id].hash})

\* pull/builds.py on records without moves: "That distinction is surfaced all the
\* way out to the tools". An answer announced as full_set has no item-only set.
EvidenceSurfaced ==
  Sets /\ answer.evidence = "full_set" =>
    \A s \in answer.sets \cup answer.fringe : s.moves # {}
=============================================================================
