----------------------------- MODULE PullCache ------------------------------
(***************************************************************************)
(* What a pull reads: the upstream sites through pull-cache.sqlite         *)
(* (cache.py, pull/pokechamp_source.py, pull/pokeapi.py,                   *)
(* pull/builds_source.py, pull/smogon_source.py), pull after pull, while   *)
(* the sites change.  A page is named by a pair of its source and a        *)
(* number; what it says is a version, Missing (404) or Empty (a body       *)
(* without rows).  Event e is the e-th ever listed.                        *)
(***************************************************************************)
EXTENDS Integers, Sequences, FiniteSets

CONSTANTS Sheets, Items, Gens, MaxEvents, MaxSeason,  \* pages of each source
          PageSize,         \* 100 events on an index page
          Limit,            \* builds_max_events
          ShortTtl, DayTtl, \* of index pages; of the other pages that expire
          MaxVersion, MaxTime     \* bounds: versions of a page, time

\* What the constants have to be.
CacheAssumption ==
  /\ PageSize \in Nat \ {0} /\ MaxVersion \in Nat \ {0}
  /\ {Limit, ShortTtl, DayTtl, MaxTime, MaxEvents, MaxSeason} \subseteq Nat

Missing == 0
Empty == -1
Html == -2         \* an error page served with status 200

Of(source, numbers) == {source} \X numbers

\* The pages of the sites, those that are kept for ever, all keys of the cache.
Site == Of("sheet", Sheets) \union Of("item", Items) \union Of("gen", Gens)
        \union Of("standings", 1 .. MaxEvents) \union Of("season", 1 .. MaxSeason)
Kept == Of("item", Items) \union Of("standings", 1 .. MaxEvents)
Keys == Site \union Of("index", Nat)

VARIABLES
  now,
  site,      \* what each page says today
  changed,   \* when it last changed; listing an event changes its standings
  listed,    \* events listed upstream: 1 .. listed
  cache,     \* key -> [value, at], a row of the cache table
  asked,     \* answers the network gave for each page that is kept
  pc, began, \* stage of the pull, when it started
  left,      \* pages of the stage still to get
  list,      \* tournaments: the events found
  number,    \* index page or season to ask for next
  misses,
  got        \* page -> value this pull used

world == <<now, site, changed, listed>>
reading == <<pc, began, left, list, number, misses, got>>
cacheVars == <<world, cache, asked, reading>>

Nothing == [k \in {} |-> 0]

CacheInit ==
  /\ now = 0 /\ listed = 0
  /\ site = [k \in Site |-> IF k[1] = "sheet" THEN 1 ELSE Missing]
  /\ changed = [k \in Site |-> 0]
  /\ cache = Nothing /\ asked = [k \in Kept |-> 0]
  /\ pc = "idle" /\ began = 0 /\ left = {} /\ list = <<>>
  /\ number = 1 /\ misses = 0 /\ got = Nothing

-----------------------------------------------------------------------------
(* The sites *)

Tick == now < MaxTime /\ now' = now + 1 /\ UNCHANGED <<site, changed, listed, cache, asked, reading>>

List ==
  /\ listed < MaxEvents
  /\ listed' = listed + 1
  /\ changed' = [changed EXCEPT ![<<"standings", listed'>>] = now]
  /\ UNCHANGED <<now, site, cache, asked, reading>>

\* Standings and items once there do not change; of the seasons at most one
\* in a row is left out.
MayChange(k) ==
  /\ site[k] < MaxVersion
  /\ k[1] \in {"item", "standings"} => site[k] = Missing
  /\ k[1] = "standings" => k[2] <= listed
  /\ (k[1] = "season" /\ site[k] = Missing) =>
        k[2] <= 2 \/ \E n \in {k[2] - 1, k[2] - 2} \ {0, -1} : site[<<"season", n>>] # Missing

Change(k) ==
  /\ MayChange(k)
  /\ site' = [site EXCEPT ![k] = @ + 1]
  /\ changed' = [changed EXCEPT ![k] = now]
  /\ UNCHANGED <<now, listed, cache, asked, reading>>

-----------------------------------------------------------------------------
(* Reading through the cache *)

\* Fault: a remembered 404 of a season is kept like any other 404.
FaultyPermanent(k) == k \in Kept \/ k[1] = "season"

Permanent(k) == k \in Kept

Ttl(k) == IF k[1] = "index" THEN ShortTtl ELSE DayTtl

\* Cache.get finds it: permanent, or not expired.
Cached(k) ==
  /\ k \in DOMAIN cache
  /\ Permanent(k) \/ now - cache[k].at <= Ttl(k)

\* An expired row is deleted by the read that finds it.
Without(k) == [j \in DOMAIN cache \ {k} |-> cache[j]]

\* Index page p, newest first.
Page(p) ==
  LET first == listed - (p - 1) * PageSize
  IN  [i \in 1 .. (IF first < PageSize THEN IF first > 0 THEN first ELSE 0 ELSE PageSize)
         |-> first - i + 1]

Online(k) ==
  CASE k[1] = "index" -> {Page(k[2])}
    [] k[1] = "standings" -> IF site[k] = Missing THEN {Missing, Empty} ELSE {site[k]}
    [] k[1] = "season" -> IF site[k] = Missing THEN {Missing, Html} ELSE {site[k]}
    [] OTHER -> {site[k]}

\* Every client asks the cache, then the site, and remembers the answer, a 404
\* included; an error page passed off as success is not remembered.
Get(k, v) ==
  IF Cached(k)
  THEN v = cache[k].value /\ UNCHANGED <<cache, asked>>
  ELSE /\ v \in Online(k)
       /\ cache' = IF k \in Site /\ v = Html THEN Without(k)
                   ELSE [j \in DOMAIN cache \union {k} |->
                           IF j = k THEN [value |-> v, at |-> now] ELSE cache[j]]
       /\ asked' = IF k \in Kept THEN [asked EXCEPT ![k] = @ + 1] ELSE asked

Use(k, v) == got' = [j \in DOMAIN got \union {k} |-> IF j = k THEN v ELSE got[j]]

-----------------------------------------------------------------------------
(* The stages of a pull.  *)

Stage(s, keys) == pc' = s /\ left' = keys

\* A build reads everything; a refresh of the corpus begins with the items.
Begin ==
  /\ pc \in {"idle", "done"}
  /\ \/ Stage("sheet", Of("sheet", Sheets))
     \/ Stage("item", Of("item", Items))
  /\ began' = now /\ got' = Nothing /\ list' = <<>> /\ number' = 1 /\ misses' = 0
  /\ UNCHANGED <<world, cache, asked>>

\* pokechamp.gg's pages: a 404 is an error like any other, and not stored.
GetSheet ==
  /\ pc = "sheet"
  /\ \E k \in left, v \in 1 .. MaxVersion : Get(k, v) /\ Use(k, v) /\ left' = left \ {k}
  /\ UNCHANGED <<world, pc, began, list, number, misses>>

\* PokeAPI's items and Showdown's generations, gathered in any order.
GetGathered ==
  /\ pc \in {"item", "gen"}
  /\ \E k \in left, v \in 0 .. MaxVersion :
       Get(k, v) /\ Use(k, v) /\ left' = left \ {k}
  /\ UNCHANGED <<world, pc, began, list, number, misses>>

Onward ==
  /\ pc \in {"sheet", "item", "standings", "gen"} /\ left = {}
  /\ CASE pc = "sheet" -> Stage("item", Of("item", Items))
       [] pc = "item" -> Stage("index", {})
       [] pc = "standings" -> Stage("season", {})
       [] pc = "gen" -> Stage("done", {})
  /\ number' = 1
  /\ UNCHANGED <<world, cache, asked, began, list, misses, got>>

Prefix(s, n) == SubSeq(s, 1, IF n < Len(s) THEN n ELSE Len(s))

\* tournaments: page after page until one is not full or the limit is reached.
GetIndex ==
  /\ pc = "index"
  /\ \E v \in {Page(number)} \union {cache[k].value : k \in DOMAIN cache \intersect {<<"index", number>>}} :
       /\ Get(<<"index", number>>, v)
       /\ list' = Prefix(list \o v, Limit)
       /\ IF Len(v) < PageSize \/ Len(list \o v) >= Limit
          THEN /\ Stage("standings", {<<"standings", list'[i]>> : i \in DOMAIN list'})
               /\ UNCHANGED number
          ELSE number' = number + 1 /\ UNCHANGED <<pc, left>>
  /\ UNCHANGED <<world, began, misses, got>>

\* standings, event after event, newest first.
GetStandings ==
  /\ pc = "standings"
  /\ \E k \in left, v \in {Missing, Empty} \union 1 .. MaxVersion :
       /\ \A j \in left : j[2] <= k[2]
       /\ Get(k, v) /\ Use(k, v) /\ left' = left \ {k}
  /\ UNCHANGED <<world, pc, began, list, number, misses>>

PastTheEnd(missed) == missed >= 2

\* season and all_seasons: two misses in a row end the scan.
GetSeason ==
  /\ pc = "season" /\ number <= MaxSeason
  /\ \E v \in {Missing, Html} \union 1 .. MaxVersion :
       /\ Get(<<"season", number>>, v)
       /\ Use(<<"season", number>>, v)
       /\ misses' = IF v \in {Missing, Html} THEN misses + 1 ELSE 0
  /\ number' = number + 1
  /\ IF PastTheEnd(misses') THEN Stage("gen", Of("gen", Gens)) ELSE UNCHANGED <<pc, left>>
  /\ UNCHANGED <<world, began, list>>

LastSeason ==
  /\ pc = "season" /\ number > MaxSeason
  /\ Stage("gen", Of("gen", Gens))
  /\ UNCHANGED <<world, cache, asked, began, list, number, misses, got>>

\* The site cannot be reached: the pull is over, what it stored stays.
Fail ==
  /\ \E k \in left \union (CASE pc = "index" -> {<<"index", number>>}
                             [] pc = "season" /\ number <= MaxSeason -> {<<"season", number>>}
                             [] OTHER -> {}) :
       ~Cached(k) /\ cache' = Without(k)
  /\ Stage("idle", {})
  /\ began' = 0 /\ list' = <<>> /\ number' = 1 /\ misses' = 0 /\ got' = Nothing
  /\ UNCHANGED <<world, asked>>

CacheNext ==
  \/ Tick \/ List \/ \E k \in Site : Change(k)
  \/ Begin \/ Onward \/ Fail
  \/ GetSheet \/ GetGathered \/ GetIndex \/ GetStandings \/ GetSeason \/ LastSeason

CacheSpec == CacheInit /\ [][CacheNext]_cacheVars

-----------------------------------------------------------------------------
CacheTypeOK ==
  /\ now \in 0 .. MaxTime /\ listed \in 0 .. MaxEvents
  /\ site \in [Site -> 0 .. MaxVersion] /\ changed \in [Site -> 0 .. MaxTime]
  /\ asked \in [Kept -> Nat] /\ DOMAIN cache \subseteq Keys
  /\ \A k \in DOMAIN cache : cache[k].at \in 0 .. now
  /\ pc \in {"idle", "sheet", "item", "index", "standings", "season", "gen", "done"}
  /\ began \in 0 .. now /\ left \subseteq Site
  /\ Len(list) <= Limit /\ number \in Nat /\ misses \in 0 .. 2
  /\ DOMAIN got \subseteq Site

\* A page that expires is never used older than its lifetime: what changed more
\* than that before the pull is what the pull used.  This includes a season
\* published meanwhile, which an earlier 404, a gap before it and the two
\* misses that end the scan must not hide for longer.
FreshEnough ==
  pc = "done" =>
    \A k \in {j \in Site : j[1] = "season" \/ (j \in DOMAIN got /\ ~Permanent(j))} :
      changed[k] + DayTtl < began /\ site[k] # Missing =>
        k \in DOMAIN got /\ got[k] = site[k]

\* A rebuild costs no network for what is kept for ever, 404s and events
\* without teams included.
AskedOnce == \A k \in Kept : asked[k] <= 1

\* An event on the first index page is read by every pull that starts more than
\* the index's lifetime after it was listed.
NewEventsRead ==
  pc = "done" =>
    \A e \in 1 .. listed :
      changed[<<"standings", e>>] + ShortTtl < began
        /\ listed - e < PageSize /\ listed - e < Limit =>
        e \in {list[i] : i \in DOMAIN list}

\* The cache saves requests without ever passing off the past for the present.
CacheSound == CacheTypeOK /\ FreshEnough /\ AskedOnce /\ NewEventsRead

-----------------------------------------------------------------------------
(* What comments say and the code does not keep. *)

\* "List Champions VGC tournaments for one regulation, newest first" (docstring
\* of tournaments): no event twice, none left out between two others.
NewestFirst ==
  pc = "standings" => \A i \in 1 .. Len(list) - 1 : list[i + 1] = list[i] - 1

\* "a rebuild costs no network and only genuinely new events are fetched"
\* (module docstring), since the rest does not change: what a pull uses for an
\* event whose teams were long out when it began is its teams.
TeamsOnceOut ==
  pc = "done" =>
    \A k \in DOMAIN got :
      k[1] = "standings" /\ site[k] # Missing /\ changed[k] + DayTtl < began =>
        got[k] = site[k]
=============================================================================
