---------------------------- MODULE TeamReports -----------------------------
(***************************************************************************)
(* The scrape of published team reports (pull/reports.py): Fetcher's page  *)
(* cache, the listing sources, merge, and the reading of the articles,     *)
(* pull after pull.  A file of the cache is "none", "empty" (a remembered  *)
(* miss) or "page"; what a page says does not change here.                 *)
(*                                                                         *)
(* A listed report is a record [article, key, rank, mons]: the article it  *)
(* is about, its address as merge compares it, its rank (0 unknown), and   *)
(* the species it shows, Unknown where none is recognised.                 *)
(***************************************************************************)
EXTENDS Integers, Sequences, FiniteSets, SequencesExt

CONSTANTS
  Sources,        \* in order: a sequence of pages, each a sequence of reports
  Addresses,      \* of articles, as merge compares them
  Species,
  SetsOn,         \* article -> species of the sets on its page, in order
  Unknown,
  MinKnown        \* recognised species a report needs, 4 of 6

Mons == Seq(Species \union {Unknown})
Report == [article : DOMAIN SetsOn, key : Addresses, rank : Nat, mons : Mons]

\* What the constants have to be: a source has a page, if an empty one.
ASSUME ScrapeAssumption ==
  /\ MinKnown \in Nat \ {0}
  /\ Unknown \notin Species
  /\ SetsOn \in [DOMAIN SetsOn -> Seq(Species)]
  /\ Sources \in Seq(Seq(Seq(Report)) \ {<<>>}) \ {<<>>}

Tables == <<"tables">>
ListingPage(s, p) == <<"listing", s, p>>
ArticlePage(a) == <<"article", a>>

Listed == UNION {{ListingPage(s, p) : p \in DOMAIN Sources[s]} : s \in DOMAIN Sources}
Articles == {ArticlePage(a) : a \in DOMAIN SetsOn}
Urls == {Tables} \union Listed \union Articles

VARIABLES
  files,      \* the page cache
  aged,        \* files older than the lifetime of listings and tables
  reads,      \* times an article was downloaded
  scrapePc,   \* idle, tables, list, merge, articles, done
  current, page, shown,  \* source and page to read next, what the source listed so far
  named,      \* the name tables could be read
  broken,     \* sources whose page could not be parsed
  raw,        \* reports listed so far
  merged,     \* how many of them are merged
  scraped,    \* the teams, by key
  unread      \* keys of the teams whose article is still to be read

scrape == <<scrapePc, current, page, shown, named, broken, raw, merged, scraped, unread>>
scrapeVars == <<files, aged, reads, scrape>>

NoneMerged == [k \in {} |-> 0]

ScrapeInit ==
  /\ files = [u \in Urls |-> "none"] /\ aged = {}
  /\ reads = [u \in Articles |-> 0]
  /\ scrapePc = "idle" /\ current = 1 /\ page = 1 /\ shown = <<>> /\ named = FALSE
  /\ broken = {} /\ raw = <<>> /\ merged = 0 /\ scraped = NoneMerged /\ unread = {}

-----------------------------------------------------------------------------
(* Time *)

AgePages ==
  /\ aged' = {u \in Urls : files[u] # "none"}
  /\ UNCHANGED <<files, reads, scrape>>

-----------------------------------------------------------------------------
(* Fetcher.get *)

\* Articles are kept for ever (max_age None).
Fresh(u) == files[u] # "none" /\ (u \in Articles \/ u \notin aged)

\* The host's answer: a page, a 403, 404 or 410, any other error.
Answers == {"page", "gone", "busy"}

\* What get returns is what it leaves in the cache.
Got(u, answer) ==
  IF Fresh(u) THEN files[u]
  ELSE CASE answer = "page" -> "page"
         [] answer = "gone" -> "empty"
         [] answer = "busy" -> files[u]

Fetch(u, answer) ==
  /\ files' = [files EXCEPT ![u] = Got(u, answer)]
  /\ aged' = IF Fresh(u) \/ answer = "busy" THEN aged ELSE aged \ {u}
  /\ reads' = IF u \in Articles /\ ~Fresh(u) /\ answer = "page"
              THEN [reads EXCEPT ![u] = @ + 1] ELSE reads

-----------------------------------------------------------------------------
(* merge *)

Known(mons) == Cardinality({i \in DOMAIN mons : mons[i] # Unknown})

FirstSeen(report) ==
  [article |-> report.article, rank |-> report.rank, mons |-> report.mons,
   sets |-> <<>>, placed |-> 0]

\* A team whose article is listed again: the richest fields stay.
Enriched(team, report) ==
  [team EXCEPT !.rank = IF @ = 0 THEN report.rank ELSE @,
               !.mons = IF Known(@) < Known(report.mons) THEN report.mons ELSE @]

MergedWith(by, report) ==
  [k \in DOMAIN by \union {report.key} |->
     IF k # report.key THEN by[k]
     ELSE IF k \in DOMAIN by THEN Enriched(by[k], report) ELSE FirstSeen(report)]

\* Reports that show enough to be worth reading.
Worthwhile(by) ==
  [k \in {k \in DOMAIN by : Known(by[k].mons) >= MinKnown} |-> by[k]]

-----------------------------------------------------------------------------
(* _attach_sets, for pages with structured sets; what is parsed from plain   *)
(* text is read slot by slot.                                               *)

\* The free slots of a species.
Fits(mons, aligned, s) == {i \in DOMAIN mons : aligned[i] = Unknown /\ mons[i] = s}

\* Each set goes to the first free slot of its species, or nowhere.
Aligned(mons, aligned, s) ==
  LET fits == Fits(mons, aligned, s)
  IN  IF fits = {} THEN aligned
      ELSE [aligned EXCEPT ![Min(fits)] = s]

-----------------------------------------------------------------------------
(* scrape *)

StartScrape ==
  /\ scrapePc \in {"idle", "done"}
  /\ scrapePc' = "tables" /\ current' = 1 /\ page' = 1 /\ shown' = <<>> /\ named' = FALSE
  /\ broken' = {} /\ raw' = <<>> /\ merged' = 0 /\ scraped' = NoneMerged /\ unread' = {}
  /\ UNCHANGED <<files, aged, reads>>

\* PokeAPI's name tables; without them no name is recognised.
ReadTables ==
  /\ scrapePc = "tables"
  /\ \E answer \in Answers : Fetch(Tables, answer)
  /\ named' = (files'[Tables] = "page")
  /\ scrapePc' = "list"
  /\ UNCHANGED <<current, page, shown, broken, raw, merged, scraped, unread>>

\* The reports of a listing page, as far as their names are recognised.
Recognised(reports) ==
  [i \in DOMAIN reports |->
     IF named THEN reports[i]
     ELSE [reports[i] EXCEPT !.mons = [j \in DOMAIN @ |-> Unknown]]]

\* A source is through with its reports; merge follows the last.
Through(reports) ==
  /\ raw' = raw \o reports /\ shown' = <<>> /\ page' = 1
  /\ IF current < Len(Sources)
     THEN current' = current + 1 /\ UNCHANGED scrapePc
     ELSE scrapePc' = "merge" /\ UNCHANGED current

\* A source reads page after page until one is empty, unreadable or the last.
ReadListing ==
  /\ scrapePc = "list"
  /\ LET u == ListingPage(current, page)
         its == Sources[current]
     IN  /\ \E answer \in Answers : Fetch(u, answer)
         /\ IF files'[u] # "page" THEN Through(shown)
            ELSE IF page = Len(its) THEN Through(shown \o Recognised(its[page]))
            ELSE /\ shown' = shown \o Recognised(its[page]) /\ page' = page + 1
                 /\ UNCHANGED <<scrapePc, current, raw>>
  /\ UNCHANGED <<named, broken, merged, scraped, unread>>

\* Fault: a page that breaks a source ends the listing.
FaultyBreakListing ==
  /\ scrapePc = "list"
  /\ \E answer \in Answers : Fetch(ListingPage(current, page), answer)
  /\ files'[ListingPage(current, page)] = "page"
  /\ broken' = broken \union {current}
  /\ scrapePc' = "merge"
  /\ UNCHANGED <<named, current, page, shown, raw, merged, scraped, unread>>

\* A source that raises contributes nothing; the others are not affected.
BreakListing ==
  /\ scrapePc = "list"
  /\ \E answer \in Answers : Fetch(ListingPage(current, page), answer)
  /\ files'[ListingPage(current, page)] = "page"
  /\ broken' = broken \union {current}
  /\ Through(<<>>)
  /\ UNCHANGED <<named, merged, scraped, unread>>

\* merge takes report after report.
Merge ==
  /\ scrapePc = "merge" /\ merged < Len(raw)
  /\ scraped' = MergedWith(scraped, raw[merged + 1]) /\ merged' = merged + 1
  /\ UNCHANGED <<files, aged, reads, scrapePc, current, page, shown, named, broken, raw, unread>>

\* What scrape keeps of the merged teams is read.
KeepTeams ==
  /\ scrapePc = "merge" /\ merged = Len(raw)
  /\ scraped' = Worthwhile(scraped) /\ unread' = DOMAIN scraped'
  /\ scrapePc' = "articles"
  /\ UNCHANGED <<files, aged, reads, current, page, shown, named, broken, raw, merged>>

\* One article, fetched once; its sets are to be attached if it can be parsed.
ReadArticle(k) ==
  /\ scrapePc = "articles" /\ k \in unread
  /\ LET a == scraped[k].article
         noSets == [i \in DOMAIN scraped[k].mons |-> Unknown]
     IN  /\ \E answer \in Answers : Fetch(ArticlePage(a), answer)
         /\ \E parsed \in BOOLEAN :
              scraped' = IF files'[ArticlePage(a)] = "page" /\ parsed /\ SetsOn[a] # <<>>
                         THEN [scraped EXCEPT ![k].sets = noSets] ELSE scraped
  /\ unread' = unread \ {k}
  /\ UNCHANGED <<scrapePc, current, page, shown, named, broken, raw, merged>>

\* Teams with sets that are still to be attached.
Loose == {k \in DOMAIN scraped : scraped[k].sets # <<>>
                                  /\ scraped[k].placed < Len(SetsOn[scraped[k].article])}

\* The articles are all there: team after team, set after set is attached.
AttachSet(k) ==
  /\ scrapePc = "articles" /\ unread = {} /\ k \in Loose
  /\ \A j \in Loose \ {k} : scraped[j].placed = 0
  /\ scraped' = [scraped EXCEPT
       ![k].sets = Aligned(scraped[k].mons, @, SetsOn[scraped[k].article][scraped[k].placed + 1]),
       ![k].placed = @ + 1]
  /\ UNCHANGED <<files, aged, reads, scrapePc, current, page, shown, named, broken, raw, merged,
                 unread>>

EndScrape ==
  /\ scrapePc = "articles" /\ unread = {} /\ Loose = {}
  /\ scrapePc' = "done"
  /\ UNCHANGED <<files, aged, reads, current, page, shown, named, broken, raw, merged, scraped,
                 unread>>

ScrapeNext ==
  \/ AgePages \/ StartScrape \/ ReadTables \/ ReadListing \/ BreakListing
  \/ Merge \/ KeepTeams \/ EndScrape
  \/ \E k \in unread : ReadArticle(k)
  \/ \E k \in Loose : AttachSet(k)

ScrapeSpec == ScrapeInit /\ [][ScrapeNext]_scrapeVars

-----------------------------------------------------------------------------
FoundTeam == [article : DOMAIN SetsOn, rank : Nat, mons : Mons, sets : Mons, placed : Nat]

ScrapeTypes ==
  /\ files \in [Urls -> {"none", "empty", "page"}] /\ aged \subseteq Urls
  /\ reads \in [Articles -> Nat]
  /\ scrapePc \in {"idle", "tables", "list", "merge", "articles", "done"}
  /\ current \in DOMAIN Sources /\ page \in DOMAIN Sources[current]
  /\ named \in BOOLEAN /\ broken \subseteq DOMAIN Sources
  /\ shown \in Seq(Report) /\ raw \in Seq(Report) /\ merged \in 0 .. Len(raw)
  /\ scraped \in [DOMAIN scraped -> FoundTeam] /\ DOMAIN scraped \subseteq Addresses
  /\ unread \subseteq DOMAIN scraped

\* All reports the kept pages of a source show.
Shown(s) == {r \in UNION {ToSet(Sources[s][p]) : p \in DOMAIN Sources[s]} :
               Known(r.mons) >= MinKnown}

\* "one broken source must not kill the pull": whatever happens to the others,
\* every report of a source whose pages are all there is among the teams.
OthersSurvive ==
  scrapePc \in {"articles", "done"} /\ named =>
    \A s \in DOMAIN Sources \ broken :
      (\A p \in DOMAIN Sources[s] : files[ListingPage(s, p)] = "page") =>
        \A r \in Shown(s) : r.key \in DOMAIN scraped

\* "keep the richest fields": in whatever order and company the sources list an
\* article, its team shows as many species as the best of them, and has a rank
\* if one of them knows it.
RichestKept ==
  scrapePc \in {"articles", "done"} =>
    \A k \in DOMAIN scraped : \A i \in DOMAIN raw : raw[i].key = k =>
      /\ Known(raw[i].mons) <= Known(scraped[k].mons)
      /\ scraped[k].rank = 0 => raw[i].rank = 0

Times(seq, s) == Cardinality({i \in DOMAIN seq : seq[i] = s})

\* A set read from an article is attached to a slot of its own species, each at
\* most once, and none is lost while a slot of its species is free.
SetsFit ==
  \A k \in DOMAIN scraped :
    LET t == scraped[k] IN
    t.sets # <<>> =>
      /\ \A i \in DOMAIN t.mons : t.sets[i] \in {Unknown, t.mons[i]}
      /\ scrapePc = "done" =>
           \A s \in ToSet(SetsOn[t.article]) :
             LET m == Times(t.mons, s)
                 n == Times(SetsOn[t.article], s)
             IN  Times(t.sets, s) = IF m < n THEN m ELSE n

\* "Each linked article is read once (cached)", by whichever pull gets it first.
ReadOnce == \A u \in Articles : reads[u] <= 1

\* Whatever fails in a scrape, what the others gave is complete, merged without
\* loss and never downloaded twice.
ScrapeSound == ScrapeTypes /\ OthersSurvive /\ RichestKept /\ SetsFit /\ ReadOnce

-----------------------------------------------------------------------------
(* What comments say and the code does not keep. *)

\* "A failed refresh falls back to the last cached copy, if any" (docstring of
\* _stale): no failure takes a page out of the cache.
CopyKept == [][\A u \in Urls : files[u] = "page" => files'[u] = "page"]_scrapeVars

\* "Same article from several sites -> one team" (docstring of merge), and
\* different articles are different teams.
OneTeamPerArticle ==
  scrapePc \in {"articles", "done"} =>
    \A i \in DOMAIN raw : Known(raw[i].mons) >= MinKnown =>
      \E k \in DOMAIN scraped : scraped[k].article = raw[i].article
=============================================================================
