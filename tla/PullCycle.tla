----------------------------- MODULE PullCycle ------------------------------
(***************************************************************************)
(* How the champions-mcp container gets and keeps its data: the start-up   *)
(* script docker/mcp/entrypoint.sh, the freshness check it asks, the pull  *)
(* it runs (pull/__main__.py, pull/build.py, pull/builds.py), up to the     *)
(* start of the server.                                                    *)
(*                                                                         *)
(* One process runs at a time, the script, the pull, then the server, but  *)
(* the container may be stopped between any two steps, any stage of a pull *)
(* may raise, and the volume outlives the container and code upgrades.     *)
(* Paths of the volume: "db" is db_path, "tmp" the build in progress       *)
(* (.sqlite.tmp), "copy" the corpus refresh (.sqlite.buildsrefresh.tmp).   *)
(***************************************************************************)
EXTENDS Integers

CONSTANTS Today, DataFormats,
          MaxAge,      \* CHAMPIONS_MCP_MAX_DATA_AGE_DAYS, 0 disables the check
          PageTTL,     \* days a pokechamp page may be served from pull-cache
          MaxStops     \* bound on how often the container is stopped

ASSUME DaysAssumption == Today \subseteq Nat /\ 0 \in Today
ASSUME FormatsAssumption == DataFormats \subseteq Nat \ {0}
ASSUME LimitsAssumption == MaxAge \in Nat /\ PageTTL \in Nat /\ MaxStops \in Nat

VARIABLES
  disk,       \* the three files of the volume
  pc,         \* where the container's process is
  env,        \* the settings the container was started with
  failed,     \* the pull of this start exited non-zero
  code,       \* db.DATA_FORMAT of the image
  day,        \* the wall clock
  stops       \* how often the container was stopped

vars == <<disk, pc, env, failed, code, day, stops>>

\* What the pull writes into a new file before its first stage.
Nothing == [kind |-> "mirror", sound |-> FALSE, roster |-> 0, corpus |-> FALSE,
            reports |-> FALSE, observed |-> FALSE, format |-> 0, built |-> -1]
Absent  == [Nothing EXCEPT !.kind = "absent"]
Broken  == [Nothing EXCEPT !.kind = "unreadable"]

\* A mirror pulled by code older than data_format, in the state it left it.
Legacy  == [Nothing EXCEPT !.sound = TRUE, !.corpus = TRUE]

Store == INSTANCE MirrorStore WITH mirror <- disk["db"]

Stages == {"create", "roster", "reference", "corpus", "reports", "stamp",
           "judge", "copy", "refill", "swapcopy"}

Init ==
  /\ disk \in [{"db", "tmp", "copy"} -> {Absent, Broken, Legacy}]
  /\ disk["tmp"] = Absent /\ disk["copy"] = Absent
  /\ pc = "down"
  /\ env = [force |-> FALSE, builds |-> TRUE, reports |-> TRUE]
  /\ failed = FALSE
  /\ code \in DataFormats
  /\ day = 0
  /\ stops = 0

-----------------------------------------------------------------------------
\* freshness.check: 0 fresh, 10 stale, 11 no usable database.  A missing
\* data_format counts as 1; a missing build date never makes a file stale.
Freshness(f) ==
  IF f.kind # "mirror" THEN 11
  ELSE IF (IF f.format = 0 THEN 1 ELSE f.format) < code THEN 10
  ELSE IF MaxAge > 0 /\ f.built # -1 /\ day - f.built > MaxAge THEN 10
  ELSE 0

\* Docker starts the container (restart: unless-stopped, or by hand with
\* other settings).  The script first removes what an interrupted pull left.
Boot ==
  /\ pc = "down"
  /\ pc' = "check"
  /\ env' \in [force : BOOLEAN, builds : BOOLEAN, reports : BOOLEAN]
  /\ disk' = [disk EXCEPT !["tmp"] = Absent, !["copy"] = Absent]
  /\ failed' = FALSE
  /\ UNCHANGED <<code, day, stops>>

\* Fault: only a missing database or a forced refresh starts a pull.
FaultyNeedsPull == disk["db"].kind = "absent" \/ env.force

NeedsPull ==
  \/ disk["db"].kind = "absent"
  \/ env.force
  \/ Freshness(disk["db"]) # 0

Check ==
  /\ pc = "check"
  /\ pc' = IF NeedsPull THEN "create" ELSE "serving"
  /\ UNCHANGED <<disk, env, failed, code, day, stops>>

\* The pull process goes on to its next stage, having written to a path...
Write(path, f, next) ==
  /\ disk' = [disk EXCEPT ![path] = f]
  /\ pc' = next
  /\ UNCHANGED <<env, failed, code, day, stops>>

\* ... or ends by an exception, leaving its files as they are.
Raise ==
  /\ pc' = "decide"
  /\ failed' = TRUE
  /\ UNCHANGED <<disk, env, code, day, stops>>

\* db_tmp.unlink(); Db(db_tmp, create=True); reset_build_tables().
CreateTmp == pc = "create" /\ Write("tmp", Nothing, "roster")

\* Days a page read now may date from: the pull cache serves one for PageTTL
\* days, and this process or an earlier one may have cached it.
PageDays == {d \in Today : d <= day /\ day - d <= PageTTL}

\* parse_pokechamp + build_mega_forms: whatever the upstream ranked when its
\* pages were fetched.
FetchRoster(sound) ==
  /\ pc = "roster"
  /\ \E d \in PageDays :
       Write("tmp", [disk["tmp"] EXCEPT !.sound = sound, !.roster = d], "reference")

\* enrich (PokeAPI) and ingest_smogon_sets, which no property tells apart;
\* --skip-builds goes straight to the stamp.
FetchReference ==
  /\ pc = "reference"
  /\ pc' = IF env.builds THEN "corpus" ELSE "stamp"
  /\ UNCHANGED <<disk, env, failed, code, day, stops>>

\* ingest_builds: the corpus tables are cleared, then hold what the two
\* exports returned, possibly nothing.
Ingested(f, some) == [f EXCEPT !.corpus = some, !.observed = FALSE]

IngestBuilds ==
  /\ pc = "corpus"
  /\ \E some \in BOOLEAN :
       Write("tmp", Ingested(disk["tmp"], some),
             IF env.reports THEN "reports" ELSE "stamp")

\* pull_reports: the same teams go to full_teams and to build_teams.
PullReports ==
  /\ pc = "reports"
  /\ \E some \in BOOLEAN :
       Write("tmp", [disk["tmp"] EXCEPT !.reports = some, !.observed = some],
             "stamp")

\* A network stage of the build raises; only the temp file is closed.
BuildRaises ==
  /\ pc \in {"roster", "reference", "corpus", "reports"}
  /\ Raise

\* The last statements of build(): generated_at, data_format, counts.
Stamp ==
  /\ pc = "stamp"
  /\ Write("tmp", [disk["tmp"] EXCEPT !.format = code, !.built = day], "judge")

\* Fault: the build is swapped in without looking at the counts.
FaultyJudge ==
  /\ pc = "judge"
  /\ disk' = [disk EXCEPT !["db"] = disk["tmp"], !["tmp"] = Absent]
  /\ pc' = "decide"
  /\ UNCHANGED <<env, failed, code, day, stops>>

\* The EXPECTED check: a sound build replaces the mirror; a thin one is
\* dropped, and the corpus alone is refreshed if there is a mirror.
Judge ==
  /\ pc = "judge"
  /\ \/ /\ disk["tmp"].sound
        /\ disk' = [disk EXCEPT !["db"] = disk["tmp"], !["tmp"] = Absent]
        /\ pc' = "decide"
        /\ UNCHANGED failed
     \/ /\ ~disk["tmp"].sound
        /\ disk' = [disk EXCEPT !["tmp"] = Absent]
        /\ pc' = IF env.builds /\ disk["db"].kind # "absent" THEN "copy" ELSE "decide"
        /\ failed' = TRUE
  /\ UNCHANGED <<env, code, day, stops>>

-----------------------------------------------------------------------------
\* _refresh_builds_only: copy the mirror, add missing tables...
CopyMirror ==
  /\ pc = "copy"
  /\ Write("copy", disk["db"], "refill")

\* Fault: the refresh also renews the build date.
FaultyRefill ==
  /\ pc = "refill"
  /\ disk["copy"].kind = "mirror"
  /\ \E some \in BOOLEAN :
       Write("copy", [Ingested(disk["copy"], some) EXCEPT !.built = day], "swapcopy")

\* ... ingest into the copy (ensure_schema raises on an unreadable one)...
Refill ==
  /\ pc = "refill"
  /\ disk["copy"].kind = "mirror"
  /\ \E some \in BOOLEAN :
       Write("copy", Ingested(disk["copy"], some), "swapcopy")

\* ... any exception drops the copy...
RefillRaises ==
  /\ pc = "refill"
  /\ Write("copy", Absent, "decide")

\* ... and otherwise swap it in.  The pull still exits 1.
SwapCopy ==
  /\ pc = "swapcopy"
  /\ disk' = [disk EXCEPT !["db"] = disk["copy"], !["copy"] = Absent]
  /\ pc' = "decide"
  /\ UNCHANGED <<env, failed, code, day, stops>>

-----------------------------------------------------------------------------
\* Fault: a failed pull ends the script (set -e without the || branch).
FaultyDecide ==
  /\ pc = "decide"
  /\ pc' = IF failed \/ disk["db"].kind = "absent" THEN "down" ELSE "serving"
  /\ UNCHANGED <<disk, env, failed, code, day, stops>>

\* Fault: the server is started in any case.
FaultyDecideAlways ==
  /\ pc = "decide"
  /\ pc' = "serving"
  /\ UNCHANGED <<disk, env, failed, code, day, stops>>

\* Back in the script: serve whatever database there is, or exit 1.
Decide ==
  /\ pc = "decide"
  /\ pc' = IF disk["db"].kind = "absent" THEN "down" ELSE "serving"
  /\ UNCHANGED <<disk, env, failed, code, day, stops>>

\* The container is stopped or killed, at any point.
Stop ==
  /\ pc # "down"
  /\ stops < MaxStops
  /\ stops' = stops + 1
  /\ pc' = "down"
  /\ UNCHANGED <<disk, env, failed, code, day>>

\* The image is rebuilt from newer code while the container is down.
Upgrade ==
  /\ pc = "down"
  /\ \E f \in DataFormats : f > code /\ code' = f
  /\ UNCHANGED <<disk, pc, env, failed, day, stops>>

\* A day passes while no pull is running (a pull takes minutes).
NextDay ==
  /\ pc \in {"down", "serving"}
  /\ day + 1 \in Today
  /\ day' = day + 1
  /\ UNCHANGED <<disk, pc, env, failed, code, stops>>

Pull ==
  \/ CreateTmp \/ (\E sound \in BOOLEAN : FetchRoster(sound)) \/ FetchReference
  \/ IngestBuilds \/ PullReports \/ BuildRaises \/ Stamp \/ Judge
  \/ CopyMirror \/ Refill \/ RefillRaises \/ SwapCopy

Next == Boot \/ Check \/ Pull \/ Decide \/ Stop \/ Upgrade \/ NextDay

\* Docker restarts the container, and a started script goes on to its end:
\* every request of a pull has a timeout (config.py http_timeout).
Fairness == WF_vars(Boot) /\ WF_vars(Check) /\ WF_vars(Pull) /\ WF_vars(Decide)

\* The upstreams recover: from some point on no stage of a build raises, and
\* pokechamp.gg ranks everything again.
UpstreamsRecover == <>[][~BuildRaises /\ ~FetchRoster(FALSE)]_vars

Spec == Init /\ [][Next]_vars
FairSpec == Spec /\ Fairness
-----------------------------------------------------------------------------
TypeOK ==
  /\ disk \in [{"db", "tmp", "copy"} -> Store!File]
  /\ pc \in Stages \cup {"down", "check", "decide", "serving"}
  /\ env \in [force : BOOLEAN, builds : BOOLEAN, reports : BOOLEAN]
  /\ failed \in BOOLEAN
  /\ code \in DataFormats
  /\ day \in Today
  /\ stops \in 0 .. MaxStops

\* Data the freshness check calls fresh has a recent roster: neither a page
\* cache nor a corpus refresh, which keeps an old roster, passes for a pull.
FreshIsRecent ==
  Freshness(disk["db"]) = 0 /\ MaxAge > 0 /\ disk["db"].built # -1 =>
    day - disk["db"].roster <= MaxAge + PageTTL

\* Once there is a usable mirror there always is one: no failing stage, no
\* thin upstream and no stop in the middle costs the data already there.
MirrorKept == [][Store!Usable(disk["db"]) => Store!Usable(disk'["db"])]_vars

\* The server starts on stale data only if this start's pull has failed.
StaleOnlyAfterFailure ==
  [][pc # "serving" /\ pc' = "serving" => Freshness(disk["db"]) = 0 \/ failed]_vars

\* The volume is the store the server takes it for.
IsMirrorStore == Store!Spec

\* With a mirror on the volume, upstream trouble never keeps the server
\* down: a container that starts ends up serving, however its pull goes.
ServesWhatItHas ==
  (pc = "down" /\ Store!Usable(disk["db"])) ~> pc = "serving"

\* From an empty or broken volume the server ends up with usable data, once
\* the upstreams answer.
FirstBuild ==
  UpstreamsRecover =>
    (disk["db"].kind = "absent" ~> pc = "serving" /\ Store!Usable(disk["db"]))

-----------------------------------------------------------------------------
(* What comments say and the code does not keep. *)

\* db.py on DATA_FORMAT 3: "report teams also in build_teams/build_members".
ReportTeamsObserved ==
  disk["db"].format >= 3 /\ disk["db"].reports => disk["db"].observed

\* entrypoint.sh: a forced pull whose validation fails "leaves an already-good
\* existing DB untouched".
UntouchedByFailedPull ==
  [][env.force /\ failed /\ Store!Usable(disk["db"]) => disk'["db"] = disk["db"]]_vars

\* entrypoint.sh: "only bail if that left us with no usable DB at all".
ServesReadable == pc = "serving" => disk["db"].kind = "mirror"
=============================================================================
