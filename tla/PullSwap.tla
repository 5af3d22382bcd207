------------------------------ MODULE PullSwap -------------------------------
(***************************************************************************)
(* Several champions-mcp-pull processes on one data directory, beside the  *)
(* server that reads it (pull/__main__.py, db.py): paths name files, open  *)
(* files outlive their names, and every process uses the same two          *)
(* temporary paths.  PullCycle has one pull, and its stages, in detail.    *)
(*                                                                         *)
(* A file is what its tables hold: the roster ("none", "thin", "sound"),   *)
(* whether the observed teams are in, whether the build was finished.      *)
(***************************************************************************)
EXTENDS Integers

CONSTANTS Pulls, Files, None

VARIABLES
  dir,     \* path -> file or None
  file,    \* what each file holds
  pull,    \* [Pulls -> [pc, fd, counted]]: counted, the roster its counts show
  server   \* the file the running server has open, or None

vars == <<dir, file, pull, server>>

Blank == [roster |-> "none", corpus |-> FALSE, stamped |-> FALSE]
Idle  == [pc |-> "idle", fd |-> None, counted |-> "none"]

Free == Files \ ({dir[q] : q \in DOMAIN dir} \cup {pull[p].fd : p \in Pulls} \cup {server})

Init ==
  /\ dir = [q \in {"db", "tmp", "copy"} |-> None]
  /\ file = [f \in Files |-> Blank]
  /\ pull = [p \in Pulls |-> Idle]
  /\ server = None

-----------------------------------------------------------------------------
At(p, pc) == pull[p].pc = pc
Go(p, pc) == pull' = [pull EXCEPT ![p].pc = pc]

\* What an open file holds changes, whatever it is called by now.
Fill(p, v) == file' = [file EXCEPT ![pull[p].fd] = v]

\* db_tmp.unlink(missing_ok=True)
Start(p) ==
  /\ At(p, "idle") /\ Go(p, "open")
  /\ dir' = [dir EXCEPT !["tmp"] = None]
  /\ UNCHANGED <<file, server>>

\* Db(db_tmp, create=True) and reset_build_tables: a new file, unless
\* another pull has just made one.
OpenTmp(p) ==
  LET f == IF dir["tmp"] # None THEN dir["tmp"] ELSE CHOOSE f \in Free : TRUE IN
  /\ At(p, "open")
  /\ dir' = [dir EXCEPT !["tmp"] = f]
  /\ file' = [file EXCEPT ![f] = Blank]
  /\ pull' = [pull EXCEPT ![p].pc = "roster", ![p].fd = f]
  /\ UNCHANGED server

FetchRoster(p) ==
  /\ At(p, "roster") /\ Go(p, "corpus")
  /\ \E r \in {"thin", "sound"} : Fill(p, [file[pull[p].fd] EXCEPT !.roster = r])
  /\ UNCHANGED <<dir, server>>

IngestBuilds(p) ==
  /\ At(p, "corpus") /\ Go(p, "stamp")
  /\ Fill(p, [file[pull[p].fd] EXCEPT !.corpus = TRUE])
  /\ UNCHANGED <<dir, server>>

\* The end of build(): the counts are returned, the file is closed.
Stamp(p) ==
  /\ At(p, "stamp")
  /\ Fill(p, [file[pull[p].fd] EXCEPT !.stamped = TRUE])
  /\ pull' = [pull EXCEPT ![p] = [pc |-> "judge", fd |-> None,
                                  counted |-> file[pull[p].fd].roster]]
  /\ UNCHANGED <<dir, server>>

\* Path.replace raises when there is nothing under the temporary name.
Replace(from) ==
  dir' = IF dir[from] = None THEN dir
         ELSE [dir EXCEPT !["db"] = dir[from], ![from] = None]

\* Fault: the counts are printed but not looked at.
FaultyJudge(p) ==
  /\ At(p, "judge")
  /\ Replace("tmp") /\ pull' = [pull EXCEPT ![p] = Idle]
  /\ UNCHANGED <<file, server>>

Judge(p) ==
  /\ At(p, "judge")
  /\ IF pull[p].counted = "sound"
     THEN Replace("tmp") /\ pull' = [pull EXCEPT ![p] = Idle]
     ELSE /\ dir' = [dir EXCEPT !["tmp"] = None]
          /\ Go(p, IF dir["db"] = None THEN "idle" ELSE "copy")
  /\ UNCHANGED <<file, server>>

\* Fault: the refresh opens the mirror itself.
FaultyCopyMirror(p) ==
  /\ At(p, "copy")
  /\ pull' = [pull EXCEPT ![p].pc = "clear", ![p].fd = dir["db"]]
  /\ UNCHANGED <<dir, file, server>>

\* _refresh_builds_only: unlink, copy2, Db(tmp).
CopyMirror(p) ==
  LET f == CHOOSE f \in Free : TRUE IN
  /\ At(p, "copy")
  /\ dir' = [dir EXCEPT !["copy"] = f]
  /\ file' = [file EXCEPT ![f] = file[dir["db"]]]
  /\ pull' = [pull EXCEPT ![p].pc = "clear", ![p].fd = f]
  /\ UNCHANGED server

\* ingest_builds: the tables are emptied, then filled.
ClearCorpus(p) ==
  /\ At(p, "clear") /\ Go(p, "refill")
  /\ Fill(p, [file[pull[p].fd] EXCEPT !.corpus = FALSE])
  /\ UNCHANGED <<dir, server>>

Refill(p) ==
  /\ At(p, "refill")
  /\ Fill(p, [file[pull[p].fd] EXCEPT !.corpus = TRUE])
  /\ pull' = [pull EXCEPT ![p].pc = "swapcopy", ![p].fd = None]
  /\ UNCHANGED <<dir, server>>

RefillRaises(p) ==
  /\ \/ At(p, "clear") \/ At(p, "refill")
  /\ dir' = [dir EXCEPT !["copy"] = None]
  /\ pull' = [pull EXCEPT ![p] = Idle]
  /\ UNCHANGED <<file, server>>

SwapCopy(p) ==
  /\ At(p, "swapcopy")
  /\ Replace("copy") /\ pull' = [pull EXCEPT ![p] = Idle]
  /\ UNCHANGED <<file, server>>

\* A stage raises, or the process is killed: names stay as they are.
Dies(p) ==
  /\ ~At(p, "idle") /\ pull' = [pull EXCEPT ![p] = Idle]
  /\ UNCHANGED <<dir, file, server>>

\* Db(settings.db_path), by a server that is started again.
Serve ==
  /\ dir["db"] # None /\ server' = dir["db"]
  /\ UNCHANGED <<dir, file, pull>>

Next ==
  \/ Serve
  \/ \E p \in Pulls :
       \/ Start(p) \/ OpenTmp(p) \/ FetchRoster(p) \/ IngestBuilds(p) \/ Stamp(p)
       \/ Judge(p) \/ CopyMirror(p) \/ ClearCorpus(p) \/ Refill(p)
       \/ RefillRaises(p) \/ SwapCopy(p) \/ Dies(p)

Spec == Init /\ [][Next]_vars
-----------------------------------------------------------------------------
Whole(f) == f = [roster |-> "sound", corpus |-> TRUE, stamped |-> TRUE]

\* "a bad pull must never overwrite a good existing mirror": what the path
\* of the mirror names is a finished, sound build, at any moment.
WholeMirror == dir["db"] # None => Whole(file[dir["db"]])

\* A pull never changes the file the running server reads: the server sees
\* the old mirror until it is started again.
ServedUnchanged ==
  [][server # None /\ server' = server => file'[server] = file[server]]_vars
=============================================================================
