-------------------------- MODULE PullPartsProofs ---------------------------
(***************************************************************************)
(* Proofs about PullSwap with one pull at a time, which may be killed      *)
(* between any two steps, and any number of files.  With two at once       *)
(* WholeMirror fails.  The argument: the three paths never name the same   *)
(* file, nor does the server read one that a temporary path names; and at  *)
(* each step of the pull the file it fills is known to be as far as the    *)
(* step says.                                                              *)
(*                                                                         *)
(* Proofs about PullCache, for any sites, lifetimes and number of pulls.   *)
(* The argument: a row says what its page has said since its last change,  *)
(* so what is read of it is older than its lifetime at most; and where a   *)
(* season is published, of two seasons in a row before it one was there    *)
(* already, which the pull that misses both has read too early to miss     *)
(* more than its lifetime.                                                 *)
(*                                                                         *)
(* Proofs about ObservedCorpus, for any sources, about ReportText, for any *)
(* article, and about TeamReports, for any listings: their arguments stand *)
(* before them.                                                            *)
(***************************************************************************)
EXTENDS PullSwap, PullCache, ObservedCorpus, TeamReports, ReportText, SequenceTheorems,
        FiniteSetTheorems, WellFoundedInduction, TLAPS

Paths == {"db", "tmp", "copy"}

Contents == [roster : {"none", "thin", "sound"}, corpus : BOOLEAN, stamped : BOOLEAN]

PullState == [pc : {"idle", "open", "roster", "corpus", "stamp", "judge", "copy",
                    "clear", "refill", "swapcopy"},
              fd : Files \cup {None},
              counted : {"none", "thin", "sound"}]

TypeOK ==
  /\ dir \in [Paths -> Files \cup {None}]
  /\ file \in [Files -> Contents]
  /\ pull \in [Pulls -> PullState]
  /\ server \in Files \cup {None}

\* No file has two names, and the server's has none but the mirror's.
FilesApart ==
  /\ \A q, r \in Paths : q # r /\ dir[q] # None => dir[q] # dir[r]
  /\ server # None => server # dir["tmp"] /\ server # dir["copy"]

\* The file at this path is what the pull writes.
Writes(p, q) == dir[q] # None /\ pull[p].fd = dir[q]

\* How far the pull is with its file.
Progress(p) ==
  /\ At(p, "open") => dir["tmp"] = None
  /\ At(p, "roster") \/ At(p, "corpus") \/ At(p, "stamp") => Writes(p, "tmp")
  /\ At(p, "stamp") => file[dir["tmp"]].corpus
  /\ At(p, "judge") =>
       /\ dir["tmp"] # None
       /\ file[dir["tmp"]] = [roster |-> pull[p].counted, corpus |-> TRUE, stamped |-> TRUE]
  /\ At(p, "copy") => dir["db"] # None /\ dir["tmp"] = None
  /\ At(p, "clear") \/ At(p, "refill") =>
       /\ Writes(p, "copy")
       /\ file[dir["copy"]].roster = "sound" /\ file[dir["copy"]].stamped
  /\ At(p, "swapcopy") => dir["copy"] # None /\ Whole(file[dir["copy"]])

\* Room on the disk: besides those in use there is always another file.
Room == \A a, b, c, d : Files \ {a, b, c, d} # {}

SwapInv(p) == TypeOK /\ FilesApart /\ Progress(p) /\ WholeMirror

\* A new file is none of those named, written or served.
LEMMA FreeFile ==
  ASSUME NEW p, Pulls = {p}, Room, None \notin Files, TypeOK, dir["tmp"] = None
  PROVE  LET f == CHOOSE f \in Free : TRUE
         IN  /\ f \in Files /\ f # None
             /\ f # dir["db"] /\ f # dir["tmp"] /\ f # dir["copy"] /\ f # server
<1>1. Free = Files \ {dir["db"], dir["copy"], pull[p].fd, server}
  BY DEF Free, TypeOK, Paths
<1>2. Free # {}
  BY <1>1 DEF Room
<1> QED
  BY <1>1, <1>2

LEMMA SwapInit ==
  ASSUME NEW p, Pulls = {p}, Init PROVE SwapInv(p)
<1>1. TypeOK
  BY DEF Init, TypeOK, PullState, Paths, Contents, Blank, Idle
<1>2. \A q \in Paths : dir[q] = None
  BY DEF Init, Paths
<1> QED
  BY <1>1, <1>2 DEF Init, SwapInv, FilesApart, Progress, WholeMirror, At, Idle, Paths

-----------------------------------------------------------------------------
LEMMA CorpusExcept ==
  ASSUME NEW c \in Contents, NEW b \in BOOLEAN
  PROVE  [c EXCEPT !.corpus = b] = [roster |-> c.roster, corpus |-> b, stamped |-> c.stamped]
  BY DEF Contents

\* Writing an open file leaves every other file as it is.
LEMMA FillIs ==
  ASSUME TypeOK, NEW p \in Pulls, NEW v \in Contents, pull[p].fd \in Files, Fill(p, v)
  PROVE  /\ file' \in [Files -> Contents]
         /\ file'[pull[p].fd] = v
         /\ \A f \in Files \ {pull[p].fd} : file'[f] = file[f]
  BY DEF TypeOK, Fill

LEMMA GoIs ==
  ASSUME TypeOK, NEW p, Pulls = {p}, NEW x, Go(p, x)
  PROVE  pull'[p] = [pc |-> x, fd |-> pull[p].fd, counted |-> pull[p].counted]
  BY DEF TypeOK, PullState, Go

LEMMA OpenedIs ==
  ASSUME TypeOK, NEW p, Pulls = {p}, NEW x \in {"roster", "clear"}, NEW f \in Files,
         pull' = [pull EXCEPT ![p].pc = x, ![p].fd = f]
  PROVE  /\ pull'[p] = [pc |-> x, fd |-> f, counted |-> pull[p].counted]
         /\ pull' \in [Pulls -> PullState]
<1>1. pull'[p] = [pc |-> x, fd |-> f, counted |-> pull[p].counted]
  BY DEF TypeOK, PullState
<1>2. DOMAIN pull' = Pulls /\ pull' = [u \in DOMAIN pull' |-> pull'[u]]
  BY DEF TypeOK
<1>3. pull[p].counted \in {"none", "thin", "sound"}
  BY DEF TypeOK, PullState
<1>4. [pc |-> x, fd |-> f, counted |-> pull[p].counted] \in PullState
  BY <1>3 DEF PullState
<1> QED
  BY <1>1, <1>2, <1>4

\* The stages that fill a file under a temporary path: neither the mirror nor
\* what the server reads is that file.
LEMMA FillKeepsApart ==
  ASSUME NEW p, Pulls = {p}, SwapInv(p), NEW q \in {"tmp", "copy"}, Writes(p, q),
         NEW v \in Contents, Fill(p, v), UNCHANGED <<dir, server>>
  PROVE  /\ file' \in [Files -> Contents] /\ file'[dir[q]] = v
         /\ FilesApart' /\ WholeMirror'
         /\ server # None => file'[server] = file[server]
<1>1. /\ dir[q] # None /\ pull[p].fd = dir[q] /\ dir[q] \in Files /\ p \in Pulls
      /\ dir["db"] # dir[q] /\ dir["db"] \in Files \cup {None}
      /\ server # dir[q] /\ server \in Files \cup {None}
  BY DEF SwapInv, TypeOK, FilesApart, Paths, Writes
<1>2. /\ file' \in [Files -> Contents] /\ file'[dir[q]] = v
      /\ \A f \in Files \ {dir[q]} : file'[f] = file[f]
  BY <1>1, FillIs DEF SwapInv
<1> QED
  BY <1>1, <1>2 DEF SwapInv, FilesApart, WholeMirror

LEMMA BuildKeepsInv ==
  ASSUME NEW p, Pulls = {p}, SwapInv(p), FetchRoster(p) \/ IngestBuilds(p) \/ Stamp(p)
  PROVE  SwapInv(p)' /\ (server # None => file'[server] = file[server])
<1>1. /\ Writes(p, "tmp") /\ UNCHANGED <<dir, server>> /\ dir["tmp"] \in Files
      /\ pull[p].fd = dir["tmp"] /\ file[dir["tmp"]] \in Contents
      /\ At(p, "roster") \/ At(p, "corpus") \/ At(p, "stamp")
  BY DEF SwapInv, TypeOK, Progress, Paths, Writes, FetchRoster, IngestBuilds, Stamp
<1>2. CASE FetchRoster(p)
  <2>1. PICK r \in {"thin", "sound"} : Fill(p, [file[dir["tmp"]] EXCEPT !.roster = r])
    BY <1>1, <1>2 DEF FetchRoster
  <2>2. [file[dir["tmp"]] EXCEPT !.roster = r] \in Contents
    BY <1>1 DEF Contents
  <2>3. /\ pull'[p] = [pc |-> "corpus", fd |-> pull[p].fd, counted |-> pull[p].counted]
        /\ Go(p, "corpus")
    BY <1>2, GoIs DEF FetchRoster, SwapInv
  <2>4. /\ file' \in [Files -> Contents] /\ FilesApart' /\ WholeMirror'
        /\ server # None => file'[server] = file[server]
    BY <1>1, <2>1, <2>2, FillKeepsApart
  <2>5. TypeOK'
    BY <1>1, <2>3, <2>4 DEF SwapInv, TypeOK, PullState, Go
  <2>6. Progress(p)'
    BY <1>1, <2>3 DEF Progress, At, Writes
  <2> QED
    BY <2>4, <2>5, <2>6 DEF SwapInv
<1>3. CASE IngestBuilds(p)
  <2>1. Fill(p, [file[dir["tmp"]] EXCEPT !.corpus = TRUE])
    BY <1>1, <1>3 DEF IngestBuilds
  <2>2. [file[dir["tmp"]] EXCEPT !.corpus = TRUE] \in Contents
    BY <1>1 DEF Contents
  <2>3. /\ pull'[p] = [pc |-> "stamp", fd |-> pull[p].fd, counted |-> pull[p].counted]
        /\ Go(p, "stamp")
    BY <1>3, GoIs DEF IngestBuilds, SwapInv
  <2>4. /\ file' \in [Files -> Contents] /\ FilesApart' /\ WholeMirror'
        /\ file'[dir["tmp"]] = [file[dir["tmp"]] EXCEPT !.corpus = TRUE]
        /\ server # None => file'[server] = file[server]
    BY <1>1, <2>1, <2>2, FillKeepsApart
  <2>5. TypeOK'
    BY <1>1, <2>3, <2>4 DEF SwapInv, TypeOK, PullState, Go
  <2>6. file'[dir["tmp"]].corpus
    BY <1>1, <2>4 DEF Contents
  <2>7. Progress(p)'
    BY <1>1, <2>3, <2>6 DEF Progress, At, Writes
  <2> QED
    BY <2>4, <2>5, <2>7 DEF SwapInv
<1>4. CASE Stamp(p)
  <2>1. Fill(p, [file[dir["tmp"]] EXCEPT !.stamped = TRUE])
    BY <1>1, <1>4 DEF Stamp
  <2>2. [file[dir["tmp"]] EXCEPT !.stamped = TRUE] \in Contents
    BY <1>1 DEF Contents
  <2>3. pull'[p] = [pc |-> "judge", fd |-> None, counted |-> file[dir["tmp"]].roster]
    BY <1>1, <1>4 DEF Stamp, SwapInv, TypeOK
  <2>4. /\ file' \in [Files -> Contents] /\ FilesApart' /\ WholeMirror'
        /\ file'[dir["tmp"]] = [file[dir["tmp"]] EXCEPT !.stamped = TRUE]
        /\ server # None => file'[server] = file[server]
    BY <1>1, <2>1, <2>2, FillKeepsApart
  <2>5. TypeOK'
    <3>1. file[dir["tmp"]].roster \in {"none", "thin", "sound"}
      BY <1>1 DEF Contents
    <3> QED
      BY <1>1, <1>4, <2>4, <3>1 DEF SwapInv, TypeOK, PullState, Stamp
  <2>6. file[dir["tmp"]].corpus = TRUE
    BY <1>1, <1>4 DEF SwapInv, Progress, Stamp, Contents
  <2>7. file'[dir["tmp"]] = [roster |-> file[dir["tmp"]].roster, corpus |-> TRUE, stamped |-> TRUE]
    BY <1>1, <2>4, <2>6 DEF Contents
  <2>8. Progress(p)'
    BY <1>1, <2>3, <2>7 DEF Progress, At, Writes
  <2> QED
    BY <2>4, <2>5, <2>8 DEF SwapInv
<1> QED
  BY <1>2, <1>3, <1>4

\* The refresh fills its copy in the same way.
LEMMA RefillKeepsInv ==
  ASSUME NEW p, Pulls = {p}, SwapInv(p), ClearCorpus(p) \/ Refill(p)
  PROVE  SwapInv(p)' /\ (server # None => file'[server] = file[server])
<1>1. /\ Writes(p, "copy") /\ UNCHANGED <<dir, server>> /\ dir["copy"] \in Files
      /\ pull[p].fd = dir["copy"] /\ file[dir["copy"]] \in Contents
      /\ file[dir["copy"]].roster = "sound" /\ file[dir["copy"]].stamped = TRUE
  BY DEF SwapInv, TypeOK, Progress, Paths, Writes, ClearCorpus, Refill, Contents
<1>2. \A b \in BOOLEAN : [file[dir["copy"]] EXCEPT !.corpus = b]
                           = [roster |-> "sound", corpus |-> b, stamped |-> TRUE]
  BY <1>1, CorpusExcept
<1>3. \A b \in BOOLEAN : [roster |-> "sound", corpus |-> b, stamped |-> TRUE] \in Contents
  BY DEF Contents
<1>4. CASE ClearCorpus(p)
  <2>1. Fill(p, [roster |-> "sound", corpus |-> FALSE, stamped |-> TRUE])
    BY <1>1, <1>2, <1>4 DEF ClearCorpus
  <2>2. /\ pull'[p] = [pc |-> "refill", fd |-> pull[p].fd, counted |-> pull[p].counted]
        /\ Go(p, "refill")
    BY <1>4, GoIs DEF ClearCorpus, SwapInv
  <2>3. /\ file' \in [Files -> Contents] /\ FilesApart' /\ WholeMirror'
        /\ file'[dir["copy"]] = [roster |-> "sound", corpus |-> FALSE, stamped |-> TRUE]
        /\ server # None => file'[server] = file[server]
    BY <1>1, <1>3, <2>1, FillKeepsApart
  <2>4. TypeOK'
    BY <1>1, <2>2, <2>3 DEF SwapInv, TypeOK, PullState, Go
  <2>5. Progress(p)'
    BY <1>1, <2>2, <2>3 DEF Progress, At, Writes
  <2> QED
    BY <2>3, <2>4, <2>5 DEF SwapInv
<1>5. CASE Refill(p)
  <2>1. Fill(p, [roster |-> "sound", corpus |-> TRUE, stamped |-> TRUE])
    BY <1>1, <1>2, <1>5 DEF Refill
  <2>2. pull'[p] = [pc |-> "swapcopy", fd |-> None, counted |-> pull[p].counted]
    BY <1>5 DEF Refill, SwapInv, TypeOK, PullState
  <2>3. /\ file' \in [Files -> Contents] /\ FilesApart' /\ WholeMirror'
        /\ file'[dir["copy"]] = [roster |-> "sound", corpus |-> TRUE, stamped |-> TRUE]
        /\ server # None => file'[server] = file[server]
    BY <1>1, <1>3, <2>1, FillKeepsApart
  <2>4. TypeOK'
    <3>1. DOMAIN pull' = Pulls /\ pull' = [x \in DOMAIN pull' |-> pull'[x]]
      BY <1>5 DEF Refill, SwapInv, TypeOK
    <3>2. pull[p].counted \in {"none", "thin", "sound"}
      BY DEF SwapInv, TypeOK, PullState
    <3> QED
      BY <1>1, <2>2, <2>3, <3>1, <3>2 DEF SwapInv, TypeOK, PullState
  <2>5. Progress(p)'
    BY <1>1, <2>2, <2>3 DEF Progress, At, Writes, Whole
  <2> QED
    BY <2>3, <2>4, <2>5 DEF SwapInv
<1> QED
  BY <1>4, <1>5

-----------------------------------------------------------------------------
\* The steps that give a path another file, or none.
LEMMA NamesKeepInv ==
  ASSUME NEW p, Pulls = {p}, Room, None \notin Files, SwapInv(p), OpenTmp(p) \/ CopyMirror(p)
  PROVE  SwapInv(p)' /\ (server # None => file'[server] = file[server])
<1> DEFINE new == CHOOSE f \in Free : TRUE
<1>1. /\ new \in Files /\ new # None
      /\ new # dir["db"] /\ new # dir["tmp"] /\ new # dir["copy"] /\ new # server
  BY FreeFile DEF SwapInv, Progress, OpenTmp, CopyMirror
<1> HIDE DEF new
<1>2. /\ dir \in [Paths -> Files \cup {None}] /\ file \in [Files -> Contents]
      /\ p \in Pulls /\ server \in Files \cup {None} /\ WholeMirror /\ FilesApart
      /\ pull[p].counted \in {"none", "thin", "sound"}
  BY DEF SwapInv, TypeOK, PullState
<1>3. CASE OpenTmp(p)
  <2>1. dir["tmp"] = None /\ dir' = [dir EXCEPT !["tmp"] = new]
        /\ file' = [file EXCEPT ![new] = Blank] /\ server' = server
    BY <1>3 DEF OpenTmp, SwapInv, Progress, new
  <2>2. pull' = [pull EXCEPT ![p].pc = "roster", ![p].fd = new]
    BY <1>3, <2>1 DEF OpenTmp, new
  <2>3. /\ pull'[p] = [pc |-> "roster", fd |-> new, counted |-> pull[p].counted]
        /\ pull' \in [Pulls -> PullState]
    BY <1>1, <2>2, OpenedIs DEF SwapInv
  <2>4. Blank \in Contents
    BY DEF Blank, Contents
  <2>5. /\ dir'["tmp"] = new /\ dir'["db"] = dir["db"] /\ dir'["copy"] = dir["copy"]
        /\ \A f \in Files \ {new} : file'[f] = file[f]
    BY <1>2, <2>1 DEF Paths
  <2>6. TypeOK'
    BY <1>1, <1>2, <2>1, <2>3, <2>4 DEF TypeOK
  <2>7. FilesApart' /\ WholeMirror'
    BY <1>1, <1>2, <2>1, <2>5 DEF FilesApart, WholeMirror, Paths
  <2>8. Progress(p)'
    BY <1>1, <2>3, <2>5 DEF Progress, At, Writes
  <2> QED
    BY <1>1, <1>2, <2>1, <2>5, <2>6, <2>7, <2>8 DEF SwapInv
<1>4. CASE CopyMirror(p)
  <2>1. /\ dir["db"] # None /\ dir' = [dir EXCEPT !["copy"] = new]
        /\ file' = [file EXCEPT ![new] = file[dir["db"]]] /\ server' = server
        /\ pull' = [pull EXCEPT ![p].pc = "clear", ![p].fd = new]
    BY <1>4 DEF CopyMirror, SwapInv, Progress, new
  <2>2. /\ pull'[p] = [pc |-> "clear", fd |-> new, counted |-> pull[p].counted]
        /\ pull' \in [Pulls -> PullState]
    BY <1>1, <2>1, OpenedIs DEF SwapInv
  <2>3. dir["db"] \in Files /\ file[dir["db"]] \in Contents /\ Whole(file[dir["db"]])
    BY <1>2, <2>1 DEF Paths, WholeMirror
  <2>4. /\ dir'["copy"] = new /\ dir'["db"] = dir["db"] /\ dir'["tmp"] = dir["tmp"]
        /\ \A f \in Files \ {new} : file'[f] = file[f]
        /\ file'[new] = file[dir["db"]]
    BY <1>1, <1>2, <2>1 DEF Paths
  <2>5. TypeOK'
    BY <1>1, <1>2, <2>1, <2>2, <2>3 DEF TypeOK
  <2>6. FilesApart' /\ WholeMirror'
    BY <1>1, <1>2, <2>1, <2>4 DEF FilesApart, WholeMirror, Paths
  <2>7. Progress(p)'
    BY <1>1, <2>2, <2>3, <2>4 DEF Progress, At, Writes, Whole
  <2> QED
    BY <1>1, <1>2, <2>1, <2>4, <2>5, <2>6, <2>7 DEF SwapInv
<1> QED
  BY <1>3, <1>4

\* A swap puts a whole file in the mirror's place, if it does anything.
LEMMA SwapsKeepInv ==
  ASSUME NEW p, Pulls = {p}, None \notin Files, SwapInv(p),
         Start(p) \/ Judge(p) \/ RefillRaises(p) \/ SwapCopy(p) \/ Dies(p)
  PROVE  SwapInv(p)' /\ (server # None => file'[server] = file[server])
<1>1. /\ dir \in [Paths -> Files \cup {None}] /\ file \in [Files -> Contents]
      /\ p \in Pulls /\ server \in Files \cup {None} /\ WholeMirror /\ FilesApart
      /\ pull[p].counted \in {"none", "thin", "sound"} /\ pull[p].fd \in Files \cup {None}
  BY DEF SwapInv, TypeOK, PullState
<1>2. file' = file /\ server' = server
  BY DEF Start, Judge, RefillRaises, SwapCopy, Dies
\* Whichever it is, the paths are what they were, or lose a name to the mirror.
<1>3. /\ \/ dir' = dir
         \/ dir' = [dir EXCEPT !["tmp"] = None]
         \/ dir' = [dir EXCEPT !["copy"] = None]
         \/ \E q \in {"tmp", "copy"} :
              dir' = [dir EXCEPT !["db"] = dir[q], ![q] = None] /\ Whole(file[dir[q]])
      /\ pull'[p] \in {Idle} \cup
           {[pc |-> x, fd |-> pull[p].fd, counted |-> pull[p].counted] : x \in {"open", "copy", "idle"}}
      /\ pull'[p].pc = "open" => dir' = [dir EXCEPT !["tmp"] = None]
      /\ pull'[p].pc = "copy" => dir["db"] # None /\ dir' = [dir EXCEPT !["tmp"] = None]
  <2>1. CASE Start(p)
    <3>1. Go(p, "open") /\ dir' = [dir EXCEPT !["tmp"] = None]
      BY <2>1 DEF Start
    <3>2. pull'[p] = [pc |-> "open", fd |-> pull[p].fd, counted |-> pull[p].counted]
      BY <3>1, GoIs DEF SwapInv
    <3> QED
      BY <3>1, <3>2
  <2>2. CASE Judge(p)
    <3>1. CASE pull[p].counted = "sound"
      <4>1. Replace("tmp") /\ pull' = [pull EXCEPT ![p] = Idle] /\ Whole(file[dir["tmp"]])
        BY <2>2, <3>1 DEF Judge, SwapInv, Progress, Whole
      <4>2. pull'[p] = Idle
        BY <4>1 DEF SwapInv, TypeOK
      <4> QED
        BY <4>1, <4>2 DEF Replace, Idle
    <3>2. CASE pull[p].counted # "sound"
      <4>1. /\ dir' = [dir EXCEPT !["tmp"] = None]
            /\ Go(p, IF dir["db"] = None THEN "idle" ELSE "copy")
        BY <2>2, <3>2 DEF Judge
      <4>2. pull'[p] = [pc |-> IF dir["db"] = None THEN "idle" ELSE "copy",
                        fd |-> pull[p].fd, counted |-> pull[p].counted]
        BY <4>1, GoIs DEF SwapInv
      <4> QED
        BY <4>1, <4>2
    <3> QED
      BY <3>1, <3>2
  <2>3. CASE RefillRaises(p) \/ Dies(p)
    <3>1. pull'[p] = Idle /\ (dir' = dir \/ dir' = [dir EXCEPT !["copy"] = None])
      BY <2>3 DEF RefillRaises, Dies, SwapInv, TypeOK
    <3> QED
      BY <3>1 DEF Idle
  <2>4. CASE SwapCopy(p)
    <3>1. Replace("copy") /\ Whole(file[dir["copy"]]) /\ pull'[p] = Idle
      BY <2>4 DEF SwapCopy, SwapInv, Progress, TypeOK
    <3> QED
      BY <3>1 DEF Replace, Idle
  <2> QED
    BY <2>1, <2>2, <2>3, <2>4
<1>4. TypeOK'
  <2>1. dir' \in [Paths -> Files \cup {None}]
    BY <1>1, <1>3 DEF Paths
  <2>2. DOMAIN pull' = Pulls /\ pull' = [x \in DOMAIN pull' |-> pull'[x]]
    BY DEF Start, Judge, RefillRaises, SwapCopy, Dies, Go, SwapInv, TypeOK
  <2>3. pull'[p] \in PullState
    BY <1>1, <1>3 DEF Idle, PullState
  <2> QED
    BY <1>1, <1>2, <2>1, <2>2, <2>3 DEF TypeOK
<1>5. FilesApart' /\ WholeMirror'
  <2>1. CASE dir' = dir \/ dir' = [dir EXCEPT !["tmp"] = None] \/ dir' = [dir EXCEPT !["copy"] = None]
    BY <1>1, <1>2, <2>1 DEF FilesApart, WholeMirror, Paths
  <2>2. ASSUME NEW q \in {"tmp", "copy"}, dir' = [dir EXCEPT !["db"] = dir[q], ![q] = None],
               Whole(file[dir[q]])
        PROVE  FilesApart' /\ WholeMirror'
    BY <1>1, <1>2, <2>2 DEF FilesApart, WholeMirror, Paths
  <2> QED
    BY <1>3, <2>1, <2>2
<1>6. Progress(p)'
  BY <1>1, <1>2, <1>3 DEF Progress, At, Idle, Paths
<1> QED
  BY <1>2, <1>4, <1>5, <1>6 DEF SwapInv

LEMMA SwapNext ==
  ASSUME NEW p, Pulls = {p}, Room, None \notin Files, SwapInv(p), [Next]_vars
  PROVE  SwapInv(p)' /\ (server # None /\ server' = server => file'[server] = file[server])
<1>1. CASE Serve
  <2>1. SwapInv(p)'
    BY <1>1 DEF Serve, SwapInv, TypeOK, FilesApart, Progress, WholeMirror, At, Writes, Paths
  <2> QED
    BY <1>1, <2>1 DEF Serve
<1>2. CASE UNCHANGED vars
  BY <1>2 DEF vars, SwapInv, TypeOK, FilesApart, Progress, WholeMirror, At, Writes
<1>3. CASE FetchRoster(p) \/ IngestBuilds(p) \/ Stamp(p)
  BY <1>3, BuildKeepsInv
<1>4. CASE ClearCorpus(p) \/ Refill(p)
  BY <1>4, RefillKeepsInv
<1>5. CASE OpenTmp(p) \/ CopyMirror(p)
  BY <1>5, NamesKeepInv
<1>6. CASE Start(p) \/ Judge(p) \/ RefillRaises(p) \/ SwapCopy(p) \/ Dies(p)
  BY <1>6, SwapsKeepInv
<1> QED
  BY <1>1, <1>2, <1>3, <1>4, <1>5, <1>6 DEF Next

\* As long as no two pulls run at once, the mirror's path names nothing or a
\* finished, sound build, wherever a pull is killed: what one left under the
\* temporary paths never passes for another's work.
THEOREM SwapWholeMirror ==
  ASSUME NEW p, Pulls = {p}, Room, None \notin Files
  PROVE  Spec => []WholeMirror
<1>1. Init => SwapInv(p)
  BY SwapInit
<1>2. SwapInv(p) /\ [Next]_vars => SwapInv(p)'
  BY SwapNext
<1>3. SwapInv(p) => WholeMirror
  BY DEF SwapInv
<1> QED
  BY <1>1, <1>2, <1>3, PTL DEF Spec

\* Nor is the file the server has open ever written to.
THEOREM SwapServedUnchanged ==
  ASSUME NEW p, Pulls = {p}, Room, None \notin Files
  PROVE  Spec => ServedUnchanged
<1>1. Init => SwapInv(p)
  BY SwapInit
<1>2. SwapInv(p) /\ [Next]_vars => SwapInv(p)'
  BY SwapNext
<1>3. SwapInv(p) /\ [Next]_vars =>
        [server # None /\ server' = server => file'[server] = file[server]]_vars
  BY SwapNext
<1> QED
  BY <1>1, <1>2, <1>3, PTL DEF Spec, ServedUnchanged
-----------------------------------------------------------------------------
(* The pages: names, and the parts of the inductive invariant.              *)
Season(n) == <<"season", n>>
Standings(e) == <<"standings", e>>
Index(p) == <<"index", p>>

Seasons == 1 .. MaxSeason

\* A row says what the page has said since its last change, and never Html.
RowTrue(k) ==
  k \in DOMAIN cache =>
    /\ cache[k].value # Html
    /\ site[k] # Missing /\ changed[k] < cache[k].at => cache[k].value = site[k]

\* What the pull used is no older than a day when the pull began.
GotTrue(k) ==
  k \in DOMAIN got /\ site[k] # Missing /\ changed[k] + DayTtl < began => got[k] = site[k]

Rows == \A k \in Site \ Kept : RowTrue(k)
Used == \A k \in Site \ Kept : GotTrue(k)

\* What is kept was asked for as often as there are rows of it.
AskedRows == \A k \in Kept : asked[k] = IF k \in DOMAIN cache THEN 1 ELSE 0

\* Season n was published before season j: a row or an answer that misses it is
\* from before j.
Missed(n) == Season(n) \in DOMAIN got /\ got[Season(n)] \in {Missing, Html}

Precedes(n, j) ==
  /\ site[Season(n)] # Missing
  /\ Season(n) \in DOMAIN cache /\ cache[Season(n)].value = Missing =>
       cache[Season(n)].at <= changed[Season(j)]
  /\ Missed(n) => began <= changed[Season(j)] + DayTtl

\* Of two neighbouring seasons before a published one, one precedes it.
Gaps ==
  \A j \in Seasons, i \in Seasons :
    site[Season(j)] # Missing /\ i + 1 < j => Precedes(i, j) \/ Precedes(i + 1, j)

\* How far the scan of the seasons is.
AllGot(e) == \A n \in 1 .. e : Season(n) \in DOMAIN got
EndsAt(e) == AllGot(e) /\ (e = MaxSeason \/ (e >= 2 /\ Missed(e - 1) /\ Missed(e)))

Scan ==
  /\ pc \in {"sheet", "item", "index", "standings"} => misses = 0
  /\ pc = "season" =>
       /\ number \in 1 .. MaxSeason + 1 /\ misses \in {0, 1}
       /\ AllGot(number - 1)
       /\ misses = 1 => number >= 2 /\ Missed(number - 1)
  /\ pc \in {"gen", "done"} => \E e \in 0 .. MaxSeason : EndsAt(e)

\* Index page p, when l events were listed.
PageWhen(l, p) ==
  LET first == l - (p - 1) * PageSize
  IN  [i \in 1 .. (IF first < PageSize THEN IF first > 0 THEN first ELSE 0 ELSE PageSize)
         |-> first - i + 1]

\* A remembered index page is of a time when all was listed that is older.
ListedAt(l, at) == \A e \in 1 .. listed : changed[Standings(e)] < at => e <= l

IndexRow(p) ==
  Index(p) \in DOMAIN cache =>
    \E l \in 0 .. listed : cache[Index(p)].value = PageWhen(l, p) /\ ListedAt(l, cache[Index(p)].at)

IndexRows == \A p \in Nat \ {0} : IndexRow(p)

\* The newest events are in the list.
ListRead ==
  \A e \in 1 .. listed :
    changed[Standings(e)] + ShortTtl < began /\ listed - e < PageSize /\ listed - e < Limit =>
      \E i \in DOMAIN list : list[i] = e

Listing ==
  /\ number \in Nat \ {0}
  /\ list \in Seq(1 .. listed) /\ Len(list) <= Limit
  /\ pc \in {"sheet", "item"} => list = <<>>
  /\ pc = "index" /\ number = 1 => list = <<>>
  /\ (pc = "index" /\ number > 1) \/ pc \in {"standings", "season", "gen", "done"} => ListRead

Types ==
  /\ now \in 0 .. MaxTime /\ listed \in 0 .. MaxEvents
  /\ site \in [Site -> 0 .. MaxVersion] /\ changed \in [Site -> 0 .. now]
  /\ asked \in [Kept -> Nat] /\ DOMAIN cache \subseteq Keys
  /\ \A k \in DOMAIN cache : cache[k].at \in 0 .. now
  /\ pc \in {"idle", "sheet", "item", "index", "standings", "season", "gen", "done"}
  /\ began \in 0 .. now /\ left \subseteq Site /\ \A k \in left : k[1] = pc
  /\ DOMAIN got \subseteq Site

CacheInv ==
  Types /\ Rows /\ Used /\ AskedRows /\ Gaps /\ Scan /\ IndexRows /\ Listing /\ misses \in 0 .. 2

-----------------------------------------------------------------------------
\* Pages and their names.
LEMMA SeasonPages ==
  ASSUME NEW n \in Seasons
  PROVE  Season(n) \in Site /\ Season(n) \notin Kept /\ Season(n) \in Site \ Kept
BY DEF Season, Seasons, Site, Kept, Of

LEMMA StandingsPages ==
  ASSUME NEW e \in 1 .. MaxEvents
  PROVE  Standings(e) \in Site /\ Standings(e) \in Kept
BY DEF Standings, Site, Kept, Of

LEMMA IndexPages ==
  ASSUME NEW p \in Nat
  PROVE  Index(p) \in Keys /\ Index(p) \notin Site /\ Index(p) \notin Kept
BY DEF Index, Keys, Site, Kept, Of

LEMMA KeptPages == Kept \subseteq Site /\ Site \subseteq Keys
BY DEF Keys, Site, Kept, Of

\* What a read does: the row is good, or the site is asked and, but for an error
\* page, its answer becomes the row.
LEMMA GetCases ==
  ASSUME NEW k, NEW v, Get(k, v)
  PROVE  \/ Cached(k) /\ v = cache[k].value /\ cache' = cache /\ asked' = asked
         \/ /\ ~Cached(k) /\ v \in Online(k) /\ v = Html /\ k \in Site /\ cache' = Without(k)
            /\ asked' = IF k \in Kept THEN [asked EXCEPT ![k] = @ + 1] ELSE asked
         \/ /\ ~Cached(k) /\ v \in Online(k) /\ (k \in Site => v # Html)
            /\ cache' = [j \in DOMAIN cache \union {k} |->
                           IF j = k THEN [value |-> v, at |-> now] ELSE cache[j]]
            /\ asked' = IF k \in Kept THEN [asked EXCEPT ![k] = @ + 1] ELSE asked
BY DEF Get

\* The site answers with what the page says, if it says something.
LEMMA OnlineIsSite ==
  ASSUME NEW k \in Site, NEW v \in Online(k), Types, CacheAssumption
  PROVE  /\ site[k] # Missing => v = site[k] /\ v # Html
         /\ k \in Kept => v # Html
<1>1. site[k] \in 0 .. MaxVersion
  BY DEF Types
<1>2. k[1] # "index"
  BY DEF Site, Of
<1>3. k \in Kept => k[1] # "season"
  BY DEF Kept, Of
<1> QED BY <1>1, <1>2, <1>3 DEF Online, Missing, Empty, Html, CacheAssumption

\* The kinds of steps, as the rows see them.
LEMMA RowMoves ==
  ASSUME CacheNext, Types, Listing
  PROVE  \/ UNCHANGED <<now, site, changed, cache, asked, listed>>
         \/ Tick \/ List \/ \E k \in Site : Change(k)
         \/ UNCHANGED world /\ \E k \in Keys : \E v : Get(k, v)
         \/ UNCHANGED <<world, asked>> /\ \E k : ~Cached(k) /\ cache' = Without(k)
<1> USE DEF world, reading, Types
<1>1. CASE Tick \/ List \/ \E k \in Site : Change(k)
  BY <1>1
<1>2. CASE Begin \/ Onward \/ LastSeason
  BY <1>2 DEF Begin, Onward, LastSeason
<1>3. CASE Fail
  BY <1>3 DEF Fail
<1>4. CASE GetSheet \/ GetGathered \/ GetStandings
  BY <1>4, KeptPages DEF GetSheet, GetGathered, GetStandings
<1>5. CASE GetIndex
  <2>1. <<"index", number>> \in Keys
    BY IndexPages DEF Index, Listing
  <2> QED BY <1>5, <2>1 DEF GetIndex
<1>6. CASE GetSeason
  <2>1. number \in 1 .. MaxSeason
    BY <1>6 DEF GetSeason, Listing
  <2>2. <<"season", number>> \in Keys
    BY <2>1, SeasonPages, KeptPages DEF Season, Seasons
  <2> QED BY <1>6, <2>2 DEF GetSeason
<1> QED BY <1>1, <1>2, <1>3, <1>4, <1>5, <1>6 DEF CacheNext

-----------------------------------------------------------------------------
\* A step keeps a row that is true true.
LEMMA RowsKept ==
  ASSUME CacheInv, CacheNext, CacheAssumption
  PROVE  Rows'
<1> USE DEF CacheInv
<1> SUFFICES ASSUME NEW k \in Site \ Kept PROVE RowTrue(k)'
  BY DEF Rows
<1>0. RowTrue(k)
  BY DEF Rows
<1>1. CASE UNCHANGED <<now, site, changed, cache, asked, listed>>
  BY <1>1, <1>0 DEF RowTrue
<1>2. CASE Tick
  BY <1>2, <1>0 DEF RowTrue, Tick
<1>3. CASE List
  <2>1. k # <<"standings", listed'>>
    BY <1>3, StandingsPages DEF List, Standings, Types, CacheAssumption
  <2>2. changed'[k] = changed[k]
    BY <1>3, <2>1 DEF List, Types
  <2> QED BY <1>3, <2>2, <1>0 DEF RowTrue, List
<1>4. ASSUME NEW j \in Site, Change(j) PROVE RowTrue(k)'
  <2>1. CASE j = k
    <3>1. changed'[k] = now /\ cache' = cache
      BY <1>4, <2>1 DEF Change, Types
    <3>2. k \in DOMAIN cache => cache[k].at <= now
      BY DEF Types
    <3>3. k \in DOMAIN cache => cache[k].at \in Int /\ now \in Int
      BY DEF Types
    <3> QED BY <3>1, <3>2, <3>3, <1>0 DEF RowTrue
  <2>2. CASE j # k
    BY <1>4, <2>2, <1>0 DEF RowTrue, Change, Types
  <2> QED BY <2>1, <2>2
<1>5. ASSUME UNCHANGED world, NEW j \in Keys, NEW v, Get(j, v) PROVE RowTrue(k)'
  <2>1. site' = site /\ changed' = changed
    BY <1>5 DEF world
  <2>2. CASE cache' = cache
    BY <2>1, <2>2, <1>0 DEF RowTrue
  <2>3. CASE cache' = Without(j)
    BY <2>1, <2>3, <1>0 DEF RowTrue, Without
  <2>4. CASE /\ v \in Online(j) /\ (j \in Site => v # Html)
             /\ cache' = [i \in DOMAIN cache \union {j} |->
                           IF i = j THEN [value |-> v, at |-> now] ELSE cache[i]]
    <3>1. CASE j = k
      BY <2>1, <2>4, <3>1, OnlineIsSite DEF RowTrue
    <3>2. CASE j # k
      BY <2>1, <2>4, <3>2, <1>0 DEF RowTrue
    <3> QED BY <3>1, <3>2
  <2>5. \/ cache' = cache
        \/ v = Html /\ j \in Site /\ cache' = Without(j)
        \/ /\ v \in Online(j) /\ (j \in Site => v # Html)
           /\ cache' = [i \in DOMAIN cache \union {j} |->
                         IF i = j THEN [value |-> v, at |-> now] ELSE cache[i]]
    BY <1>5 DEF Get
  <2> QED BY <2>2, <2>3, <2>4, <2>5
<1>6. ASSUME UNCHANGED <<world, asked>>, NEW j, cache' = Without(j) PROVE RowTrue(k)'
  BY <1>6, <1>0 DEF RowTrue, Without, world
<1> QED BY RowMoves, <1>1, <1>2, <1>3, <1>4, <1>5, <1>6

\* A page that is kept is asked for once.
LEMMA AskedKept ==
  ASSUME CacheInv, CacheNext, CacheAssumption
  PROVE  AskedRows'
<1> USE DEF CacheInv
<1> SUFFICES ASSUME NEW k \in Kept
             PROVE  asked'[k] = IF k \in DOMAIN cache' THEN 1 ELSE 0
  BY DEF AskedRows
<1>0. asked[k] = IF k \in DOMAIN cache THEN 1 ELSE 0
  BY DEF AskedRows
<1>1. CASE UNCHANGED <<cache, asked>>
  BY <1>1, <1>0
<1>2. ASSUME UNCHANGED world, NEW j \in Keys, NEW v, Get(j, v)
      PROVE  asked'[k] = IF k \in DOMAIN cache' THEN 1 ELSE 0
  <2>1. Cached(k) <=> k \in DOMAIN cache
    BY DEF Cached, Permanent
  <2>2. asked \in [Kept -> Nat]
    BY DEF Types
  <2>3. k \in Site
    BY KeptPages
  <2>4. j = k /\ v \in Online(j) => v # Html
    BY <2>3, OnlineIsSite
  <2>5. CASE cache' = cache /\ asked' = asked
    BY <2>5, <1>0
  <2>6. CASE /\ ~Cached(j) /\ v \in Online(j) /\ v = Html /\ j \in Site /\ cache' = Without(j)
             /\ asked' = IF j \in Kept THEN [asked EXCEPT ![j] = @ + 1] ELSE asked
    BY <2>6, <2>4, <2>2, <1>0 DEF Without
  <2>7. CASE /\ ~Cached(j)
             /\ cache' = [i \in DOMAIN cache \union {j} |->
                           IF i = j THEN [value |-> v, at |-> now] ELSE cache[i]]
             /\ asked' = IF j \in Kept THEN [asked EXCEPT ![j] = @ + 1] ELSE asked
    BY <2>7, <2>1, <2>2, <1>0
  <2> QED BY <1>2, <2>5, <2>6, <2>7, GetCases
<1>3. ASSUME UNCHANGED <<world, asked>>, NEW j, ~Cached(j), cache' = Without(j)
      PROVE  asked'[k] = IF k \in DOMAIN cache' THEN 1 ELSE 0
  <2>1. k \in DOMAIN cache => j # k
    BY <1>3 DEF Cached, Permanent
  <2> QED BY <1>3, <2>1, <1>0 DEF Without
<1>4. Tick \/ List \/ (\E j \in Site : Change(j)) => UNCHANGED <<cache, asked>>
  BY DEF Tick, List, Change
<1> QED BY RowMoves, <1>1, <1>2, <1>3, <1>4

-----------------------------------------------------------------------------
\* The kinds of steps, as what the pull uses sees them.
LEMMA UseMoves ==
  ASSUME CacheNext, Types, Listing
  PROVE  \/ got' = got /\ began' = began /\ UNCHANGED world
         \/ got' = Nothing
         \/ got' = got /\ began' = began /\ (Tick \/ List \/ \E k \in Site : Change(k))
         \/ /\ began' = began /\ UNCHANGED world
            /\ \E k \in Site : \E v : Get(k, v) /\ Use(k, v)
<1> USE DEF world, reading, Types
<1>1. CASE Tick \/ List \/ \E k \in Site : Change(k)
  <2>1. got' = got /\ began' = began
    BY <1>1 DEF Tick, List, Change
  <2> QED BY <1>1, <2>1
<1>2. CASE Begin \/ Onward \/ LastSeason
  BY <1>2 DEF Begin, Onward, LastSeason
<1>3. CASE Fail
  BY <1>3 DEF Fail
<1>4. CASE GetSheet \/ GetGathered \/ GetStandings
  BY <1>4 DEF GetSheet, GetGathered, GetStandings
<1>5. CASE GetIndex
  BY <1>5 DEF GetIndex
<1>6. CASE GetSeason
  <2>1. number \in 1 .. MaxSeason
    BY <1>6 DEF GetSeason, Listing
  <2>2. <<"season", number>> \in Site
    BY <2>1, SeasonPages DEF Season, Seasons
  <2> QED BY <1>6, <2>2 DEF GetSeason
<1> QED BY <1>1, <1>2, <1>3, <1>4, <1>5, <1>6 DEF CacheNext

\* What a page that expires is used for was true a day before the pull began.
LEMMA FreshRead ==
  ASSUME CacheInv, CacheAssumption, NEW k \in Site \ Kept, NEW v, Get(k, v),
         site[k] # Missing, changed[k] + DayTtl < began
  PROVE  v = site[k]
<1>1. k[1] # "index" /\ ~Permanent(k)
  BY DEF Site, Of, Permanent
<1>2. CASE Cached(k) /\ v = cache[k].value
  <2>1. k \in DOMAIN cache /\ now - cache[k].at <= DayTtl
    BY <1>1, <1>2 DEF Cached, Ttl
  <2>2. cache[k].at \in Int /\ now \in Int /\ began \in Int /\ began <= now /\ DayTtl \in Int
    BY <2>1 DEF CacheInv, Types, CacheAssumption
  <2>3. changed[k] \in Int
    BY DEF CacheInv, Types
  <2>4. changed[k] < cache[k].at
    BY <2>1, <2>2, <2>3
  <2> QED BY <1>2, <2>1, <2>4 DEF CacheInv, Rows, RowTrue
<1>3. CASE v \in Online(k)
  BY <1>3, OnlineIsSite DEF CacheInv
<1> QED BY <1>2, <1>3, GetCases

LEMMA UsedKept ==
  ASSUME CacheInv, CacheNext, CacheAssumption
  PROVE  Used'
<1> USE DEF CacheInv
<1> SUFFICES ASSUME NEW k \in Site \ Kept PROVE GotTrue(k)'
  BY DEF Used
<1>0. GotTrue(k)
  BY DEF Used
<1>1. CASE got' = got /\ began' = began /\ UNCHANGED world
  BY <1>1, <1>0 DEF GotTrue, world
<1>2. CASE got' = Nothing
  BY <1>2 DEF GotTrue, Nothing
<1>3. CASE got' = got /\ began' = began /\ (Tick \/ List)
  <2>1. k # <<"standings", listed + 1>> \/ ~List
    BY StandingsPages DEF List, Standings, Types, CacheAssumption
  <2>2. changed'[k] = changed[k] /\ site' = site
    BY <1>3, <2>1 DEF List, Tick, Types
  <2> QED BY <1>3, <2>2, <1>0 DEF GotTrue
<1>4. ASSUME got' = got, began' = began, NEW j \in Site, Change(j) PROVE GotTrue(k)'
  <2>1. CASE j = k
    <3>1. changed'[k] = now
      BY <1>4, <2>1 DEF Change, Types
    <3>2. ~(changed'[k] + DayTtl < began)
      BY <3>1 DEF Types, CacheAssumption
    <3> QED BY <3>2, <1>4 DEF GotTrue
  <2>2. CASE j # k
    BY <1>4, <2>2, <1>0 DEF GotTrue, Change, Types
  <2> QED BY <2>1, <2>2
<1>5. ASSUME began' = began, UNCHANGED world, NEW j \in Site, NEW v, Get(j, v), Use(j, v)
      PROVE  GotTrue(k)'
  <2>1. site' = site /\ changed' = changed
    BY <1>5 DEF world
  <2>2. CASE j = k
    <3>1. site[k] # Missing /\ changed[k] + DayTtl < began => v = site[k]
      BY <1>5, <2>2, FreshRead
    <3> QED BY <1>5, <2>1, <2>2, <3>1 DEF GotTrue, Use
  <2>3. CASE j # k
    BY <1>5, <2>1, <2>3, <1>0 DEF GotTrue, Use
  <2> QED BY <2>2, <2>3
<1> QED BY UseMoves, <1>1, <1>2, <1>3, <1>4, <1>5

-----------------------------------------------------------------------------
\* A season that precedes another goes on to precede it.
LEMMA PrecedesKept ==
  ASSUME CacheInv, CacheNext, CacheAssumption, NEW n \in Seasons, NEW j \in Seasons,
         Precedes(n, j)
  PROVE  Precedes(n, j)'
<1> USE DEF CacheInv
<1> DEFINE k == Season(n)
<1> DEFINE m == Season(j)
<1>1. k \in Site /\ k \notin Kept /\ m \in Site
  BY SeasonPages
<1>2. site'[k] # Missing /\ changed'[m] \in Int /\ changed[m] \in Int /\ changed[m] <= changed'[m]
  <2>1. CASE UNCHANGED world
    BY <2>1, <1>1 DEF world, Types, Precedes
  <2>2. CASE Tick
    BY <2>2, <1>1 DEF Tick, Types, Precedes
  <2>3. CASE List
    <3>1. m # <<"standings", listed'>>
      BY DEF Season
    <3>2. changed'[m] = changed[m] /\ site' = site
      BY <2>3, <3>1, <1>1 DEF List, Types
    <3> QED BY <3>2, <1>1 DEF Types, Precedes
  <2>4. ASSUME NEW i \in Site, Change(i)
        PROVE  site'[k] # Missing /\ changed'[m] \in Int /\ changed[m] \in Int
               /\ changed[m] <= changed'[m]
    <3>1. site'[k] = site[k] \/ site'[k] = site[k] + 1
      BY <2>4, <1>1 DEF Change, Types
    <3>2. site[k] \in Nat /\ site[k] # 0
      BY <1>1 DEF Types, Precedes, Missing
    <3>3. changed'[m] = changed[m] \/ changed'[m] = now
      BY <2>4, <1>1 DEF Change, Types
    <3> QED BY <3>1, <3>2, <3>3, <1>1 DEF Types, Missing
  <2>5. UNCHANGED world \/ Tick \/ List \/ \E i \in Site : Change(i)
    BY UseMoves, RowMoves DEF world
  <2> QED BY <2>1, <2>2, <2>3, <2>4, <2>5
<1>3. k \in DOMAIN cache' /\ cache'[k].value = Missing => cache'[k].at <= changed'[m]
  <2>0. k \in DOMAIN cache /\ cache[k].value = Missing => cache[k].at <= changed[m]
    BY DEF Precedes
  <2>1. CASE cache' = cache
    <3>1. k \in DOMAIN cache => cache[k].at \in Int
      BY DEF Types
    <3> QED BY <2>1, <2>0, <3>1, <1>2
  <2>2. ASSUME NEW i, cache' = Without(i), UNCHANGED world
        PROVE  k \in DOMAIN cache' /\ cache'[k].value = Missing => cache'[k].at <= changed'[m]
    BY <2>2, <2>0 DEF Without, world
  <2>3. ASSUME UNCHANGED world, NEW i \in Keys, NEW v, Get(i, v)
        PROVE  k \in DOMAIN cache' /\ cache'[k].value = Missing => cache'[k].at <= changed'[m]
    <3>1. changed' = changed
      BY <2>3 DEF world
    <3>2. CASE cache' = cache
      BY <3>1, <3>2, <2>0
    <3>3. CASE cache' = Without(i)
      BY <3>1, <3>3, <2>0 DEF Without
    <3>4. CASE /\ v \in Online(i)
               /\ cache' = [h \in DOMAIN cache \union {i} |->
                             IF h = i THEN [value |-> v, at |-> now] ELSE cache[h]]
      <4>1. i = k => v # Missing
        BY <3>4, <1>1, OnlineIsSite DEF Precedes
      <4> QED BY <3>1, <3>4, <4>1, <2>0
    <3>5. cache' = cache \/ cache' = Without(i)
          \/ /\ v \in Online(i)
             /\ cache' = [h \in DOMAIN cache \union {i} |->
                           IF h = i THEN [value |-> v, at |-> now] ELSE cache[h]]
      BY <2>3 DEF Get
    <3> QED BY <3>2, <3>3, <3>4, <3>5
  <2>4. Tick \/ List \/ (\E i \in Site : Change(i)) => cache' = cache
    BY DEF Tick, List, Change
  <2> QED BY RowMoves, <2>1, <2>2, <2>3, <2>4
<1>4. Missed(n)' => began' <= changed'[m] + DayTtl
  <2>0. Missed(n) => began <= changed[m] + DayTtl
    BY DEF Precedes
  <2>1. CASE got' = got /\ began' = began
    <3>1. began \in Int /\ DayTtl \in Int
      BY DEF Types, CacheAssumption
    <3> QED BY <2>0, <2>1, <3>1, <1>2 DEF Missed
  <2>2. CASE got' = Nothing
    BY <2>2 DEF Missed, Nothing
  <2>3. ASSUME began' = began, UNCHANGED world, NEW i \in Site, NEW v, Get(i, v), Use(i, v)
        PROVE  Missed(n)' => began' <= changed'[m] + DayTtl
    <3>1. changed' = changed
      BY <2>3 DEF world
    <3>2. CASE i # k
      BY <2>3, <3>1, <3>2, <2>0 DEF Missed, Use
    <3>3. CASE i = k /\ v \in {Missing, Html}
      <4>1. v \notin Online(k)
        BY <1>1, <3>3, OnlineIsSite DEF Precedes
      <4>2. Cached(k) /\ v = cache[k].value
        BY <2>3, <3>3, <4>1 DEF Get
      <4>3. k \in DOMAIN cache /\ now - cache[k].at <= DayTtl
        BY <4>2, <1>1 DEF Cached, Permanent, Ttl, Season
      <4>4. v = Missing
        BY <4>2, <4>3, <3>3, <1>1 DEF Rows, RowTrue
      <4>5. cache[k].at <= changed[m]
        BY <4>2, <4>3, <4>4 DEF Precedes
      <4>6. cache[k].at \in Int /\ now \in Int /\ began \in Int /\ began <= now /\ DayTtl \in Int
        BY <4>3 DEF Types, CacheAssumption
      <4> QED BY <4>3, <4>5, <4>6, <3>1, <2>3, <1>2
    <3>4. CASE i = k /\ v \notin {Missing, Html}
      BY <2>3, <3>4 DEF Missed, Use
    <3> QED BY <3>2, <3>3, <3>4
  <2> QED BY UseMoves, <2>1, <2>2, <2>3
<1> QED BY <1>2, <1>3, <1>4 DEF Precedes

\* The sites leave out one season in a row at most, and so does what is known of
\* them.
LEMMA GapsKept ==
  ASSUME CacheInv, CacheNext, CacheAssumption
  PROVE  Gaps'
<1> USE DEF CacheInv
<1> SUFFICES ASSUME NEW j \in Seasons, NEW i \in Seasons,
                    site'[Season(j)] # Missing, i + 1 < j
             PROVE  Precedes(i, j)' \/ Precedes(i + 1, j)'
  BY DEF Gaps
<1>0. i + 1 \in Seasons /\ j \in Int /\ i \in Int
  BY DEF Seasons, CacheAssumption
<1>1. CASE site[Season(j)] # Missing
  <2>1. Precedes(i, j) \/ Precedes(i + 1, j)
    BY <1>1, <1>0 DEF Gaps
  <2> QED BY <2>1, <1>0, PrecedesKept
<1>2. CASE site[Season(j)] = Missing
  <2>1. Season(j) \in Site
    BY SeasonPages
  <2>2. PICK k \in Site : Change(k)
    BY <1>2, <2>1, RowMoves DEF world, Tick, List
  <2>3. k = Season(j) /\ changed'[Season(j)] = now
    BY <1>2, <2>1, <2>2 DEF Change, Types
  <2>4. PICK n \in {j - 1, j - 2} \ {0, -1} : site[Season(n)] # Missing
    <3>1. k[1] = "season" /\ k[2] = j
      BY <2>3 DEF Season
    <3>2. ~(j <= 2)
      BY <1>0 DEF Seasons
    <3> QED BY <2>2, <2>3, <3>1, <3>2, <1>2 DEF Change, MayChange, Season
  <2>5. n \in Seasons /\ n \in Int
    BY <2>4, <1>0 DEF Seasons, CacheAssumption
  <2>6. PICK q \in {i, i + 1} : q \in Seasons /\ site[Season(q)] # Missing
    <3>1. CASE i + 1 < n
      BY <3>1, <2>4, <2>5, <1>0 DEF Gaps, Precedes
    <3>2. CASE ~(i + 1 < n)
      <4>1. n = i \/ n = i + 1
        BY <3>2, <2>4, <2>5, <1>0
      <4> QED BY <4>1, <2>4, <2>5
    <3> QED BY <3>1, <3>2
  <2>7. Season(q) # Season(j) /\ Season(q) \in Site
    BY <2>6, <1>0, SeasonPages DEF Season
  <2>8. site'[Season(q)] # Missing /\ cache' = cache /\ began' = began
    BY <2>2, <2>3, <2>6, <2>7 DEF Change, Types, reading
  <2>9. Season(q) \in DOMAIN cache => cache[Season(q)].at <= now
    BY DEF Types
  <2>10. began' <= changed'[Season(j)] + DayTtl
    <3>1. began \in Int /\ now \in Int /\ began <= now /\ DayTtl \in Nat
      BY DEF Types, CacheAssumption
    <3> QED BY <3>1, <2>3, <2>8
  <2>11. Precedes(q, j)'
    BY <2>8, <2>9, <2>10, <2>3 DEF Precedes
  <2> QED BY <2>6, <2>11
<1> QED BY <1>1, <1>2

-----------------------------------------------------------------------------
\* The scan of the seasons comes to the last, or to two it misses.
LEMMA ScanKept ==
  ASSUME CacheInv, CacheNext, CacheAssumption
  PROVE  Scan' /\ misses' \in 0 .. 2
<1> USE DEF CacheInv
<1>1. CASE Tick \/ List \/ \E k \in Site : Change(k)
  <2>1. UNCHANGED reading
    BY <1>1 DEF Tick, List, Change
  <2> QED BY <2>1 DEF reading, Scan, AllGot, EndsAt, Missed
<1>2. CASE Begin
  BY <1>2 DEF Begin, Stage, Scan
<1>3. CASE Onward
  <2>1. CASE pc = "standings"
    BY <1>3, <2>1 DEF Onward, Stage, Scan, AllGot, CacheAssumption
  <2>2. CASE pc = "gen"
    BY <1>3, <2>2 DEF Onward, Stage, Scan, AllGot, EndsAt, Missed
  <2>3. CASE pc \in {"sheet", "item"}
    BY <1>3, <2>3 DEF Onward, Stage, Scan
  <2> QED BY <1>3, <2>1, <2>2, <2>3 DEF Onward
<1>4. CASE Fail
  BY <1>4 DEF Fail, Stage, Scan
<1>5. CASE GetSheet \/ GetStandings
  BY <1>5 DEF GetSheet, GetStandings, Scan
<1>6. CASE GetGathered
  <2>1. PICK k \in left, v \in 0 .. MaxVersion : Use(k, v)
    BY <1>6 DEF GetGathered
  <2>2. pc' = pc /\ misses' = misses /\ number' = number /\ pc \in {"item", "gen"}
    BY <1>6 DEF GetGathered
  <2>3. CASE pc = "gen"
    <3>1. PICK e \in 0 .. MaxSeason : EndsAt(e)
      BY <2>3 DEF Scan
    <3>2. \A n \in Int : Season(n) # k
      BY <2>1, <2>3 DEF Types, Season
    <3>3. AllGot(e)'
      BY <2>1, <3>1, <3>2 DEF AllGot, EndsAt, Use
    <3>4. \A n \in Int : Missed(n) => Missed(n)'
      BY <2>1, <3>2 DEF Missed, Use
    <3>5. EndsAt(e)'
      BY <3>1, <3>3, <3>4 DEF EndsAt
    <3> QED BY <3>5, <2>2, <2>3 DEF Scan
  <2> QED BY <2>2, <2>3 DEF Scan
<1>7. CASE GetIndex
  BY <1>7 DEF GetIndex, Stage, Scan
<1>8. CASE LastSeason
  <2>1. EndsAt(MaxSeason) /\ MaxSeason \in 0 .. MaxSeason
    <3>1. number - 1 = MaxSeason
      BY <1>8 DEF LastSeason, Scan, CacheAssumption
    <3> QED BY <3>1, <1>8 DEF LastSeason, Scan, EndsAt, CacheAssumption
  <2>2. EndsAt(MaxSeason)'
    BY <1>8, <2>1 DEF LastSeason, EndsAt, AllGot, Missed
  <2> QED BY <1>8, <2>1, <2>2 DEF LastSeason, Stage, Scan
<1>9. ASSUME GetSeason, NEW n, n = number
      PROVE  Scan' /\ misses' \in 0 .. 2
  <2>1. PICK v \in {Missing, Html} \union 1 .. MaxVersion :
          /\ Use(Season(n), v)
          /\ misses' = IF v \in {Missing, Html} THEN misses + 1 ELSE 0
    BY <1>9 DEF GetSeason, Season
  <2>2. /\ n \in 1 .. MaxSeason /\ number' = n + 1 /\ misses \in {0, 1}
        /\ misses' \in 0 .. 2 /\ pc = "season"
    BY <1>9, <2>1 DEF GetSeason, Scan, CacheAssumption
  <2>3. AllGot(n)'
    BY <2>1, <2>2, <1>9 DEF AllGot, Use, Scan
  <2>4. misses' # 0 => Missed(n)'
    <3>1. misses' # 0 => v \in {Missing, Html}
      BY <2>1
    <3>2. Season(n) \in DOMAIN got' /\ got'[Season(n)] = v
      BY <2>1 DEF Use
    <3> QED BY <3>1, <3>2 DEF Missed
  <2>5. misses' = 2 => n >= 2 /\ Missed(n - 1)'
    <3>1. misses' = 2 => n >= 2 /\ Missed(n - 1)
      BY <2>1, <2>2, <1>9 DEF Scan
    <3>2. Season(n - 1) # Season(n)
      BY <2>2 DEF Season
    <3>3. Missed(n - 1) => Missed(n - 1)'
      BY <3>2, <2>1 DEF Missed, Use
    <3> QED BY <3>1, <3>3
  <2>6. CASE misses' = 2
    <3>1. pc' = "gen"
      BY <1>9, <2>6 DEF GetSeason, PastTheEnd, Stage
    <3>2. EndsAt(n)' /\ n \in 0 .. MaxSeason
      BY <2>2, <2>3, <2>4, <2>5, <2>6 DEF EndsAt
    <3> QED BY <2>2, <3>1, <3>2 DEF Scan
  <2>7. CASE misses' # 2
    <3>1. pc' = "season"
      BY <1>9, <2>2, <2>7 DEF GetSeason, PastTheEnd
    <3>2. number' - 1 = n /\ n \in Int
      BY <2>2
    <3> QED BY <2>2, <2>3, <2>4, <2>7, <3>1, <3>2 DEF Scan, CacheAssumption
  <2> QED BY <2>6, <2>7
<1> QED BY <1>1, <1>2, <1>3, <1>4, <1>5, <1>6, <1>7, <1>8, <1>9 DEF CacheNext

-----------------------------------------------------------------------------
\* A remembered index page stays what it was.
LEMMA IndexRowsKept ==
  ASSUME CacheInv, CacheNext, CacheAssumption
  PROVE  IndexRows'
<1> USE DEF CacheInv
<1> SUFFICES ASSUME NEW p \in Nat \ {0}, Index(p) \in DOMAIN cache'
             PROVE  (\E l \in 0 .. listed : /\ cache[Index(p)].value = PageWhen(l, p)
                                            /\ ListedAt(l, cache[Index(p)].at))'
  BY DEF IndexRows, IndexRow
<1> DEFINE k == Index(p)
<1>0. k \in DOMAIN cache =>
        \E l \in 0 .. listed : cache[k].value = PageWhen(l, p) /\ ListedAt(l, cache[k].at)
  BY DEF IndexRows, IndexRow
<1>1. k \in DOMAIN cache => cache[k].at \in Int /\ cache[k].at <= now
  BY DEF Types
<1>2. CASE UNCHANGED <<changed, listed>> /\ k \in DOMAIN cache /\ cache'[k] = cache[k]
  BY <1>2, <1>0 DEF ListedAt
<1>3. CASE List
  <2>1. k \in DOMAIN cache /\ cache' = cache /\ listed' = listed + 1 /\ listed \in Nat
    BY <1>3 DEF List, Types
  <2>2. PICK l \in 0 .. listed : cache[k].value = PageWhen(l, p) /\ ListedAt(l, cache[k].at)
    BY <2>1, <1>0
  <2>3. ASSUME NEW e \in 1 .. listed', changed'[Standings(e)] < cache[k].at
        PROVE  e <= l
    <3>1. CASE e = listed'
      <4>1. Standings(e) \in Site
        BY <3>1, <2>1, <1>3, StandingsPages DEF List, CacheAssumption
      <4>2. changed'[Standings(e)] = now
        BY <4>1, <3>1, <1>3 DEF List, Standings, Types
      <4> QED BY <4>2, <2>3, <2>1, <1>1 DEF Types
    <3>2. CASE e # listed'
      <4>1. e \in 1 .. listed
        BY <3>2, <2>1
      <4>2. Standings(e) # <<"standings", listed'>>
        BY <3>2 DEF Standings
      <4>3. Standings(e) \in Site
        BY <4>1, StandingsPages DEF Types, CacheAssumption
      <4>4. changed'[Standings(e)] = changed[Standings(e)]
        BY <1>3, <4>2, <4>3 DEF List, Types
      <4> QED BY <2>2, <2>3, <4>1, <4>4 DEF ListedAt
    <3> QED BY <3>1, <3>2
  <2>4. l \in 0 .. listed'
    BY <2>1, <2>2
  <2>5. ListedAt(l, cache[k].at)'
    BY <2>1, <2>3 DEF ListedAt
  <2> QED BY <2>1, <2>2, <2>4, <2>5
<1>4. ASSUME NEW j \in Site, Change(j)
      PROVE  (\E l \in 0 .. listed : cache[k].value = PageWhen(l, p) /\ ListedAt(l, cache[k].at))'
  <2>1. k \in DOMAIN cache /\ cache' = cache /\ listed' = listed
    BY <1>4 DEF Change
  <2>2. PICK l \in 0 .. listed : cache[k].value = PageWhen(l, p) /\ ListedAt(l, cache[k].at)
    BY <2>1, <1>0
  <2>3. ASSUME NEW e \in 1 .. listed, changed'[Standings(e)] < cache[k].at
        PROVE  e <= l
    <3>1. Standings(e) \in Site
      BY StandingsPages DEF Types, CacheAssumption
    <3>2. changed'[Standings(e)] = changed[Standings(e)] \/ changed'[Standings(e)] = now
      BY <3>1, <1>4 DEF Change, Types
    <3> QED BY <3>2, <2>1, <2>2, <2>3, <1>1 DEF ListedAt, Types
  <2>4. ListedAt(l, cache[k].at)'
    BY <2>1, <2>3 DEF ListedAt
  <2> QED BY <2>1, <2>2, <2>4
<1>5. ASSUME UNCHANGED world, NEW j \in Keys, NEW v, Get(j, v), j # k \/ cache' = cache
      PROVE  k \in DOMAIN cache /\ cache'[k] = cache[k] /\ UNCHANGED <<changed, listed>>
  BY <1>5 DEF Get, Without, world
<1>6. ASSUME UNCHANGED world, NEW v, Get(k, v), cache' # cache
      PROVE  (\E l \in 0 .. listed : cache[k].value = PageWhen(l, p) /\ ListedAt(l, cache[k].at))'
  <2>1. k \notin Site /\ k[1] = "index" /\ k[2] = p
    BY IndexPages DEF Index
  <2>2. v = Page(p)
    BY <1>6, <2>1 DEF Get, Online
  <2>3. cache'[k].value = v /\ cache'[k].at = now
    BY <1>6, <2>1 DEF Get
  <2>4. PageWhen(listed, p) = Page(p)
    BY DEF PageWhen, Page
  <2>5. listed \in 0 .. listed /\ ListedAt(listed, now)
    BY DEF ListedAt, Types, CacheAssumption
  <2>7. ListedAt(listed, cache[k].at)'
    BY <1>6, <2>3, <2>5 DEF ListedAt, world
  <2> QED BY <1>6, <2>2, <2>3, <2>4, <2>5, <2>7 DEF world
<1>7. ASSUME UNCHANGED <<world, asked>>, NEW j, cache' = Without(j)
      PROVE  k \in DOMAIN cache /\ cache'[k] = cache[k] /\ UNCHANGED <<changed, listed>>
  BY <1>7 DEF Without, world
<1>8. CASE UNCHANGED <<now, site, changed, cache, asked, listed>> \/ Tick
  BY <1>8, <1>2 DEF Tick
<1> QED BY RowMoves, <1>2, <1>3, <1>4, <1>5, <1>6, <1>7, <1>8

-----------------------------------------------------------------------------
\* A beginning of a sequence.
LEMMA PrefixFacts ==
  ASSUME NEW S, NEW s \in Seq(S), NEW n \in Nat
  PROVE  /\ Prefix(s, n) \in Seq(S)
         /\ Len(Prefix(s, n)) = IF n < Len(s) THEN n ELSE Len(s)
         /\ \A i \in 1 .. Len(Prefix(s, n)) : Prefix(s, n)[i] = s[i]
<1> DEFINE m == IF n < Len(s) THEN n ELSE Len(s)
<1>1. Len(s) \in Nat /\ m \in 0 .. Len(s) /\ 1 \in Nat
  OBVIOUS
<1>2. Prefix(s, n) = SubSeq(s, 1, m)
  BY DEF Prefix
<1>3. SubSeq(s, 1, m) = [i \in 1 .. m |-> s[i]]
  BY <1>1
<1>4. [i \in 1 .. m |-> s[i]] \in Seq(S)
  BY <1>1
<1>5. Len([i \in 1 .. m |-> s[i]]) = m
  BY <1>1, <1>4
<1> QED BY <1>1, <1>2, <1>3, <1>4, <1>5

\* The events of an index page, newest first.
LEMMA PageFacts ==
  ASSUME NEW n \in Nat, NEW l \in 0 .. n, NEW p \in Nat \ {0}, CacheAssumption
  PROVE  /\ PageWhen(l, p) \in Seq(1 .. n)
         /\ p = 1 => /\ Len(PageWhen(l, p)) = IF l < PageSize THEN l ELSE PageSize
                     /\ \A i \in DOMAIN PageWhen(l, p) : PageWhen(l, p)[i] = l - i + 1
<1> DEFINE before == (p - 1) * PageSize
           size == IF l - before < PageSize THEN IF l - before > 0 THEN l - before ELSE 0 ELSE PageSize
<1>1. before \in Nat /\ (p = 1 => before = 0)
  BY DEF CacheAssumption
<1>2. PageSize \in Nat \ {0}
  BY DEF CacheAssumption
<1>3. PageWhen(l, p) = [i \in 1 .. size |-> l - before - i + 1]
  BY DEF PageWhen
<1>4. size \in Nat
  BY <1>1, <1>2
<1>5. \A i \in 1 .. size : l - before - i + 1 \in 1 .. n
  BY <1>1, <1>2
<1> HIDE DEF before, size
<1>6. PageWhen(l, p) \in Seq(1 .. n)
  BY <1>3, <1>4, <1>5
<1>7. Len(PageWhen(l, p)) = size /\ DOMAIN PageWhen(l, p) = 1 .. size
  BY <1>3, <1>4
<1>8. p = 1 => size = IF l < PageSize THEN l ELSE PageSize
  BY <1>1, <1>2 DEF size
<1>9. p = 1 => \A i \in 1 .. size : PageWhen(l, p)[i] = l - i + 1
  BY <1>1, <1>3, <1>4
<1> QED BY <1>6, <1>7, <1>8, <1>9

\* An index page as it is read: of a time that is not long ago.
LEMMA IndexRead ==
  ASSUME CacheInv, CacheAssumption, NEW p \in Nat \ {0}, NEW v, Get(Index(p), v)
  PROVE  \E l \in 0 .. listed :
           /\ v = PageWhen(l, p)
           /\ \A e \in 1 .. listed : changed[Standings(e)] + ShortTtl < began => e <= l
<1> USE DEF CacheInv
<1> DEFINE k == Index(p)
<1>1. k \notin Site /\ k \notin Kept /\ k[1] = "index" /\ k[2] = p
  BY IndexPages DEF Index
<1>2. began \in Int /\ now \in Int /\ began <= now /\ ShortTtl \in Nat /\ listed \in Nat
  BY DEF Types, CacheAssumption
<1>3. \A e \in 1 .. listed : changed[Standings(e)] \in Int
  BY StandingsPages DEF Types, CacheAssumption
<1>4. CASE Cached(k) /\ v = cache[k].value
  <2>1. k \in DOMAIN cache /\ now - cache[k].at <= ShortTtl
    BY <1>1, <1>4 DEF Cached, Permanent, Ttl
  <2>2. PICK l \in 0 .. listed : cache[k].value = PageWhen(l, p) /\ ListedAt(l, cache[k].at)
    BY <2>1 DEF IndexRows, IndexRow
  <2>3. cache[k].at \in Int
    BY <2>1 DEF Types
  <2>4. ASSUME NEW e \in 1 .. listed, changed[Standings(e)] + ShortTtl < began
        PROVE  e <= l
    <3>1. changed[Standings(e)] < cache[k].at
      BY <2>1, <2>3, <2>4, <1>2, <1>3
    <3> QED BY <2>2, <3>1 DEF ListedAt
  <2> QED BY <1>4, <2>2, <2>4
<1>5. CASE v \in Online(k)
  <2>1. v = PageWhen(listed, p)
    BY <1>1, <1>5 DEF Online, Page, PageWhen
  <2> QED BY <2>1, <1>2
<1> QED BY <1>4, <1>5 DEF Get

\* What happens meanwhile does not make an event older.
LEMMA ListReadStays ==
  ASSUME CacheInv, CacheAssumption, ListRead, UNCHANGED reading,
         Tick \/ List \/ (\E k \in Site : Change(k)) \/ UNCHANGED world
  PROVE  ListRead'
<1> USE DEF CacheInv
<1> SUFFICES ASSUME NEW e \in 1 .. listed',
                    changed'[Standings(e)] + ShortTtl < began,
                    listed' - e < PageSize, listed' - e < Limit
             PROVE  \E i \in DOMAIN list : list[i] = e
  BY DEF ListRead, reading
<1>1. began \in Int /\ now \in Int /\ began <= now /\ ShortTtl \in Nat /\ listed \in Nat
  BY DEF Types, CacheAssumption
<1>2. PageSize \in Nat /\ Limit \in Nat
  BY DEF CacheAssumption
<1>3. listed' = listed \/ (List /\ listed' = listed + 1 /\ listed' <= MaxEvents)
  BY <1>1 DEF Tick, List, Change, world, CacheAssumption
<1>4. e \in 1 .. MaxEvents
  BY <1>1, <1>3 DEF Types, CacheAssumption
<1>5. Standings(e) \in Site
  BY <1>4, StandingsPages
<1>6. changed'[Standings(e)] = now \/ changed'[Standings(e)] = changed[Standings(e)]
  BY <1>5 DEF Tick, List, Change, world, Types
<1>7. changed'[Standings(e)] = changed[Standings(e)]
  BY <1>6, <1>1
<1>8. e \in 1 .. listed
  <2>1. List /\ e = listed' => changed'[Standings(e)] = now
    BY <1>5 DEF List, Standings, Types
  <2> QED BY <2>1, <1>1, <1>3
<1>9. listed - e < PageSize /\ listed - e < Limit
  BY <1>1, <1>2, <1>3, <1>8
<1> QED BY <1>7, <1>8, <1>9 DEF ListRead

\* The list begins with the events of the first page, and goes on with older ones.
LEMMA IndexListed ==
  ASSUME CacheInv, CacheAssumption, GetIndex
  PROVE  list' \in Seq(1 .. listed) /\ Len(list') <= Limit /\ ListRead'
<1> USE DEF CacheInv
<1>1. PICK v : Get(Index(number), v) /\ list' = Prefix(list \o v, Limit)
  BY DEF GetIndex, Index
<1>2. PICK l \in 0 .. listed :
        /\ v = PageWhen(l, number)
        /\ \A e \in 1 .. listed : changed[Standings(e)] + ShortTtl < began => e <= l
  BY <1>1, IndexRead DEF Listing
<1>3. Limit \in Nat /\ listed \in Nat /\ l \in Nat /\ PageSize \in Nat \ {0}
  BY <1>2 DEF CacheAssumption, Types
<1>5. v \in Seq(1 .. listed) /\ list \in Seq(1 .. listed)
  BY <1>2, <1>3, PageFacts DEF Listing
<1>6. list \o v \in Seq(1 .. listed) /\ Len(list \o v) = Len(list) + Len(v)
  BY <1>5
<1>7. /\ list' \in Seq(1 .. listed)
      /\ Len(list') = IF Limit < Len(list \o v) THEN Limit ELSE Len(list \o v)
      /\ \A i \in 1 .. Len(list') : list'[i] = (list \o v)[i]
  BY <1>1, <1>3, <1>6, PrefixFacts
<1>8. Len(list') <= Limit
  BY <1>3, <1>6, <1>7
<1>9. began' = began /\ UNCHANGED world
  BY DEF GetIndex
<1>10. CASE number > 1
  <2>1. ListRead /\ Len(list) <= Limit
    BY <1>10 DEF Listing, GetIndex
  <2>2. \A i \in DOMAIN list : i \in DOMAIN list' /\ list'[i] = list[i]
    <3>1. Len(list) \in Nat /\ Len(v) \in Nat /\ DOMAIN list = 1 .. Len(list)
      BY <1>5, LenProperties
    <3>2. DOMAIN list' = 1 .. Len(list')
      BY <1>7, LenProperties
    <3>3. Len(list) <= Len(list')
      BY <2>1, <3>1, <1>3, <1>6, <1>7
    <3>4. \A i \in 1 .. Len(list) : (list \o v)[i] = list[i]
      BY <1>5
    <3> QED BY <3>1, <3>2, <3>3, <3>4, <1>7
  <2> QED BY <2>1, <2>2, <1>7, <1>8, <1>9 DEF ListRead, world
<1>11. CASE number = 1
  <2>1. list = <<>>
    BY <1>11 DEF Listing, GetIndex
  <2>2. list \o v = v
    BY <2>1, <1>5
  <2>3. /\ Len(v) = IF l < PageSize THEN l ELSE PageSize
        /\ \A i \in DOMAIN v : v[i] = l - i + 1
    BY <1>2, <1>3, <1>11, PageFacts
  <2>4. ASSUME NEW e \in 1 .. listed, changed[Standings(e)] + ShortTtl < began,
               listed - e < PageSize, listed - e < Limit
        PROVE  \E i \in DOMAIN list' : list'[i] = e
    <3>1. e <= l
      BY <2>4, <1>2
    <3>2. l - e + 1 \in 1 .. Len(v) /\ l - e + 1 <= Limit
      BY <2>3, <2>4, <3>1, <1>2, <1>3
    <3>3. l - e + 1 \in 1 .. Len(list') /\ l - e + 1 \in DOMAIN v
      <4>1. Len(v) \in Nat /\ DOMAIN v = 1 .. Len(v)
        BY <1>5, LenProperties
      <4>2. Len(list') = IF Limit < Len(v) THEN Limit ELSE Len(v)
        BY <1>7, <2>2
      <4> QED BY <3>2, <4>1, <4>2, <1>3
    <3>4. list'[l - e + 1] = v[l - e + 1]
      BY <3>3, <1>7, <2>2
    <3>5. v[l - e + 1] = e
      BY <3>3, <2>3, <1>3
    <3> QED BY <3>3, <3>4, <3>5, <1>7
  <2>5. ListRead'
    BY <2>4, <1>9 DEF ListRead, world
  <2> QED BY <2>5, <1>7, <1>8
<1> QED BY <1>7, <1>8, <1>10, <1>11 DEF Listing

LEMMA ListingKept ==
  ASSUME CacheInv, CacheNext, CacheAssumption
  PROVE  Listing'
<1> USE DEF CacheInv
<1>1. CASE Tick \/ List \/ \E k \in Site : Change(k)
  <2>1. UNCHANGED reading
    BY <1>1 DEF Tick, List, Change
  <2>2. listed \in Nat /\ (listed' = listed \/ listed' = listed + 1)
    BY <1>1 DEF Tick, List, Change, Types
  <2>3. list' \in Seq(1 .. listed')
    BY <2>1, <2>2 DEF Listing, reading
  <2>4. ListRead => ListRead'
    BY <1>1, <2>1, ListReadStays
  <2> QED BY <2>1, <2>3, <2>4 DEF Listing, reading
<1>2. CASE Begin
  BY <1>2 DEF Begin, Stage, Listing, world, CacheAssumption
<1>3. CASE Onward
  <2>1. list' = list /\ began' = began /\ UNCHANGED world /\ number' = 1
    BY <1>3 DEF Onward
  <2>2. ListRead => ListRead'
    BY <2>1 DEF ListRead, world
  <2>3. \/ pc = "sheet" /\ pc' = "item"
        \/ pc = "item" /\ pc' = "index"
        \/ pc = "standings" /\ pc' = "season"
        \/ pc = "gen" /\ pc' = "done"
    BY <1>3 DEF Onward, Stage
  <2>4. listed' = listed
    BY <2>1 DEF world
  <2> QED BY <2>1, <2>2, <2>3, <2>4 DEF Listing
<1>4. CASE Fail
  BY <1>4 DEF Fail, Stage, Listing, world, CacheAssumption
<1>5. CASE GetSheet \/ GetGathered \/ GetStandings \/ LastSeason \/ GetSeason
  <2>1. list' = list /\ began' = began /\ UNCHANGED world
    BY <1>5 DEF GetSheet, GetGathered, GetStandings, LastSeason, GetSeason
  <2>2. ListRead => ListRead'
    BY <2>1 DEF ListRead, world
  <2>3. number' = number \/ number' = number + 1
    BY <1>5 DEF GetSheet, GetGathered, GetStandings, LastSeason, GetSeason
  <2>4. \/ pc' = pc /\ pc # "index"
        \/ pc = "season" /\ pc' = "gen"
    BY <1>5 DEF GetSheet, GetGathered, GetStandings, LastSeason, GetSeason, Stage
  <2> QED BY <2>1, <2>2, <2>3, <2>4 DEF Listing, world
<1>6. CASE GetIndex
  <2>1. list' \in Seq(1 .. listed) /\ Len(list') <= Limit /\ ListRead'
    BY <1>6, IndexListed
  <2>2. \/ pc' = "standings" /\ number' = number
        \/ pc' = "index" /\ number' = number + 1
    BY <1>6 DEF GetIndex, Stage
  <2>3. listed' = listed
    BY <1>6 DEF GetIndex, world
  <2> QED BY <2>1, <2>2, <2>3 DEF Listing
<1> QED BY <1>1, <1>2, <1>3, <1>4, <1>5, <1>6 DEF CacheNext

-----------------------------------------------------------------------------
\* A read leaves rows of now or of before.
LEMMA GetTypes ==
  ASSUME Types, CacheAssumption, NEW k \in Keys, NEW v, Get(k, v)
  PROVE  /\ DOMAIN cache' \subseteq Keys /\ asked' \in [Kept -> Nat]
         /\ \A j \in DOMAIN cache' : cache'[j].at \in 0 .. now
<1>1. now \in 0 .. now
  BY DEF Types
<1> QED BY <1>1 DEF Get, Without, Types

LEMMA TypesKept ==
  ASSUME CacheInv, CacheNext, CacheAssumption
  PROVE  Types'
<1> USE DEF CacheInv
<1>1. CASE Tick
  BY <1>1 DEF Tick, Types, reading, CacheAssumption
<1>2. CASE List
  <2>1. listed + 1 \in 0 .. MaxEvents /\ now \in 0 .. now
    BY <1>2 DEF List, Types, CacheAssumption
  <2>2. changed' \in [Site -> 0 .. now]
    BY <1>2, <2>1 DEF List, Types
  <2> QED BY <1>2, <2>1, <2>2 DEF List, Types, reading
<1>3. ASSUME NEW k \in Site, Change(k) PROVE Types'
  <2>1. site[k] \in 0 .. MaxVersion /\ site[k] + 1 \in 0 .. MaxVersion /\ now \in 0 .. now
    BY <1>3 DEF Change, MayChange, Types, CacheAssumption
  <2> QED BY <1>3, <2>1 DEF Change, Types, reading
<1>4. CASE Begin
  <2>1. Of("sheet", Sheets) \subseteq Site /\ \A k \in Of("sheet", Sheets) : k[1] = "sheet"
    BY DEF Site, Of
  <2>2. Of("item", Items) \subseteq Site /\ \A k \in Of("item", Items) : k[1] = "item"
    BY DEF Site, Of
  <2> QED BY <1>4, <2>1, <2>2 DEF Begin, Stage, Types, world, Nothing
<1>5. CASE Onward
  <2>2. Of("item", Items) \subseteq Site /\ \A k \in Of("item", Items) : k[1] = "item"
    BY DEF Site, Of
  <2> QED BY <1>5, <2>2 DEF Onward, Stage, Types, world
<1>6. CASE Fail
  BY <1>6 DEF Fail, Stage, Types, world, Without, Nothing
<1>7. CASE GetSheet \/ GetGathered \/ GetStandings
  <2>1. PICK k \in left : \E v : Get(k, v) /\ Use(k, v) /\ left' = left \ {k}
    BY <1>7 DEF GetSheet, GetGathered, GetStandings
  <2>2. k \in Site /\ k \in Keys
    BY KeptPages DEF Types
  <2>3. UNCHANGED <<world, pc, began>>
    BY <1>7 DEF GetSheet, GetGathered, GetStandings
  <2>4. DOMAIN got' \subseteq Site
    BY <2>1, <2>2 DEF Use, Types
  <2>5. DOMAIN cache' \subseteq Keys /\ asked' \in [Kept -> Nat]
        /\ \A j \in DOMAIN cache' : cache'[j].at \in 0 .. now
    BY <2>1, <2>2, GetTypes
  <2> QED BY <2>1, <2>2, <2>3, <2>4, <2>5 DEF world, Types
<1>8. CASE GetIndex
  <2>1. PICK v : Get(Index(number), v)
    BY <1>8 DEF GetIndex, Index
  <2>2. Index(number) \in Keys
    BY IndexPages DEF Listing
  <2>3. /\ DOMAIN cache' \subseteq Keys /\ asked' \in [Kept -> Nat]
        /\ \A j \in DOMAIN cache' : cache'[j].at \in 0 .. now
    BY <2>1, <2>2, GetTypes
  <2>4. list' \in Seq(1 .. listed) /\ listed <= MaxEvents /\ MaxEvents \in Nat /\ listed \in Nat
    BY <1>8, IndexListed DEF Types, CacheAssumption
  <2>5. \A i \in DOMAIN list' : <<"standings", list'[i]>> \in Site
    BY <2>4, StandingsPages DEF Standings
  <2>6. UNCHANGED <<world, began, got>>
    BY <1>8 DEF GetIndex
  <2>7. /\ pc' \in {"index", "standings"} /\ left' \subseteq Site
        /\ \A k \in left' : k[1] = pc'
    <3>1. CASE UNCHANGED <<pc, left>>
      BY <3>1, <1>8 DEF GetIndex, Types
    <3>2. CASE Stage("standings", {<<"standings", list'[i]>> : i \in DOMAIN list'})
      BY <3>2, <2>5 DEF Stage
    <3> QED BY <1>8, <3>1, <3>2 DEF GetIndex
  <2> QED BY <2>3, <2>6, <2>7 DEF world, Types
<1>9. CASE GetSeason \/ LastSeason
  <2>1. Of("gen", Gens) \subseteq Site /\ \A k \in Of("gen", Gens) : k[1] = "gen"
    BY DEF Site, Of
  <2>2. /\ pc' \in {"season", "gen"} /\ left' \subseteq Site
        /\ \A k \in left' : k[1] = pc'
    BY <1>9, <2>1 DEF GetSeason, LastSeason, Stage, Types
  <2>3. UNCHANGED <<world, began>>
    BY <1>9 DEF GetSeason, LastSeason
  <2>4. CASE LastSeason
    BY <2>2, <2>3, <2>4 DEF LastSeason, world, Types
  <2>5. CASE GetSeason
    <3>1. PICK v : Get(Season(number), v) /\ Use(Season(number), v)
      BY <2>5 DEF GetSeason, Season
    <3>2. number \in 1 .. MaxSeason
      BY <2>5 DEF GetSeason, Listing, CacheAssumption
    <3>3. Season(number) \in Site /\ Season(number) \in Keys
      BY <3>2, SeasonPages, KeptPages DEF Seasons
    <3>4. DOMAIN got' \subseteq Site
      BY <3>1, <3>3 DEF Use, Types
    <3> QED BY <2>2, <2>3, <3>1, <3>3, <3>4, GetTypes DEF world, Types
  <2> QED BY <1>9, <2>4, <2>5
<1> QED BY <1>1, <1>2, <1>3, <1>4, <1>5, <1>6, <1>7, <1>8, <1>9 DEF CacheNext

-----------------------------------------------------------------------------
LEMMA CacheBegins ==
  ASSUME CacheAssumption, CacheInit
  PROVE  CacheInv
<1>1. Types
  BY DEF CacheInit, Types, CacheAssumption, Nothing, Missing
<1>2. Rows /\ Used /\ AskedRows /\ IndexRows /\ Scan /\ misses \in 0 .. 2
  BY DEF CacheInit, Rows, RowTrue, Used, GotTrue, AskedRows, IndexRows, IndexRow, Scan, Nothing
<1>3. Gaps
  <2>1. \A j \in Seasons : site[Season(j)] = Missing
    <3>1. \A j \in Seasons : Season(j) \in Site
      BY SeasonPages
    <3> QED BY <3>1 DEF CacheInit, Season
  <2> QED BY <2>1 DEF Gaps
<1>4. Listing
  BY DEF CacheInit, Listing, CacheAssumption
<1> QED BY <1>1, <1>2, <1>3, <1>4 DEF CacheInv

LEMMA CacheSteps ==
  ASSUME CacheAssumption, CacheInv, [CacheNext]_cacheVars
  PROVE  CacheInv'
<1>1. CASE CacheNext
  BY <1>1, TypesKept, RowsKept, UsedKept, AskedKept, GapsKept, ScanKept, IndexRowsKept,
     ListingKept DEF CacheInv
<1>2. CASE UNCHANGED cacheVars
  BY <1>2 DEF cacheVars, world, reading, CacheInv, Types, Rows, RowTrue, Used, GotTrue,
     AskedRows, Gaps, Precedes, Missed, Scan, AllGot, EndsAt, IndexRows, IndexRow, ListedAt,
     Listing, ListRead
<1> QED BY <1>1, <1>2

\* The inductive invariant says what the pull is promised.
LEMMA CacheTold ==
  ASSUME CacheAssumption, CacheInv
  PROVE  CacheSound
<1> USE DEF CacheInv
<1>1. CacheTypeOK
  BY DEF Types, Listing, CacheTypeOK, CacheAssumption
<1>2. AskedOnce
  BY DEF AskedRows, AskedOnce
<1>3. NewEventsRead
  <2> SUFFICES ASSUME pc = "done", NEW e \in 1 .. listed,
                      changed[Standings(e)] + ShortTtl < began,
                      listed - e < PageSize, listed - e < Limit
               PROVE  \E i \in DOMAIN list : list[i] = e
    BY DEF NewEventsRead, Standings
  <2> QED BY DEF Listing, ListRead
<1>4. FreshEnough
  <2> SUFFICES ASSUME pc = "done", NEW k \in Site,
                      k[1] = "season" \/ (k \in DOMAIN got /\ ~Permanent(k)),
                      changed[k] + DayTtl < began, site[k] # Missing
               PROVE  k \in DOMAIN got /\ got[k] = site[k]
    BY DEF FreshEnough
  <2>1. k \notin Kept
    BY DEF Permanent, Kept, Of
  <2>2. CASE k \in DOMAIN got
    BY <2>1, <2>2 DEF Used, GotTrue
  <2>3. CASE k \notin DOMAIN got
    <3>1. PICK j \in Seasons : k = Season(j)
      BY <2>3 DEF Site, Of, Season, Seasons
    <3>2. PICK e \in 0 .. MaxSeason : EndsAt(e)
      BY DEF Scan
    <3>3. j > e /\ e # MaxSeason
      BY <2>3, <3>1, <3>2 DEF EndsAt, AllGot, Seasons, CacheAssumption
    <3>4. e >= 2 /\ Missed(e - 1) /\ Missed(e)
      BY <3>2, <3>3 DEF EndsAt
    <3>5. e - 1 \in Seasons /\ e \in Seasons /\ (e - 1) + 1 = e
      BY <3>2, <3>4 DEF Seasons, CacheAssumption
    <3>6. Precedes(e - 1, j) \/ Precedes(e, j)
      BY <3>1, <3>3, <3>5 DEF Gaps
    <3>7. began <= changed[k] + DayTtl
      BY <3>1, <3>4, <3>6 DEF Precedes
    <3>8. k \in Site /\ changed[k] \in Int /\ began \in Int /\ DayTtl \in Int
      BY DEF Types, CacheAssumption
    <3> QED BY <3>7, <3>8
  <2> QED BY <2>2, <2>3
<1> QED BY <1>1, <1>2, <1>3, <1>4 DEF CacheSound

\* Whatever the sites publish and when, however often pulls run or break off, and
\* whatever the lifetimes are: a pull reads what changed longer ago than the
\* lifetime of its page (cache.py, Cache.get), no page that is kept is asked for
\* twice, no season is hidden by the two misses that end the scan, and no event
\* of the first index page is left out.
THEOREM CacheIsSound == CacheAssumption /\ CacheSpec => []CacheSound
<1> SUFFICES ASSUME CacheAssumption PROVE CacheSpec => []CacheSound
  OBVIOUS
<1>1. CacheInit => CacheInv
  BY CacheBegins
<1>2. CacheInv /\ [CacheNext]_cacheVars => CacheInv'
  BY CacheSteps
<1>3. CacheInv => CacheSound
  BY CacheTold
<1> QED BY <1>1, <1>2, <1>3, PTL DEF CacheSpec

-----------------------------------------------------------------------------
(* The observed teams (ObservedCorpus): what is accumulated and what is     *)
(* stored pair each team with the rows of a whole list, whatever entries    *)
(* share its id, and flush replaces the one by the other.                   *)

\* Every team has rows, those of a whole list that its hash digests.
Paired(t, m) ==
  /\ {q.id : q \in m} = DOMAIN t
  /\ \A id \in DOMAIN t : DOMAIN t[id].hash \subseteq {q.mon : q \in {p \in m : p.id = id}}
  /\ \A q \in m : q.mon.slug # Nowhere

RowTyped(r, id) == r.source = id[1] /\ r.format \in Formats /\ r.weight \in Nat

TodoInScope ==
  /\ \A ev \in todo.events : EventInScope(ev)
  /\ \A x \in todo.exports : ExportInScope(x)

\* Where a team may come from, by the stage.
Current ==
  /\ corpusPc = "ingest" => \A id \in DOMAIN teams : FromUpstream(teams[id])
  /\ corpusPc = "reports" => \A id \in DOMAIN build_teams : FromUpstream(build_teams[id])
  /\ NothingLingers

ReportsPending == full /\ corpusPc # "idle" => DOMAIN full_teams = {}

CorpusInv ==
  /\ CorpusTyped
  /\ Paired(teams, members) /\ Paired(build_teams, build_members)
  /\ TodoInScope /\ Current /\ ReportsPending /\ ReportsAgree

\* The entries of an upstream, each with the row of its list.
Entries(new) ==
  /\ \E n \in Nat : DOMAIN new = 1 .. n
  /\ \A i \in DOMAIN new :
       /\ DOMAIN new[i].row.hash = {new[i].list[j] : j \in DOMAIN new[i].list}
       /\ RowTyped(new[i].row, new[i].id)
       /\ FromUpstream(new[i].row)

LEMMA LargestOf ==
  ASSUME NEW n \in Nat, NEW T \in SUBSET (1 .. n), T # {}
  PROVE  \E i \in T : \A j \in T : j <= i
<1> DEFINE R == OpToRel(<, Nat)
           D == {n - i : i \in T}
<1>1. IsWellFoundedOn(R, Nat)
  BY NatLessThanWellFounded
<1>2. D \subseteq Nat /\ D # {}
  <2>1. PICK k \in T : TRUE
    OBVIOUS
  <2>2. n - k \in D
    BY <2>1
  <2>3. \A i \in T : n - i \in Nat
    OBVIOUS
  <2> QED BY <2>2, <2>3
<1>3. PICK d \in D : \A e \in D : ~ (<<e, d>> \in R)
  <2> HIDE DEF R, D
  <2> QED BY <1>1, <1>2, WFMin
<1>4. PICK i \in T : d = n - i
  OBVIOUS
<1>5. ASSUME NEW j \in T PROVE j <= i
  <2>1. n - j \in D /\ n - j \in Nat /\ d \in Nat
    BY <1>2
  <2>2. ~ (n - j < d)
    BY <2>1, <1>3 DEF OpToRel
  <2> QED BY <2>1, <2>2, <1>4
<1> QED BY <1>5

LEMMA LastIsWhole ==
  ASSUME NEW new, Entries(new), NEW id \in {new[i].id : i \in WholeOnes(new)}
  PROVE  LastUnder(new, id) \in WholeOnes(new) /\ new[LastUnder(new, id)].id = id
<1> DEFINE T == {i \in WholeOnes(new) : new[i].id = id}
<1>1. PICK n \in Nat : DOMAIN new = 1 .. n
  BY DEF Entries
<1>2. T \in SUBSET (1 .. n) /\ T # {}
  BY <1>1 DEF WholeOnes
<1>3. PICK i \in T : \A j \in T : j <= i
  <2> HIDE DEF T
  <2> QED BY <1>2, LargestOf
<1>4. \E k \in WholeOnes(new) :
        new[k].id = id /\ \A j \in WholeOnes(new) : new[j].id = id => j <= k
  BY <1>3
<1> QED BY <1>4 DEF LastUnder

\* The rows are those of a whole list under this id.
WholeRows(rows, id, mons) ==
  /\ {q.id : q \in rows} = {id}
  /\ {q.mon : q \in rows} = {mons[j] : j \in DOMAIN mons}
  /\ \A q \in rows : q.id = id /\ q.mon.slug # Nowhere

LEMMA RowsOf ==
  ASSUME NEW id, NEW entry, NEW mons, Resolved(mons)
  PROVE  WholeRows(MemberRows(id, entry, mons), id, mons)
<1> DEFINE rows == MemberRows(id, entry, mons)
<1>1. \A q \in rows : q.id = id /\ \E j \in DOMAIN mons : q.mon = mons[j]
  BY DEF MemberRows
<1>2. \A j \in DOMAIN mons : \E q \in rows : q.id = id /\ q.mon = mons[j]
  <2> TAKE j \in DOMAIN mons
  <2> DEFINE q == [id |-> id, entry |-> entry, slot |-> j, mon |-> mons[j]]
  <2>1. q \in rows
    BY DEF MemberRows
  <2>2. q.id = id /\ q.mon = mons[j]
    OBVIOUS
  <2> QED BY <2>1, <2>2
<1>3. PICK k \in DOMAIN mons : TRUE
  BY DEF Resolved
<1> HIDE DEF rows
<1>4. {q.id : q \in rows} = {id}
  BY <1>1, <1>2, <1>3
<1>5. {q.mon : q \in rows} = {mons[j] : j \in DOMAIN mons}
  BY <1>1, <1>2
<1>6. \A q \in rows : q.id = id /\ q.mon.slug # Nowhere
  BY <1>1 DEF Resolved
<1> QED BY <1>4, <1>5, <1>6 DEF rows, WholeRows

\* Whole entries keep every team with its rows.
LEMMA AddKeeps ==
  ASSUME NEW new, Entries(new), Paired(teams, members),
         \A id \in DOMAIN teams : RowTyped(teams[id], id) /\ FromUpstream(teams[id]),
         Add(new)
  PROVE  /\ Paired(teams', members')
         /\ \A id \in DOMAIN teams' : RowTyped(teams'[id], id) /\ FromUpstream(teams'[id])
<1> DEFINE ids == {new[i].id : i \in WholeOnes(new)}
           More(i) == MemberRows(new[i].id, i, new[i].list)
<1>1. /\ DOMAIN teams' = ids \union DOMAIN teams
      /\ \A id \in DOMAIN teams' :
           teams'[id] = IF id \in ids THEN new[LastUnder(new, id)].row ELSE teams[id]
  BY DEF Add, InsertOrReplace, TeamRows
<1>2. members' = members \union UNION {More(i) : i \in WholeOnes(new)}
  BY DEF Add
<1>3. \A id \in ids : LastUnder(new, id) \in WholeOnes(new) /\ new[LastUnder(new, id)].id = id
  BY LastIsWhole
<1>4. \A i \in WholeOnes(new) :
        /\ i \in DOMAIN new
        /\ {q.id : q \in More(i)} = {new[i].id}
        /\ {q.mon : q \in More(i)} = {new[i].list[j] : j \in DOMAIN new[i].list}
        /\ \A q \in More(i) : q.id = new[i].id /\ q.mon.slug # Nowhere
  <2> TAKE i \in WholeOnes(new)
  <2>1. Resolved(new[i].list) /\ i \in DOMAIN new
    BY DEF WholeOnes
  <2> DEFINE id == new[i].id
             mons == new[i].list
  <2>2. Resolved(mons)
    BY <2>1
  <2> HIDE DEF id, mons
  <2>3. WholeRows(MemberRows(id, i, mons), id, mons)
    BY <2>2, RowsOf
  <2> QED BY <2>1, <2>3 DEF id, mons, WholeRows
<1> HIDE DEF ids, More
<1>5. \A id \in DOMAIN teams' : RowTyped(teams'[id], id) /\ FromUpstream(teams'[id])
  <2> TAKE id \in DOMAIN teams'
  <2>1. CASE id \in ids
    BY <2>1, <1>1, <1>3, <1>4 DEF Entries
  <2>2. CASE id \notin ids
    BY <2>2, <1>1
  <2> QED BY <2>1, <2>2
<1>6. {q.id : q \in members'} = DOMAIN teams'
  <2>1. \A q \in members' : q.id \in DOMAIN teams'
    <3> TAKE q \in members'
    <3>1. CASE q \in members
      BY <3>1, <1>1 DEF Paired
    <3>2. CASE \E i \in WholeOnes(new) : q \in More(i)
      BY <3>2, <1>4, <1>1 DEF ids
    <3> QED BY <3>1, <3>2, <1>2
  <2>2. \A id \in DOMAIN teams' : \E q \in members' : q.id = id
    <3> TAKE id \in DOMAIN teams'
    <3>1. CASE id \in ids
      <4>1. PICK i \in WholeOnes(new) : new[i].id = id
        BY <3>1 DEF ids
      <4>2. \E q \in More(i) : q.id = id
        BY <4>1, <1>4
      <4> QED BY <4>2, <1>2
    <3>2. CASE id \in DOMAIN teams
      BY <3>2, <1>2 DEF Paired
    <3> QED BY <3>1, <3>2, <1>1
  <2> QED BY <2>1, <2>2
<1>7. ASSUME NEW id \in DOMAIN teams'
      PROVE  DOMAIN teams'[id].hash \subseteq {q.mon : q \in {p \in members' : p.id = id}}
  <2>1. CASE id \in ids
    <3> DEFINE i == LastUnder(new, id)
    <3>1. i \in WholeOnes(new) /\ new[i].id = id /\ teams'[id] = new[i].row
      BY <2>1, <1>1, <1>3
    <3> HIDE DEF i
    <3>2. DOMAIN teams'[id].hash = {q.mon : q \in More(i)}
      BY <3>1, <1>4 DEF Entries
    <3>3. \A q \in More(i) : q \in members' /\ q.id = id
      BY <3>1, <1>4, <1>2
    <3> QED BY <3>2, <3>3
  <2>2. CASE id \notin ids
    <3>1. id \in DOMAIN teams /\ teams'[id] = teams[id]
      BY <2>2, <1>1
    <3>2. DOMAIN teams[id].hash \subseteq {q.mon : q \in {p \in members : p.id = id}}
      BY <3>1 DEF Paired
    <3> QED BY <3>1, <3>2, <1>2
  <2> QED BY <2>1, <2>2
<1>8. \A q \in members' : q.mon.slug # Nowhere
  BY <1>2, <1>4 DEF Paired
<1> QED BY <1>5, <1>6, <1>7, <1>8 DEF Paired

LEMMA TeamHashed ==
  ASSUME NEW source, NEW ref, NEW fmt, NEW evidence, NEW weight, NEW mons
  PROVE  LET r == Row(source, ref, fmt, evidence, weight, mons)
         IN  /\ DOMAIN r.hash = {mons[j] : j \in DOMAIN mons}
             /\ r.hash = TeamHash(mons)
             /\ r.source = source /\ r.ref = ref /\ r.format = fmt /\ r.weight = weight
BY DEF Row, TeamHash

LEMMA WeightIsNat ==
  ASSUME NEW base \in Nat, NEW placing \in Nat
  PROVE  ObservationWeight(base, placing) \in Nat
<1>1. placing # 0 => base \div placing \in Nat
  OBVIOUS
<1> QED BY <1>1 DEF ObservationWeight

LEMMA StandingsAreEntries ==
  ASSUME NEW ev \in Events, ev \in upstream.events, EventInScope(ev)
  PROVE  Entries(EventEntries(ev))
<1> DEFINE new == EventEntries(ev)
           st == ev.standings
<1>1. \E n \in Nat : DOMAIN new = 1 .. n
  <2>1. st \in Seq({st[i] : i \in DOMAIN st})
    BY CorpusAssumption
  <2>2. Len(st) \in Nat /\ DOMAIN st = 1 .. Len(st)
    <3> HIDE DEF st
    <3> QED BY <2>1, LenProperties
  <2> QED BY <2>2 DEF EventEntries
<1>2. ASSUME NEW i \in DOMAIN new
      PROVE  /\ DOMAIN new[i].row.hash = {new[i].list[j] : j \in DOMAIN new[i].list}
             /\ RowTyped(new[i].row, new[i].id)
             /\ FromUpstream(new[i].row)
  <2>1. i \in DOMAIN st
    BY DEF EventEntries
  <2> DEFINE w == ObservationWeight(ev.weight, st[i].placing)
             r == Row("limitless", ev.id, ClassifyFormat(ev), "full_set", w, st[i].list)
  <2>2. new[i] = [id |-> <<"limitless", ev.id, st[i].player>>, row |-> r, list |-> st[i].list]
    BY <2>1 DEF EventEntries
  <2>3. w \in Nat
    BY <2>1, CorpusAssumption, WeightIsNat
  <2>4. ClassifyFormat(ev) \in Formats
    BY DEF ClassifyFormat, Formats
  <2> HIDE DEF w
  <2>5. /\ DOMAIN r.hash = {st[i].list[j] : j \in DOMAIN st[i].list}
        /\ r.source = "limitless" /\ r.ref = ev.id /\ r.format = ClassifyFormat(ev)
        /\ r.weight = w
    BY TeamHashed
  <2> HIDE DEF r, st, new
  <2> QED BY <2>2, <2>3, <2>4, <2>5 DEF RowTyped, FromUpstream
<1> QED BY <1>1, <1>2 DEF Entries

LEMMA LadderIsEntries ==
  ASSUME NEW x \in Exports, x \in upstream.exports, ExportInScope(x)
  PROVE  Entries(LadderEntries(x))
<1> DEFINE new == LadderEntries(x)
           L == x.lists
<1>1. L \in Seq({L[i] : i \in DOMAIN L})
  BY CorpusAssumption
<1>2. Len(L) \in Nat /\ DOMAIN L = 1 .. Len(L)
  <2> HIDE DEF L
  <2> QED BY <1>1, LenProperties
<1>3. \E n \in Nat : DOMAIN new = 1 .. n
  BY <1>2 DEF LadderEntries
<1>4. ASSUME NEW i \in DOMAIN new
      PROVE  /\ DOMAIN new[i].row.hash = {new[i].list[j] : j \in DOMAIN new[i].list}
             /\ RowTyped(new[i].row, new[i].id)
             /\ FromUpstream(new[i].row)
  <2>1. i \in DOMAIN L /\ i \in Nat
    BY <1>2 DEF LadderEntries
  <2> DEFINE w == ObservationWeight(x.weight, i)
             mons == LadderList(L[i])
             season == <<x.season, x.fmt>>
             r == Row("pokedb", season, x.fmt, "team_and_item", w, mons)
  <2>2. new[i] = [id |-> <<"pokedb", season, i>>, row |-> r, list |-> mons]
    BY <2>1 DEF LadderEntries
  <2>3. w \in Nat /\ x.fmt \in Formats
    BY <2>1, CorpusAssumption, WeightIsNat
  <2> HIDE DEF w, mons
  <2>4. /\ DOMAIN r.hash = {mons[j] : j \in DOMAIN mons}
        /\ r.source = "pokedb" /\ r.ref = season /\ r.format = x.fmt /\ r.weight = w
    BY TeamHashed
  <2> HIDE DEF r, L, new
  <2> QED BY <2>2, <2>3, <2>4 DEF RowTyped, FromUpstream
<1> QED BY <1>3, <1>4 DEF Entries

LEMMA CorpusInitInv ==
  ASSUME CorpusInit PROVE CorpusInv
<1>1. CorpusTyped
  BY DEF CorpusInit, CorpusTyped, Snapshots, NoTeams
<1>2. Paired(teams, members) /\ Paired(build_teams, build_members)
  BY DEF CorpusInit, Paired, NoTeams
<1>3. TodoInScope /\ Current /\ ReportsPending /\ ReportsAgree
  BY DEF CorpusInit, TodoInScope, Current, ReportsPending, ReportsAgree, NothingLingers, NoTeams
<1> QED BY <1>1, <1>2, <1>3 DEF CorpusInv

LEMMA StartIngestKeeps ==
  ASSUME CorpusInv, StartIngest PROVE CorpusInv'
<1>1. /\ corpusPc' = "ingest" /\ upstream' \in Snapshots /\ full' \in BOOLEAN
      /\ todo' = [events  |-> {ev \in upstream'.events : EventInScope(ev)},
                  exports |-> {x \in upstream'.exports : ExportInScope(x)}]
      /\ DOMAIN teams' = {} /\ members' = {}
  BY DEF StartIngest, NoTeams
<1>2. \/ full' /\ DOMAIN build_teams' = {} /\ build_members' = {} /\ DOMAIN full_teams' = {}
      \/ ~full' /\ build_teams' = build_teams /\ build_members' = build_members
  BY <1>1 DEF StartIngest, NoTeams, tables
<1>3. /\ todo'.events = {ev \in upstream'.events : EventInScope(ev)}
      /\ todo'.exports = {x \in upstream'.exports : ExportInScope(x)}
  BY <1>1
<1>4. Paired(teams', members')
  BY <1>1 DEF Paired
<1>5. Paired(build_teams', build_members')
  BY <1>2 DEF Paired, CorpusInv
<1>6. CorpusTyped'
  <2>1. \A id \in DOMAIN build_teams' : RowTyped(build_teams'[id], id)
    BY <1>2 DEF CorpusInv, CorpusTyped, RowTyped
  <2> QED BY <1>1, <1>3, <2>1 DEF CorpusTyped, RowTyped
<1>7. TodoInScope'
  BY <1>3 DEF TodoInScope, EventInScope, ExportInScope
<1>8. Current' /\ ReportsPending' /\ ReportsAgree'
  BY <1>1, <1>2 DEF Current, ReportsPending, ReportsAgree, NothingLingers
<1> QED BY <1>4, <1>5, <1>6, <1>7, <1>8 DEF CorpusInv

LEMMA AddingKeeps ==
  ASSUME CorpusInv, NEW new, Entries(new), Add(new), corpusPc = "ingest",
         corpusPc' = corpusPc, upstream' = upstream, full' = full, build_teams' = build_teams,
         build_members' = build_members, full_teams' = full_teams,
         todo'.events \subseteq todo.events, todo'.exports \subseteq todo.exports
  PROVE  CorpusInv'
<1>1. \A id \in DOMAIN teams : RowTyped(teams[id], id) /\ FromUpstream(teams[id])
  BY DEF CorpusInv, CorpusTyped, RowTyped, Current
<1>2. /\ Paired(teams', members')
      /\ \A id \in DOMAIN teams' : RowTyped(teams'[id], id) /\ FromUpstream(teams'[id])
  BY <1>1, AddKeeps DEF CorpusInv
<1>3. Paired(build_teams', build_members')
  BY DEF CorpusInv
<1>4. CorpusTyped'
  <2>1. \A id \in DOMAIN build_teams' : RowTyped(build_teams'[id], id)
    BY DEF CorpusInv, CorpusTyped, RowTyped
  <2>2. /\ corpusPc' \in {"idle", "ingest", "reports"} /\ upstream' \in Snapshots
        /\ full' \in BOOLEAN
        /\ todo'.events \subseteq upstream'.events /\ todo'.exports \subseteq upstream'.exports
    BY DEF CorpusInv, CorpusTyped
  <2> QED BY <1>2, <2>1, <2>2 DEF CorpusTyped, RowTyped
<1>5. TodoInScope'
  BY DEF CorpusInv, TodoInScope, EventInScope, ExportInScope
<1>6. Current'
  <2>1. \A id \in DOMAIN teams' : FromUpstream(teams[id])'
    BY <1>2 DEF FromUpstream, EventInScope, ExportInScope
  <2> QED BY <2>1 DEF Current, NothingLingers
<1>7. ReportsPending' /\ ReportsAgree'
  BY DEF CorpusInv, ReportsPending, ReportsAgree
<1> QED BY <1>2, <1>3, <1>4, <1>5, <1>6, <1>7 DEF CorpusInv

LEMMA AddLimitlessKeeps ==
  ASSUME CorpusInv, NEW ev \in Events, AddLimitless(ev) PROVE CorpusInv'
<1>1. /\ corpusPc = "ingest" /\ ev \in todo.events /\ Add(EventEntries(ev))
      /\ upstream' = upstream /\ corpusPc' = corpusPc /\ full' = full
      /\ build_teams' = build_teams /\ build_members' = build_members
      /\ full_teams' = full_teams
  BY DEF AddLimitless, tables
<1>2. todo'.events \subseteq todo.events /\ todo'.exports \subseteq todo.exports
  BY DEF AddLimitless
<1>3. ev \in upstream.events /\ EventInScope(ev)
  BY <1>1 DEF CorpusInv, CorpusTyped, TodoInScope
<1>4. Entries(EventEntries(ev))
  BY <1>3, StandingsAreEntries
<1> QED BY <1>1, <1>2, <1>4, AddingKeeps

LEMMA AddPokedbKeeps ==
  ASSUME CorpusInv, NEW x \in Exports, AddPokedb(x) PROVE CorpusInv'
<1>1. /\ corpusPc = "ingest" /\ x \in todo.exports /\ Add(LadderEntries(x))
      /\ upstream' = upstream /\ corpusPc' = corpusPc /\ full' = full
      /\ build_teams' = build_teams /\ build_members' = build_members
      /\ full_teams' = full_teams
  BY DEF AddPokedb, tables
<1>2. todo'.events \subseteq todo.events /\ todo'.exports \subseteq todo.exports
  BY DEF AddPokedb
<1>3. x \in upstream.exports /\ ExportInScope(x)
  BY <1>1 DEF CorpusInv, CorpusTyped, TodoInScope
<1>4. Entries(LadderEntries(x))
  BY <1>3, LadderIsEntries
<1> QED BY <1>1, <1>2, <1>4, AddingKeeps

LEMMA FlushKeeps ==
  ASSUME CorpusInv, Flush PROVE CorpusInv'
<1>1. /\ corpusPc = "ingest" /\ build_teams' = teams /\ build_members' = members
      /\ corpusPc' = IF full THEN "reports" ELSE "idle"
      /\ upstream' = upstream /\ full' = full /\ todo' = todo
      /\ teams' = teams /\ members' = members /\ full_teams' = full_teams
  BY DEF Flush, Added, ingest
<1>2. Paired(teams', members') /\ Paired(build_teams', build_members')
  BY <1>1 DEF CorpusInv
<1>3. CorpusTyped'
  BY <1>1 DEF CorpusInv, CorpusTyped
<1>4. TodoInScope'
  BY <1>1 DEF CorpusInv, TodoInScope, EventInScope, ExportInScope
<1>5. \A id \in DOMAIN build_teams' : FromUpstream(build_teams[id])'
  BY <1>1 DEF CorpusInv, Current, FromUpstream, EventInScope, ExportInScope
<1>6. Current'
  BY <1>1, <1>5 DEF Current, NothingLingers
<1>7. ReportsPending'
  BY <1>1 DEF CorpusInv, ReportsPending
<1>8. ReportsAgree'
  BY <1>1 DEF CorpusInv, CorpusTyped, ReportsAgree
<1> QED BY <1>2, <1>3, <1>4, <1>6, <1>7, <1>8 DEF CorpusInv

\* No report is left when the reports are read.
LEMMA NoReports ==
  ASSUME CorpusInv, corpusPc = "reports" PROVE Reports = {}
<1>1. \A id \in DOMAIN build_teams : FromUpstream(build_teams[id])
  BY DEF CorpusInv, Current
<1>2. \A id \in DOMAIN build_teams : build_teams[id].source # "report"
  BY <1>1 DEF FromUpstream
<1> QED BY <1>2 DEF Reports

LEMMA SkipReportsKeeps ==
  ASSUME CorpusInv, SkipReports PROVE CorpusInv'
<1>1. /\ corpusPc = "reports" /\ corpusPc' = "idle"
      /\ upstream' = upstream /\ full' = full /\ todo' = todo /\ teams' = teams
      /\ members' = members /\ build_teams' = build_teams
      /\ build_members' = build_members /\ full_teams' = full_teams
  BY DEF SkipReports, ingest, tables
<1>2. Paired(teams', members') /\ Paired(build_teams', build_members')
  BY <1>1 DEF CorpusInv
<1>3. CorpusTyped'
  BY <1>1 DEF CorpusInv, CorpusTyped
<1>4. TodoInScope'
  BY <1>1 DEF CorpusInv, TodoInScope, EventInScope, ExportInScope
<1>5. \A id \in DOMAIN build_teams' : FromUpstream(build_teams[id])'
  BY <1>1 DEF CorpusInv, Current, FromUpstream, EventInScope, ExportInScope
<1>6. Current' /\ ReportsPending'
  BY <1>1, <1>5 DEF Current, NothingLingers, ReportsPending
<1>7. Reports' = {}
  BY <1>1, NoReports DEF Reports
<1>8. ReportsAgree'
  BY <1>1, <1>7 DEF CorpusInv, ReportsPending, ReportsAgree
<1> QED BY <1>2, <1>3, <1>4, <1>6, <1>8 DEF CorpusInv

\* The reports' teams replace those there were, with their rows.
LEMMA ReportsPaired ==
  ASSUME CorpusInv, IngestReports
  PROVE  /\ Paired(build_teams', build_members')
         /\ \A id \in DOMAIN build_teams' : RowTyped(build_teams'[id], id)
         /\ Reports' = ReportIds
         /\ \A id \in ReportIds : build_teams'[id].hash = TeamHash(full_teams'[id])
         /\ \A id \in DOMAIN build_teams' :
              build_teams'[id].source = "report"
                \/ (id \in DOMAIN build_teams /\ build_teams'[id] = build_teams[id])
         /\ DOMAIN full_teams' = ReportIds
<1> DEFINE More(a) == MemberRows(ReportId(a), 1, a.list)
           old == DOMAIN build_teams \ Reports
<1>1. /\ DOMAIN build_teams' = ReportIds \union old
      /\ \A id \in DOMAIN build_teams' :
           build_teams'[id] = IF id \in ReportIds THEN ReportRow(Article(id)) ELSE build_teams[id]
  BY DEF IngestReports, InsertOrReplace
<1>2. build_members' = {q \in build_members : q.id \notin Reports} \union
                         UNION {More(a) : a \in ReportTeams}
  BY DEF IngestReports
<1>3. DOMAIN full_teams' = ReportIds /\ \A id \in ReportIds : full_teams'[id] = Article(id).list
  BY DEF IngestReports
<1>4. \A id \in ReportIds : Article(id) \in ReportTeams /\ ReportId(Article(id)) = id
  BY DEF ReportIds, Article
<1>5. \A a \in ReportTeams :
        /\ ReportId(a) \in ReportIds
        /\ {q.id : q \in More(a)} = {ReportId(a)}
        /\ {q.mon : q \in More(a)} = {a.list[j] : j \in DOMAIN a.list}
        /\ \A q \in More(a) : q.id = ReportId(a) /\ q.mon.slug # Nowhere
  <2> TAKE a \in ReportTeams
  <2> DEFINE id == ReportId(a)
             mons == a.list
             entry == 1
  <2>1. Resolved(mons) /\ id \in ReportIds
    BY DEF ReportTeams, Complete, ReportIds
  <2> HIDE DEF id, mons, entry
  <2>2. WholeRows(MemberRows(id, entry, mons), id, mons)
    BY <2>1, RowsOf
  <2> QED BY <2>1, <2>2 DEF id, mons, entry, WholeRows
<1>6. \A id \in ReportIds :
        LET mons == Article(id).list
            r == ReportRow(Article(id))
        IN  /\ DOMAIN r.hash = {mons[j] : j \in DOMAIN mons} /\ r.hash = TeamHash(mons)
            /\ r.source = "report" /\ RowTyped(r, id)
  <2> TAKE id \in ReportIds
  <2> DEFINE a == Article(id)
             mons == a.list
             w == ObservationWeight(1, a.rank)
             r == Row("report", a.url, "singles", "full_set", w, mons)
  <2>1. a \in ReportTeams /\ ReportId(a) = id
    BY <1>4
  <2>2. a \in Reported
    BY <2>1 DEF ReportTeams, CorpusInv, CorpusTyped, Snapshots
  <2>3. w \in Nat
    BY <2>2, CorpusAssumption, WeightIsNat
  <2>4. id[1] = "report"
    BY <2>1 DEF ReportId
  <2> HIDE DEF w, a
  <2>5. /\ DOMAIN r.hash = {mons[j] : j \in DOMAIN mons} /\ r.hash = TeamHash(mons)
        /\ r.source = "report" /\ r.format = "singles" /\ r.weight = w
    BY TeamHashed
  <2>6. ReportRow(a) = r
    BY DEF ReportRow, w
  <2> HIDE DEF r
  <2>7. RowTyped(r, id)
    BY <2>3, <2>4, <2>5 DEF RowTyped, Formats
  <2> QED BY <2>5, <2>6, <2>7 DEF a
<1>7. \A id \in DOMAIN build_teams : RowTyped(build_teams[id], id)
  BY DEF CorpusInv, CorpusTyped, RowTyped
<1>8. Paired(build_teams, build_members)
  BY DEF CorpusInv
<1>9. \A id \in old : id \in DOMAIN build_teams /\ id \notin Reports /\ build_teams[id].source # "report"
  BY DEF Reports
<1> HIDE DEF More, old
<1>10. \A id \in DOMAIN build_teams' : RowTyped(build_teams'[id], id)
  BY <1>1, <1>6, <1>7, <1>9
<1>11. {q.id : q \in build_members'} = DOMAIN build_teams'
  <2>1. \A q \in build_members' : q.id \in DOMAIN build_teams'
    <3> TAKE q \in build_members'
    <3>1. CASE q \in build_members /\ q.id \notin Reports
      BY <3>1, <1>1, <1>8 DEF Paired, old
    <3>2. CASE \E a \in ReportTeams : q \in More(a)
      BY <3>2, <1>5, <1>1
    <3> QED BY <3>1, <3>2, <1>2
  <2>2. \A id \in DOMAIN build_teams' : \E q \in build_members' : q.id = id
    <3> TAKE id \in DOMAIN build_teams'
    <3>1. CASE id \in ReportIds
      <4>1. \E q \in More(Article(id)) : q.id = id
        BY <3>1, <1>4, <1>5
      <4> QED BY <4>1, <3>1, <1>4, <1>2
    <3>2. CASE id \in old
      <4>1. \E q \in build_members : q.id = id
        BY <3>2, <1>9, <1>8 DEF Paired
      <4> QED BY <4>1, <3>2, <1>9, <1>2
    <3> QED BY <3>1, <3>2, <1>1
  <2> QED BY <2>1, <2>2
<1>12. ASSUME NEW id \in DOMAIN build_teams'
       PROVE  DOMAIN build_teams'[id].hash \subseteq
                {q.mon : q \in {p \in build_members' : p.id = id}}
  <2>1. CASE id \in ReportIds
    <3>1. Article(id) \in ReportTeams /\ ReportId(Article(id)) = id
      BY <2>1, <1>4
    <3>2. DOMAIN build_teams'[id].hash = {q.mon : q \in More(Article(id))}
      BY <2>1, <3>1, <1>1, <1>5, <1>6
    <3>3. \A q \in More(Article(id)) : q \in build_members' /\ q.id = id
      BY <3>1, <1>5, <1>2
    <3> QED BY <3>2, <3>3
  <2>2. CASE id \notin ReportIds
    <3>1. id \in old /\ build_teams'[id] = build_teams[id]
      BY <2>2, <1>1
    <3>2. DOMAIN build_teams[id].hash \subseteq {q.mon : q \in {p \in build_members : p.id = id}}
      BY <3>1, <1>9, <1>8 DEF Paired
    <3>3. \A q \in {p \in build_members : p.id = id} : q \in build_members' /\ q.id = id
      BY <3>1, <1>9, <1>2
    <3> QED BY <3>1, <3>2, <3>3
  <2> QED BY <2>1, <2>2
<1>13. \A q \in build_members' : q.mon.slug # Nowhere
  BY <1>2, <1>5, <1>8 DEF Paired
<1>14. Paired(build_teams', build_members')
  BY <1>11, <1>12, <1>13 DEF Paired
<1>15. Reports' = ReportIds
  <2>1. \A id \in DOMAIN build_teams' : build_teams'[id].source = "report" <=> id \in ReportIds
    BY <1>1, <1>6, <1>9
  <2> QED BY <2>1, <1>1 DEF Reports
<1>16. \A id \in ReportIds : build_teams'[id].hash = TeamHash(full_teams'[id])
  BY <1>1, <1>3, <1>6
<1>17. \A id \in DOMAIN build_teams' :
         build_teams'[id].source = "report"
           \/ (id \in DOMAIN build_teams /\ build_teams'[id] = build_teams[id])
  BY <1>1, <1>6, <1>9
<1> QED BY <1>3, <1>10, <1>14, <1>15, <1>16, <1>17

LEMMA IngestReportsKeeps ==
  ASSUME CorpusInv, IngestReports PROVE CorpusInv'
<1>1. /\ corpusPc = "reports" /\ corpusPc' = "idle"
      /\ upstream' = upstream /\ full' = full /\ todo' = todo /\ teams' = teams
      /\ members' = members
  BY DEF IngestReports, ingest
<1>2. Paired(teams', members') /\ Paired(build_teams', build_members')
  BY <1>1, ReportsPaired DEF CorpusInv
<1>3. CorpusTyped'
  <2>1. \A id \in DOMAIN build_teams' : RowTyped(build_teams'[id], id)
    BY ReportsPaired
  <2>2. \A id \in DOMAIN teams' : RowTyped(teams'[id], id)
    BY <1>1 DEF CorpusInv, CorpusTyped, RowTyped
  <2>3. /\ corpusPc' \in {"idle", "ingest", "reports"} /\ upstream' \in Snapshots
        /\ full' \in BOOLEAN
        /\ todo'.events \subseteq upstream'.events /\ todo'.exports \subseteq upstream'.exports
    BY <1>1 DEF CorpusInv, CorpusTyped
  <2> QED BY <2>1, <2>2, <2>3 DEF CorpusTyped, RowTyped
<1>4. TodoInScope'
  BY <1>1 DEF CorpusInv, TodoInScope, EventInScope, ExportInScope
<1>5. ASSUME NEW id \in DOMAIN build_teams'
      PROVE  build_teams'[id].source = "report" \/ FromUpstream(build_teams[id])'
  <2>1. CASE build_teams'[id].source = "report"
    BY <2>1
  <2>2. CASE id \in DOMAIN build_teams /\ build_teams'[id] = build_teams[id]
    BY <2>2, <1>1 DEF CorpusInv, Current, FromUpstream, EventInScope, ExportInScope
  <2> QED BY <2>1, <2>2, ReportsPaired
<1>6. Current' /\ ReportsPending'
  BY <1>1, <1>5 DEF Current, NothingLingers, ReportsPending
<1>7. ReportsAgree'
  BY ReportsPaired DEF ReportsAgree
<1> QED BY <1>2, <1>3, <1>4, <1>6, <1>7 DEF CorpusInv

\* The observed teams are whole and of the last sources, in every corpus of events,
\* exports and articles, whatever the regulations and the bounds.
THEOREM CorpusIsSound == CorpusSpec => []CorpusSound
<1>1. CorpusInit => CorpusInv
  BY CorpusInitInv
<1>2. CorpusInv /\ [CorpusNext]_corpusVars => CorpusInv'
  <2> SUFFICES ASSUME CorpusInv, [CorpusNext]_corpusVars PROVE CorpusInv'
    OBVIOUS
  <2>1. CASE StartIngest
    BY <2>1, StartIngestKeeps
  <2>2. CASE \E ev \in Events : AddLimitless(ev)
    BY <2>2, AddLimitlessKeeps
  <2>3. CASE \E x \in Exports : AddPokedb(x)
    BY <2>3, AddPokedbKeeps
  <2>4. CASE Flush
    BY <2>4, FlushKeeps
  <2>5. CASE IngestReports
    BY <2>5, IngestReportsKeeps
  <2>6. CASE SkipReports
    BY <2>6, SkipReportsKeeps
  <2>7. CASE UNCHANGED corpusVars
    <3>1. /\ upstream' = upstream /\ corpusPc' = corpusPc /\ full' = full /\ todo' = todo
          /\ teams' = teams /\ members' = members /\ build_teams' = build_teams
          /\ build_members' = build_members /\ full_teams' = full_teams
      BY <2>7 DEF corpusVars, ingest, tables
    <3> QED BY <3>1 DEF CorpusInv, CorpusTyped, Paired, TodoInScope, Current, ReportsPending,
              ReportsAgree, NothingLingers, FromUpstream, EventInScope, ExportInScope, Reports
  <2> QED BY <2>1, <2>2, <2>3, <2>4, <2>5, <2>6, <2>7 DEF CorpusNext
<1>3. CorpusInv => CorpusSound
  BY DEF CorpusInv, CorpusSound, Current, RowsHaveTeams, WholeTeamsOnly, Stored, Paired
<1> QED BY <1>1, <1>2, <1>3, PTL DEF CorpusSpec

-----------------------------------------------------------------------------
(* The reading of a text (ReportText): a place is chosen for one member     *)
(* only, so sections are apart; and where the text is well written, the     *)
(* place chosen for a member is its heading, which nothing else beats.      *)
TextLines == [kind : {"heading", "prose"} \cup Kinds, who : SUBSET ToSet(Team),
              of : ToSet(Team) \cup {Nobody}]

TextTyped ==
  /\ text \in Seq(TextLines) /\ textPc \in {"writing", "choosing", "read"}
  /\ chosen \in Seq(Nat) /\ Len(chosen) <= Len(Team)
  /\ textPc = "writing" => chosen = <<>>
  /\ textPc = "read" => Len(chosen) = Len(Team)

\* A fact is of a Pokemon that the last heading before it names.
FactsBelow ==
  \A i \in Facts :
    \/ text[i].of = Nobody
    \/ \E j \in Places("heading") :
         /\ j < i /\ text[i].of \in text[j].who
         /\ \A k \in Places("heading") : k < i => k <= j

\* No two members have one place.
PlacesApart ==
  \A m, n \in DOMAIN chosen : m # n /\ chosen[m] # 0 => chosen[m] # chosen[n]

\* The places of a well-written text are the members' own headings.
OwnPlaces ==
  WellWritten => \A n \in DOMAIN chosen : /\ chosen[n] \in Places("heading")
                                          /\ text[chosen[n]].who = {Team[n]}

\* A line after the place of a member and before any later place.
InSection(n, i) ==
  /\ n \in DOMAIN Team /\ chosen[n] # 0 /\ i \in Facts /\ chosen[n] < i
  /\ \A m \in DOMAIN chosen : chosen[n] < chosen[m] => i < chosen[m]

LinesInSection == textPc = "read" => \A n \in DOMAIN sets : \A i \in Lines(n) : InSection(n, i)

TextInv == TextTyped /\ FactsBelow /\ PlacesApart /\ OwnPlaces /\ LinesInSection

\* Numbers have a smallest one.
LEMMA SmallestIs ==
  ASSUME NEW S \in SUBSET Nat, S # {}
  PROVE  Min(S) \in S /\ \A j \in S : Min(S) <= j
<1> DEFINE R == OpToRel(<, Nat)
<1>1. IsWellFoundedOn(R, Nat)
  BY NatLessThanWellFounded
<1>2. PICK i \in S : \A j \in S : ~ (<<j, i>> \in R)
  <2> HIDE DEF R
  <2> QED BY <1>1, WFMin
<1>3. \A j \in S : i <= j
  <2> TAKE j \in S
  <2>1. ~ (j < i)
    BY <1>2 DEF OpToRel
  <2> QED BY <2>1
<1> QED BY <1>3 DEF Min

LEMMA LargestIs ==
  ASSUME NEW n \in Nat, NEW S \in SUBSET (1 .. n), S # {}
  PROVE  Max(S) \in S /\ \A j \in S : j <= Max(S)
<1>1. PICK i \in S : \A j \in S : j <= i
  BY LargestOf
<1>2. \A j \in S : i >= j
  BY <1>1
<1> QED BY <1>2 DEF Max

\* Facts after a mention are counted, and one that follows at once is.
LEMMA SetLikeIs ==
  ASSUME text \in Seq(TextLines), NEW i \in DOMAIN text
  PROVE  SetLike(i) \in Nat /\ (i + 1 \in Facts => SetLike(i) > 0)
<1> DEFINE S == {j \in Facts : i < j /\ j <= i + Ahead}
<1>1. Len(text) \in Nat /\ DOMAIN text = 1 .. Len(text)
  BY LenProperties
<1>2. IsFiniteSet(1 .. Len(text)) /\ S \subseteq 1 .. Len(text)
  BY <1>1, FS_Interval DEF Facts
<1>3. IsFiniteSet(S)
  BY <1>2, FS_Subset
<1>4. Cardinality(S) \in Nat
  BY <1>3, FS_CardinalityType
<1>5. ASSUME i + 1 \in Facts PROVE Cardinality(S) > 0
  <2>1. i \in Nat /\ Ahead \in Nat \ {0}
    BY <1>1, TextAssumption
  <2>2. i + 1 \in S
    BY <1>5, <2>1
  <2>3. Cardinality(S) # 0
    BY <1>3, <2>2, FS_EmptySet
  <2> QED BY <1>4, <2>3
<1> QED BY <1>4, <1>5 DEF SetLike

LEMMA PlacesFree ==
  ASSUME NEW i \in FreePlaces
  PROVE  /\ i \in DOMAIN text /\ text[i].kind \in {"heading", "prose"} /\ SetLike(i) > 0
         /\ Team[Len(chosen) + 1] \in text[i].who
         /\ \A q \in ToSet(chosen) \ {0} : i - q > Apart \/ q - i > Apart
BY DEF FreePlaces, Candidates, Mentions

\* Of places that are free one is better than all others: a heading if there is
\* one, with the most facts behind it, the earliest of them.
LEMMA BestIs ==
  ASSUME text \in Seq(TextLines), FreePlaces # {}
  PROVE  \E i \in FreePlaces : \A j \in FreePlaces \ {i} : Better(i, j)
<1> DEFINE H == {i \in FreePlaces : text[i].kind = "heading"}
           B == IF H # {} THEN H ELSE FreePlaces
           C == {Counted(i) : i \in B}
<1>1. Len(text) \in Nat /\ DOMAIN text = 1 .. Len(text)
  BY LenProperties
<1>2. B # {} /\ B \subseteq FreePlaces /\ FreePlaces \subseteq 1 .. Len(text)
  BY <1>1, PlacesFree
<1>3. \A i \in FreePlaces : Counted(i) \in 1 .. Enough
  <2> TAKE i \in FreePlaces
  <2>1. SetLike(i) \in Nat /\ SetLike(i) > 0
    BY PlacesFree, SetLikeIs
  <2> QED BY <2>1, TextAssumption DEF Counted
<1>4. Enough \in Nat /\ C \in SUBSET (1 .. Enough) /\ C # {}
  <2> HIDE DEF B
  <2>1. Enough \in Nat
    BY TextAssumption
  <2>2. PICK i \in B : TRUE
    BY <1>2
  <2>3. Counted(i) \in C
    OBVIOUS
  <2>4. \A d \in C : d \in 1 .. Enough
    BY <1>2, <1>3
  <2> QED BY <2>1, <2>3, <2>4
<1>5. PICK c \in C : \A d \in C : d <= c
  <2> HIDE DEF C
  <2> QED BY <1>4, LargestOf
<1> DEFINE M == {i \in B : Counted(i) = c}
<1>6. M # {} /\ M \in SUBSET Nat
  BY <1>2, <1>5
<1>7. PICK b \in M : \A j \in M : b <= j
  <2> HIDE DEF M
  <2> QED BY <1>6, SmallestIs
<1>8. b \in FreePlaces /\ b \in B /\ Counted(b) = c
  BY <1>2, <1>7
<1>9. ASSUME NEW j \in FreePlaces \ {b} PROVE Better(b, j)
  <2>1. CASE j \notin B
    <3>1. H # {} /\ text[b].kind = "heading" /\ text[j].kind # "heading"
      BY <2>1, <1>8, <1>9
    <3> QED BY <3>1 DEF Better
  <2>2. CASE j \in B
    <3>1. text[b].kind = text[j].kind
      BY <2>2, <1>8, PlacesFree
    <3>2. Counted(j) <= c /\ Counted(j) \in Int /\ c \in Int /\ b \in Nat /\ j \in Nat
      BY <2>2, <1>2, <1>3, <1>5, <1>8
    <3>3. Counted(j) = c => b < j
      <4>1. Counted(j) = c => j \in M
        BY <2>2
      <4> QED BY <4>1, <1>7, <1>9, <3>2
    <3> QED BY <3>1, <3>2, <3>3, <1>8 DEF Better
  <2> QED BY <2>1, <2>2
<1> QED BY <1>8, <1>9

-----------------------------------------------------------------------------
LEMMA TextBegins == TextInit => TextInv
<1> SUFFICES ASSUME TextInit PROVE TextInv
  OBVIOUS
<1>1. text = <<>> /\ textPc = "writing" /\ chosen = <<>>
  BY DEF TextInit
<1>2. TextTyped
  BY <1>1, TextAssumption, LenProperties DEF TextTyped
<1>3. FactsBelow /\ PlacesApart /\ OwnPlaces /\ LinesInSection
  BY <1>1 DEF FactsBelow, PlacesApart, OwnPlaces, LinesInSection, Facts
<1> QED BY <1>2, <1>3 DEF TextInv

\* What is written is below the last heading.
LEMMA WriteKeeps ==
  ASSUME TextInv, Write
  PROVE  TextInv'
<1>1. textPc = "writing" /\ textPc' = "writing" /\ chosen = <<>> /\ chosen' = <<>>
  BY DEF Write, TextInv, TextTyped
<1>2. text \in Seq(TextLines) /\ Len(text) \in Nat /\ DOMAIN text = 1 .. Len(text)
  BY LenProperties DEF TextInv, TextTyped
<1>3. PICK l \in TextLines :
        /\ text' = Append(text, l)
        /\ l.kind \in Kinds => l.of \in Writing
  <2>1. Kinds \cap {"heading", "prose"} = {} /\ Names \subseteq SUBSET ToSet(Team)
    BY TextAssumption
  <2>2. ASSUME NEW who \in Names, text' = Append(text, Mention("heading", who))
        PROVE  Mention("heading", who) \in TextLines /\ Mention("heading", who).kind \notin Kinds
    BY <2>1 DEF Mention, TextLines
  <2>3. ASSUME NEW who \in Names, text' = Append(text, Mention("prose", who))
        PROVE  Mention("prose", who) \in TextLines /\ Mention("prose", who).kind \notin Kinds
    BY <2>1 DEF Mention, TextLines
  <2>4. Writing \subseteq ToSet(Team) \cup {Nobody}
    <3>1. CASE Places("heading") = {}
      BY <3>1 DEF Writing
    <3>2. CASE Places("heading") # {}
      <4>1. Places("heading") \in SUBSET (1 .. Len(text))
        BY <1>2 DEF Places
      <4>2. Max(Places("heading")) \in 1 .. Len(text)
        BY <1>2, <3>2, <4>1, LargestIs
      <4>3. text[Max(Places("heading"))] \in TextLines
        BY <1>2, <4>2, ElementOfSeq
      <4> QED BY <3>2, <4>3 DEF Writing, TextLines
    <3> QED BY <3>1, <3>2
  <2>5. ASSUME NEW kind \in Kinds, NEW of \in Writing, text' = Append(text, Fact(kind, of))
        PROVE  Fact(kind, of) \in TextLines /\ Fact(kind, of).of \in Writing
    BY <2>4 DEF Fact, TextLines
  <2>6. CASE \E who \in Names : text' = Append(text, Mention("heading", who))
    BY <2>2, <2>6
  <2>7. CASE \E who \in Names : text' = Append(text, Mention("prose", who))
    BY <2>3, <2>7
  <2>8. CASE \E kind \in Kinds, of \in Writing : text' = Append(text, Fact(kind, of))
    BY <2>5, <2>8
  <2> QED BY <2>6, <2>7, <2>8 DEF Write
<1> DEFINE z == Len(text) + 1
<1>4. /\ text' \in Seq(TextLines) /\ DOMAIN text' = 1 .. z /\ text'[z] = l
      /\ \A i \in 1 .. Len(text) : text'[i] = text[i]
  BY <1>2, <1>3, AppendProperties
<1>5. TextTyped'
  BY <1>1, <1>4, LenProperties, TextAssumption DEF TextInv, TextTyped
<1>6. FactsBelow'
  <2> SUFFICES ASSUME NEW i \in Facts', text'[i].of # Nobody
               PROVE  \E j \in Places("heading")' :
                        /\ j < i /\ text'[i].of \in text'[j].who
                        /\ \A k \in Places("heading")' : k < i => k <= j
    BY DEF FactsBelow
  <2>1. i \in 1 .. z /\ text'[i].kind \in Kinds
    BY <1>4 DEF Facts
  <2>2. \A k : k \in Places("heading")' /\ k # z <=> k \in Places("heading")
    BY <1>2, <1>4 DEF Places
  <2>3. CASE i # z
    <3>1. i \in Facts /\ text[i].of # Nobody /\ i \in 1 .. Len(text)
      BY <1>2, <1>4, <2>1, <2>3 DEF Facts
    <3>2. PICK j \in Places("heading") :
            /\ j < i /\ text[i].of \in text[j].who
            /\ \A k \in Places("heading") : k < i => k <= j
      BY <3>1 DEF TextInv, FactsBelow
    <3>3. j \in 1 .. Len(text) /\ j \in Places("heading")'
      BY <1>2, <2>2 DEF Places
    <3> QED BY <1>4, <2>2, <3>1, <3>2, <3>3
  <2>4. CASE i = z
    <3>1. l.of \in Writing /\ l.of # Nobody
      BY <1>3, <1>4, <2>1, <2>4
    <3>2. Places("heading") # {} /\ l.of \in text[Max(Places("heading"))].who
      BY <3>1 DEF Writing
    <3>3. Places("heading") \in SUBSET (1 .. Len(text))
      BY <1>2 DEF Places
    <3> DEFINE j == Max(Places("heading"))
    <3>4. j \in Places("heading") /\ \A k \in Places("heading") : k <= j
      BY <1>2, <3>2, <3>3, LargestIs
    <3>5. j \in 1 .. Len(text) /\ j \in Places("heading")' /\ j < z
      BY <1>2, <2>2, <3>3, <3>4
    <3> HIDE DEF j
    <3>6. \A k \in Places("heading")' : k < z => k <= j
      BY <1>2, <2>2, <3>4
    <3> QED BY <1>4, <2>4, <3>2, <3>5, <3>6 DEF j
  <2> QED BY <2>3, <2>4
<1>7. PlacesApart' /\ OwnPlaces' /\ LinesInSection'
  BY <1>1 DEF PlacesApart, OwnPlaces, LinesInSection
<1> QED BY <1>5, <1>6, <1>7 DEF TextInv

LEMMA PublishKeeps ==
  ASSUME TextInv, Publish
  PROVE  TextInv'
<1>1. textPc = "writing" /\ textPc' = "choosing" /\ text' = text /\ chosen' = chosen /\ sets' = sets
  BY DEF Publish
<1> QED BY <1>1 DEF TextInv, TextTyped, FactsBelow, PlacesApart, OwnPlaces, LinesInSection, WellWritten,
            Facts, Places

\* The place of the next member: none, or one that no other member has; and its own
\* heading, if the text is well written.
LEMMA ChooseKeeps ==
  ASSUME TextInv, ChooseSection
  PROVE  TextInv'
<1> DEFINE n == Len(chosen) + 1
           c == IF FreePlaces = {} THEN 0
                ELSE CHOOSE i \in FreePlaces : \A j \in FreePlaces \ {i} : Better(i, j)
<1>1. /\ textPc = "choosing" /\ textPc' = "choosing" /\ text' = text /\ sets' = sets
      /\ chosen' = Append(chosen, c)
  BY DEF ChooseSection
<1>2. text \in Seq(TextLines) /\ Len(text) \in Nat /\ DOMAIN text = 1 .. Len(text)
  BY LenProperties DEF TextInv, TextTyped
<1>3. /\ chosen \in Seq(Nat) /\ Len(chosen) \in Nat /\ DOMAIN chosen = 1 .. Len(chosen)
      /\ n \in 1 .. Len(Team) /\ DOMAIN Team = 1 .. Len(Team) /\ Len(Team) \in Nat
  BY LenProperties, TextAssumption DEF ChooseSection, TextInv, TextTyped
<1>4. FreePlaces # {} => c \in FreePlaces /\ \A j \in FreePlaces \ {c} : Better(c, j)
  BY <1>2, BestIs
<1> HIDE DEF c
<1>5. c # 0 => /\ c \in DOMAIN text /\ \A q \in ToSet(chosen) \ {0} : c - q > Apart \/ q - c > Apart
  BY <1>4, PlacesFree DEF c
<1>6. c \in Nat
  BY <1>2, <1>5
<1>7. /\ chosen' \in Seq(Nat) /\ DOMAIN chosen' = 1 .. n /\ chosen'[n] = c /\ Len(chosen') = n
      /\ \A m \in 1 .. Len(chosen) : chosen'[m] = chosen[m]
  BY <1>1, <1>3, <1>6, AppendProperties
<1>8. TextTyped'
  BY <1>1, <1>3, <1>7 DEF TextInv, TextTyped
<1>9. FactsBelow' /\ LinesInSection'
  BY <1>1 DEF TextInv, FactsBelow, LinesInSection, Facts, Places
<1>10. \A m \in 1 .. Len(chosen) : chosen[m] # 0 => chosen[m] # c /\ chosen[m] \in ToSet(chosen) \ {0}
  <2> SUFFICES ASSUME NEW m \in 1 .. Len(chosen), chosen[m] # 0
               PROVE  chosen[m] # c /\ chosen[m] \in ToSet(chosen) \ {0}
    OBVIOUS
  <2>1. chosen[m] \in ToSet(chosen) \ {0} /\ chosen[m] \in Nat
    BY <1>3, ElementOfSeq DEF ToSet
  <2>2. c # 0 => c - chosen[m] > Apart \/ chosen[m] - c > Apart
    BY <1>5, <2>1
  <2> QED BY <1>6, <2>1, <2>2, TextAssumption
<1>11. PlacesApart'
  <2> SUFFICES ASSUME NEW m \in 1 .. n, NEW k \in 1 .. n, m # k, chosen'[m] # 0
               PROVE  chosen'[m] # chosen'[k]
    BY <1>7 DEF PlacesApart
  <2>1. CASE m # n /\ k # n
    <3>1. m \in DOMAIN chosen /\ k \in DOMAIN chosen
      BY <1>3, <2>1
    <3>2. chosen'[m] = chosen[m] /\ chosen'[k] = chosen[k]
      BY <1>3, <1>7, <3>1
    <3>3. PlacesApart
      BY DEF TextInv
    <3>4. chosen[m] # chosen[k]
      BY <3>1, <3>2, <3>3 DEF PlacesApart
    <3> QED BY <3>2, <3>4
  <2>2. CASE m = n
    BY <1>3, <1>7, <1>10, <2>2
  <2>3. CASE k = n
    BY <1>3, <1>7, <1>10, <2>3
  <2> QED BY <2>1, <2>2, <2>3
<1>12. OwnPlaces'
  <2> SUFFICES ASSUME WellWritten
               PROVE  \A m \in 1 .. n : /\ chosen'[m] \in Places("heading")
                                        /\ text[chosen'[m]].who = {Team[m]}
    BY <1>1, <1>7 DEF OwnPlaces, WellWritten, Places, Facts
  <2>1. \A m \in 1 .. Len(chosen) : chosen[m] \in Places("heading") /\ text[chosen[m]].who = {Team[m]}
    BY <1>3 DEF TextInv, OwnPlaces
  <2>2. PICK h \in Places("heading") :
          /\ text[h].who = {Team[n]} /\ h + 1 \in Facts
          /\ \A j \in Places("heading") \ {h} : Team[n] \notin text[j].who
    BY <1>3 DEF WellWritten
  <2>3. h \in DOMAIN text /\ text[h].kind = "heading" /\ h \in Nat
    BY <1>2 DEF Places
  <2>4. ASSUME NEW q \in ToSet(chosen) \ {0} PROVE h - q > Apart \/ q - h > Apart
    <3>1. PICK m \in 1 .. Len(chosen) : q = chosen[m]
      BY <1>3 DEF ToSet
    <3>2. q \in Places("heading") /\ text[q].who = {Team[m]}
      BY <2>1, <3>1
    <3>3. Team[m] # Team[n]
      BY <1>3 DEF WellWritten
    <3>4. q # h /\ q \in Nat
      <4>1. q \in 1 .. Len(text)
        BY <1>2, <3>2 DEF Places
      <4>2. q # h
        BY <2>2, <3>2, <3>3
      <4> QED BY <4>1, <4>2
    <3> QED BY <2>3, <3>2, <3>4 DEF WellWritten
  <2>5. SetLike(h) > 0
    BY <1>2, <2>2, <2>3, SetLikeIs
  <2>6. h \in FreePlaces
    BY <2>2, <2>3, <2>4, <2>5 DEF FreePlaces, Candidates, Mentions
  <2>7. c = h
    <3> SUFFICES ASSUME c # h PROVE FALSE
      OBVIOUS
    <3>1. c \in FreePlaces /\ Better(c, h)
      BY <1>4, <2>6
    <3>2. text[c].kind = "heading" /\ c \in DOMAIN text /\ Team[n] \in text[c].who
      BY <2>3, <3>1, PlacesFree DEF Better
    <3>3. c \in Places("heading") \ {h}
      BY <3>2 DEF Places
    <3> QED BY <2>2, <3>2, <3>3
  <2> QED BY <1>3, <1>7, <2>1, <2>2, <2>7
<1> QED BY <1>8, <1>9, <1>11, <1>12 DEF TextInv

\* A line that is read is in the section it is read for.
LEMMA ReadKeeps ==
  ASSUME TextInv, NEW rich, ReadSets(rich)
  PROVE  TextInv'
<1>1. /\ textPc' = "read" /\ text' = text /\ chosen' = chosen /\ Len(chosen) = Len(Team)
      /\ sets' = IF Cardinality(Made(rich)) >= 2
                 THEN [n \in DOMAIN Team |-> IF n \in Made(rich) THEN Found(n) ELSE << >>]
                 ELSE << >>
  BY DEF ReadSets
<1>2. /\ chosen \in Seq(Nat) /\ Len(chosen) \in Nat /\ DOMAIN chosen = 1 .. Len(chosen)
      /\ DOMAIN Team = DOMAIN chosen
  BY <1>1, LenProperties, TextAssumption DEF TextInv, TextTyped
<1>3. text \in Seq(TextLines) /\ Len(text) \in Nat /\ DOMAIN text = 1 .. Len(text)
  BY LenProperties DEF TextInv, TextTyped
<1>4. TextTyped' /\ FactsBelow' /\ PlacesApart' /\ OwnPlaces'
  BY <1>1 DEF TextInv, TextTyped, FactsBelow, PlacesApart, OwnPlaces, WellWritten, Facts, Places
<1>5. LinesInSection'
  <2> SUFFICES ASSUME NEW n \in DOMAIN sets', NEW i \in Lines(n)'
               PROVE  InSection(n, i)'
    BY DEF LinesInSection
  <2>1. PICK k \in DOMAIN sets'[n] : i = sets'[n][k]
    BY DEF Lines
  <2>2. n \in DOMAIN Team /\ n \in Made(rich) /\ sets'[n] = Found(n)
    <3>1. CASE Cardinality(Made(rich)) >= 2
      BY <1>1, <2>1, <3>1
    <3>2. CASE ~ (Cardinality(Made(rich)) >= 2)
      BY <1>1, <3>2
    <3> QED BY <3>1, <3>2
  <2>3. k \in Kinds /\ Seen(n, k) # {} /\ i = Min(Seen(n, k))
    BY <2>1, <2>2 DEF Found
  <2>4. Seen(n, k) \in SUBSET Nat
    BY <1>3 DEF Seen, Facts
  <2>5. i \in Seen(n, k)
    BY <2>3, <2>4, SmallestIs
  <2>6. i \in Facts /\ chosen[n] < i /\ i < SectionEnd(n) /\ i \in Nat
    BY <2>4, <2>5 DEF Seen
  <2>7. chosen[n] # 0
    BY <2>2 DEF Made, MakesSet
  <2>8. ASSUME NEW m \in DOMAIN chosen, chosen[n] < chosen[m]
        PROVE  i < chosen[m]
    <3> DEFINE S == {chosen[n] + SectionLength} \cup {q \in ToSet(chosen) : q > chosen[n]}
    <3>1. chosen[n] \in Nat /\ chosen[m] \in Nat /\ \A q \in ToSet(chosen) : q \in Nat
      BY <1>2, <2>2, ElementOfSeq DEF ToSet
    <3>2. S \in SUBSET Nat /\ chosen[m] \in S
      BY <2>8, <3>1, TextAssumption DEF ToSet
    <3>3. Min(S) \in Nat /\ Min(S) <= chosen[m]
      <4> HIDE DEF S
      <4> QED BY <3>2, SmallestIs
    <3> QED BY <2>6, <3>1, <3>3 DEF SectionEnd
  <2> QED BY <1>1, <2>2, <2>6, <2>7, <2>8 DEF InSection, Facts
<1> QED BY <1>4, <1>5 DEF TextInv

\* What is read is apart, and in a well-written text each line is its reader's own.
LEMMA TextTold ==
  ASSUME TextInv
  PROVE  TextSound
<1>1. NothingReadTwice
  <2> SUFFICES ASSUME textPc = "read", NEW m \in DOMAIN sets, NEW n \in DOMAIN sets, m # n,
                      NEW i \in Lines(m), i \in Lines(n)
               PROVE  FALSE
    BY DEF NothingReadTwice
  <2>1. InSection(m, i) /\ InSection(n, i)
    BY DEF TextInv, LinesInSection
  <2>2. /\ DOMAIN chosen = DOMAIN Team
        /\ \A k \in DOMAIN chosen : chosen[k] \in Nat
    BY LenProperties, ElementOfSeq, TextAssumption DEF TextInv, TextTyped
  <2>3. m \in DOMAIN chosen /\ n \in DOMAIN chosen /\ chosen[m] # 0
    BY <2>1, <2>2 DEF InSection
  <2>4. chosen[m] # chosen[n]
    BY <2>3 DEF TextInv, PlacesApart
  <2>5. i \in Nat
    BY LenProperties, <2>1 DEF TextInv, TextTyped, InSection, Facts
  <2>6. CASE chosen[m] < chosen[n]
    BY <2>1, <2>2, <2>3, <2>5, <2>6 DEF InSection
  <2>7. CASE chosen[n] < chosen[m]
    BY <2>1, <2>2, <2>3, <2>5, <2>7 DEF InSection
  <2> QED BY <2>2, <2>3, <2>4, <2>6, <2>7
<1>2. OwnSetsRead
  <2> SUFFICES ASSUME textPc = "read", WellWritten, NEW n \in DOMAIN sets, NEW i \in Lines(n)
               PROVE  text[i].of = Team[n]
    BY DEF OwnSetsRead
  <2>1. InSection(n, i)
    BY DEF TextInv, LinesInSection
  <2>2. /\ DOMAIN chosen = DOMAIN Team /\ text \in Seq(TextLines)
        /\ Len(text) \in Nat /\ DOMAIN text = 1 .. Len(text)
    BY LenProperties, TextAssumption DEF TextInv, TextTyped
  <2>3. \A k \in DOMAIN Team : chosen[k] \in Places("heading") /\ text[chosen[k]].who = {Team[k]}
    BY <2>2 DEF TextInv, OwnPlaces
  <2>4. i \in Facts /\ n \in DOMAIN Team /\ text[i].of # Nobody
    BY <2>1 DEF InSection, WellWritten
  <2>5. PICK j \in Places("heading") :
          /\ j < i /\ text[i].of \in text[j].who
          /\ \A k \in Places("heading") : k < i => k <= j
    BY <2>4 DEF TextInv, FactsBelow
  <2>6. text[j].who \subseteq ToSet(Team)
    <3>1. text[j] \in TextLines
      BY <2>2, ElementOfSeq DEF Places
    <3> QED BY <3>1 DEF TextLines
  <2>7. PICK m \in DOMAIN Team : text[i].of = Team[m]
    BY <2>5, <2>6 DEF ToSet
  <2>8. j = chosen[m]
    <3>1. PICK h \in Places("heading") : \A k \in Places("heading") \ {h} : Team[m] \notin text[k].who
      BY DEF WellWritten
    <3>2. Team[m] \in text[j].who /\ Team[m] \in text[chosen[m]].who
      BY <2>3, <2>5, <2>7
    <3>3. j = h /\ chosen[m] = h
      BY <2>3, <3>1, <3>2
    <3> QED BY <3>3
  <2>9. chosen[n] < i /\ chosen[n] \in Places("heading") /\ chosen[n] <= j
    BY <2>1, <2>3, <2>4, <2>5 DEF InSection
  <2>10. ~ (chosen[n] < j)
    <3> SUFFICES ASSUME chosen[n] < j PROVE FALSE
      OBVIOUS
    <3>1. i < j
      BY <2>1, <2>2, <2>8 DEF InSection
    <3>2. i \in Nat /\ j \in Nat
      BY <2>2, <2>4 DEF Facts, Places
    <3> QED BY <2>5, <3>1, <3>2
  <2>11. chosen[n] = j
    <3>1. chosen[n] \in Nat /\ j \in Nat
      BY <2>2, <2>9 DEF Places
    <3> QED BY <2>9, <2>10, <3>1
  <2>12. {Team[m]} = {Team[n]}
    BY <2>3, <2>4, <2>8, <2>11
  <2> QED BY <2>7, <2>12
<1> QED BY <1>1, <1>2 DEF TextSound

\* No Pokemon is published with what a text says of another, if it is well written;
\* and in any text, of whatever length and in whatever order, no line is read for
\* two. The order of the candidates, the distance kept from chosen places and the
\* end of a section at the next one are each needed.
THEOREM TextIsSound == TextSpec => []TextSound
<1>1. TextInit => TextInv
  BY TextBegins
<1>2. TextInv /\ [TextNext]_textVars => TextInv'
  <2> SUFFICES ASSUME TextInv, [TextNext]_textVars PROVE TextInv'
    OBVIOUS
  <2>1. CASE Write
    BY <2>1, WriteKeeps
  <2>2. CASE Publish
    BY <2>2, PublishKeeps
  <2>3. CASE ChooseSection
    BY <2>3, ChooseKeeps
  <2>4. CASE \E rich \in SUBSET DOMAIN Team : ReadSets(rich)
    BY <2>4, ReadKeeps
  <2>5. CASE UNCHANGED textVars
    <3>1. text' = text /\ textPc' = textPc /\ chosen' = chosen /\ sets' = sets
      BY <2>5 DEF textVars
    <3>2. TextTyped' /\ PlacesApart'
      BY <3>1 DEF TextInv, TextTyped, PlacesApart
    <3>3. Facts' = Facts /\ \A kind : Places(kind)' = Places(kind)
      BY <3>1 DEF Facts, Places
    <3>4. FactsBelow' /\ OwnPlaces'
      BY <3>1, <3>3 DEF TextInv, FactsBelow, OwnPlaces, WellWritten
    <3>5. LinesInSection'
      BY <3>1, <3>3 DEF TextInv, LinesInSection, Lines, InSection
    <3> QED BY <3>2, <3>4, <3>5 DEF TextInv
  <2> QED BY <2>1, <2>2, <2>3, <2>4, <2>5 DEF TextNext
<1>3. TextInv => TextSound
  BY TextTold
<1> QED BY <1>1, <1>2, <1>3, PTL DEF TextSpec

-----------------------------------------------------------------------------
(* TeamReports. The argument: what a scrape has shown of a source is all of *)
(* the pages it was through with, and a page that is there stays; a team is *)
(* as rich as each report merged into it, which Worthwhile does not change; *)
(* of each species, as many slots have their set as there are slots or sets *)
(* read so far, whichever is less.                                          *)

\* An article that was downloaded is there, and one that is there stays.
OnceRead ==
  \A u \in Articles : reads[u] <= 1 /\ (files[u] # "page" => reads[u] = 0)

\* The reports of the first n pages of source s are all in seq.
AllShown(s, n, seq) ==
  \A p \in 1 .. n : \A i \in DOMAIN Sources[s][p] :
    \E j \in DOMAIN seq : seq[j] = Sources[s][p][i]

AllPages(s) == \A p \in DOMAIN Sources[s] : files[ListingPage(s, p)] = "page"

\* The sources that are through.
IsThrough(s) == scrapePc = "list" => s < current

ListedWhole ==
  /\ scrapePc = "tables" => current = 1 /\ page = 1
  /\ scrapePc \in {"list", "merge", "articles", "done"} /\ named =>
       \A s \in DOMAIN Sources \ broken :
         IsThrough(s) /\ AllPages(s) => AllShown(s, Len(Sources[s]), raw)
  /\ scrapePc = "list" /\ named => AllShown(current, page - 1, shown)

\* A team by the key of r is at least as rich as r.
Richer(t, r) == Known(r.mons) <= Known(t.mons) /\ (t.rank = 0 => r.rank = 0)

MergedWhole ==
  /\ scrapePc \in {"idle", "tables", "list"} => merged = 0
  /\ scrapePc \in {"articles", "done"} => merged = Len(raw)
  /\ \A i \in 1 .. merged :
       /\ scrapePc = "merge" \/ Known(raw[i].mons) >= MinKnown =>
            raw[i].key \in DOMAIN scraped
       /\ raw[i].key \in DOMAIN scraped => Richer(scraped[raw[i].key], raw[i])

Less(m, n) == IF m < n THEN m ELSE n

\* The first n sets of an article that are of species s.
First(a, n, s) == {i \in 1 .. n : SetsOn[a][i] = s}

Fitting(t) ==
  /\ DOMAIN t.sets = DOMAIN t.mons
  /\ \A i \in DOMAIN t.mons : t.sets[i] \in {Unknown, t.mons[i]}
  /\ \A s \in Species :
       Times(t.sets, s) = Less(Times(t.mons, s), Cardinality(First(t.article, t.placed, s)))

SetsFitting ==
  /\ \A k \in DOMAIN scraped :
       /\ scraped[k].placed <= Len(SetsOn[scraped[k].article])
       /\ scraped[k].sets = <<>> => scraped[k].placed = 0
       /\ scraped[k].sets # <<>> => Fitting(scraped[k])
       /\ scrapePc \notin {"articles", "done"} \/ k \in unread => scraped[k].sets = <<>>
  /\ scrapePc = "done" => Loose = {}

ScrapeInv == ScrapeTypes /\ OnceRead /\ ListedWhole /\ MergedWhole /\ SetsFitting

\* What the constants are.
LEMMA SourcePages ==
  /\ Len(Sources) \in Nat \ {0} /\ DOMAIN Sources = 1 .. Len(Sources)
  /\ \A s \in DOMAIN Sources :
       /\ Len(Sources[s]) \in Nat \ {0} /\ DOMAIN Sources[s] = 1 .. Len(Sources[s])
       /\ \A p \in DOMAIN Sources[s] : Sources[s][p] \in Seq(Report)
<1>1. Sources \in Seq(Seq(Seq(Report)) \ {<<>>}) /\ Sources # <<>>
  BY ScrapeAssumption
<1>2. Len(Sources) \in Nat \ {0} /\ DOMAIN Sources = 1 .. Len(Sources)
  BY <1>1, EmptySeq, LenProperties
<1>3. ASSUME NEW s \in DOMAIN Sources
      PROVE  /\ Len(Sources[s]) \in Nat \ {0} /\ DOMAIN Sources[s] = 1 .. Len(Sources[s])
             /\ \A p \in DOMAIN Sources[s] : Sources[s][p] \in Seq(Report)
  <2>1. Sources[s] \in Seq(Seq(Report)) \ {<<>>}
    BY <1>1, <1>2, ElementOfSeq
  <2>2. Len(Sources[s]) \in Nat \ {0} /\ DOMAIN Sources[s] = 1 .. Len(Sources[s])
    BY <2>1, EmptySeq, LenProperties
  <2> QED BY <2>1, <2>2, ElementOfSeq
<1> QED BY <1>2, <1>3

LEMMA PageSets ==
  ASSUME NEW a \in DOMAIN SetsOn
  PROVE  /\ SetsOn[a] \in Seq(Species) /\ Len(SetsOn[a]) \in Nat
         /\ DOMAIN SetsOn[a] = 1 .. Len(SetsOn[a])
         /\ \A i \in DOMAIN SetsOn[a] : SetsOn[a][i] \in Species /\ SetsOn[a][i] # Unknown
<1>1. SetsOn[a] \in Seq(Species)
  BY ScrapeAssumption
<1> QED BY <1>1, LenProperties, ElementOfSeq, ScrapeAssumption

\* The addresses of pages.
LEMMA PageUrls ==
  /\ Tables \in Urls
  /\ \A s \in DOMAIN Sources : \A p \in DOMAIN Sources[s] :
       /\ ListingPage(s, p) \in Urls /\ ListingPage(s, p) # Tables
       /\ \A a : ListingPage(s, p) # ArticlePage(a)
       /\ \A t, q : ListingPage(s, p) = ListingPage(t, q) => s = t /\ p = q
  /\ \A a \in DOMAIN SetsOn : ArticlePage(a) \in Urls
BY DEF Urls, Tables, Listed, ListingPage, Articles, ArticlePage

LEMMA Interval ==
  ASSUME NEW n \in Nat
  PROVE  IsFiniteSet(1 .. n) /\ Cardinality(1 .. n) = n
<1>1. /\ IsFiniteSet(1 .. n)
      /\ Cardinality(1 .. n) = IF 1 > n THEN 0 ELSE n - 1 + 1
  BY FS_Interval
<1> QED BY <1>1

\* Counts of places are numbers.
LEMMA CountIsNat ==
  ASSUME NEW S, NEW seq \in Seq(S), NEW I \in SUBSET DOMAIN seq
  PROVE  IsFiniteSet(I) /\ Cardinality(I) \in Nat /\ Cardinality(I) <= Len(seq)
<1>1. DOMAIN seq = 1 .. Len(seq) /\ Len(seq) \in Nat
  BY LenProperties
<1>2. IsFiniteSet(1 .. Len(seq)) /\ Cardinality(1 .. Len(seq)) = Len(seq)
  BY <1>1, Interval
<1>3. IsFiniteSet(I) /\ Cardinality(I) <= Cardinality(1 .. Len(seq))
  BY <1>1, <1>2, FS_Subset
<1> QED BY <1>2, <1>3, FS_CardinalityType

LEMMA KnownIsNat ==
  ASSUME NEW mons \in Mons
  PROVE  Known(mons) \in Nat
<1>1. {i \in DOMAIN mons : mons[i] # Unknown} \in SUBSET DOMAIN mons
  OBVIOUS
<1> QED BY <1>1, CountIsNat DEF Mons, Known

LEMMA TimesIsNat ==
  ASSUME NEW mons \in Mons, NEW s
  PROVE  Times(mons, s) \in Nat
<1>1. {i \in DOMAIN mons : mons[i] = s} \in SUBSET DOMAIN mons
  OBVIOUS
<1> QED BY <1>1, CountIsNat DEF Mons, Times

\* Each page is written and counted as it is fetched, and no other.
LEMMA FetchIs ==
  ASSUME NEW u \in Urls, \E answer \in Answers : Fetch(u, answer), ScrapeTypes, OnceRead
  PROVE  /\ files' \in [Urls -> {"none", "empty", "page"}] /\ aged' \subseteq Urls
         /\ reads' \in [Articles -> Nat] /\ OnceRead'
         /\ \A v \in Urls : v # u => files'[v] = files[v]
<1>1. PICK answer \in Answers : Fetch(u, answer)
  OBVIOUS
<1>2. answer \in {"page", "gone", "busy"} /\ Articles \subseteq Urls
  BY DEF Answers, Urls
<1>3. files[u] \in {"none", "empty", "page"} /\ Got(u, answer) \in {"none", "empty", "page"}
  BY <1>2 DEF ScrapeTypes, Got
<1>4. /\ files' \in [Urls -> {"none", "empty", "page"}]
      /\ \A v \in Urls : v # u => files'[v] = files[v]
      /\ files'[u] = Got(u, answer)
  BY <1>1, <1>3 DEF ScrapeTypes, Fetch
<1>5. aged' \subseteq Urls
  BY <1>1 DEF ScrapeTypes, Fetch
<1>6. CASE u \in Articles /\ ~Fresh(u) /\ answer = "page"
  <2>1. files[u] = "none" /\ files'[u] = "page" /\ reads[u] = 0
    BY <1>3, <1>4, <1>6 DEF Fresh, Got, OnceRead
  <2>2. reads' = [reads EXCEPT ![u] = @ + 1]
    BY <1>1, <1>6 DEF Fetch
  <2>3. reads' \in [Articles -> Nat] /\ reads'[u] = 1
    BY <1>6, <2>1, <2>2 DEF ScrapeTypes
  <2>4. \A v \in Articles : v # u => reads'[v] = reads[v]
    BY <2>2 DEF ScrapeTypes
  <2>5. OnceRead'
    BY <1>2, <1>4, <2>1, <2>3, <2>4 DEF OnceRead
  <2> QED BY <1>4, <1>5, <2>3, <2>5
<1>7. CASE ~(u \in Articles /\ ~Fresh(u) /\ answer = "page")
  <2>1. reads' = reads
    BY <1>1, <1>7 DEF Fetch
  <2>2. u \in Articles /\ files[u] = "page" => files'[u] = "page"
    BY <1>3, <1>4 DEF Fresh, Got
  <2>3. OnceRead'
    BY <1>2, <1>4, <2>1, <2>2 DEF OnceRead
  <2> QED BY <1>4, <1>5, <2>1, <2>3 DEF ScrapeTypes
<1> QED BY <1>6, <1>7

LEMMA RecognisedIs ==
  ASSUME named \in BOOLEAN, NEW reports \in Seq(Report)
  PROVE  /\ Recognised(reports) \in Seq(Report) /\ DOMAIN Recognised(reports) = DOMAIN reports
         /\ named => Recognised(reports) = reports
<1>1. DOMAIN reports = 1 .. Len(reports) /\ Len(reports) \in Nat
  BY LenProperties
<1>2. ASSUME NEW i \in DOMAIN reports
      PROVE  [reports[i] EXCEPT !.mons = [j \in DOMAIN @ |-> Unknown]] \in Report
  <2>1. reports[i] \in Report
    BY ElementOfSeq, <1>1
  <2>2. reports[i].mons \in Mons
    BY <2>1 DEF Report
  <2>3. [j \in DOMAIN reports[i].mons |-> Unknown] \in Mons
    <3>1. DOMAIN reports[i].mons = 1 .. Len(reports[i].mons) /\ Len(reports[i].mons) \in Nat
      BY <2>2, LenProperties DEF Mons
    <3> QED BY <3>1 DEF Mons
  <2> QED BY <2>1, <2>3 DEF Report
<1>3. \A i \in DOMAIN reports : reports[i] \in Report
  BY <1>1, ElementOfSeq
<1>4. Recognised(reports) \in Seq(Report)
  <2>1. Recognised(reports) \in [1 .. Len(reports) -> Report]
    BY <1>1, <1>2, <1>3 DEF Recognised
  <2> QED BY <1>1, <2>1
<1>5. ASSUME named PROVE Recognised(reports) = reports
  <2>1. Recognised(reports) = [i \in DOMAIN reports |-> reports[i]]
    BY <1>5 DEF Recognised
  <2> QED BY <2>1, <1>1
<1> QED BY <1>4, <1>5 DEF Recognised

\* A report makes its team as rich as itself and no team poorer.
LEMMA MergedWithIs ==
  ASSUME NEW by, by \in [DOMAIN by -> FoundTeam], DOMAIN by \subseteq Addresses,
         \A k \in DOMAIN by : by[k].sets = <<>> /\ by[k].placed = 0,
         NEW r \in Report
  PROVE  /\ DOMAIN MergedWith(by, r) = DOMAIN by \union {r.key}
         /\ MergedWith(by, r) \in [DOMAIN by \union {r.key} -> FoundTeam]
         /\ r.key \in Addresses /\ Richer(MergedWith(by, r)[r.key], r)
         /\ \A k \in DOMAIN by \union {r.key} :
              MergedWith(by, r)[k].sets = <<>> /\ MergedWith(by, r)[k].placed = 0
         /\ \A k \in DOMAIN by : \A q \in Report :
              Richer(by[k], q) => Richer(MergedWith(by, r)[k], q)
<1> DEFINE new == MergedWith(by, r)
<1>1. /\ r.key \in Addresses /\ r.article \in DOMAIN SetsOn /\ r.rank \in Nat /\ r.mons \in Mons
      /\ Known(r.mons) \in Nat
  BY KnownIsNat DEF Report
<1>2. /\ DOMAIN new = DOMAIN by \union {r.key}
      /\ \A k \in DOMAIN by : k # r.key => new[k] = by[k]
      /\ r.key \in DOMAIN by => new[r.key] = Enriched(by[r.key], r)
      /\ r.key \notin DOMAIN by => new[r.key] = FirstSeen(r)
  BY DEF MergedWith
<1> HIDE DEF new
<1>3. /\ FirstSeen(r) \in FoundTeam /\ Richer(FirstSeen(r), r)
      /\ FirstSeen(r).sets = <<>> /\ FirstSeen(r).placed = 0
  <2>1. <<>> \in Mons
    BY DEF Mons
  <2> QED BY <1>1, <2>1 DEF FirstSeen, FoundTeam, Richer
<1>4. ASSUME NEW t \in FoundTeam
      PROVE  /\ Enriched(t, r) \in FoundTeam /\ Richer(Enriched(t, r), r)
             /\ Enriched(t, r).sets = t.sets /\ Enriched(t, r).placed = t.placed
             /\ \A q \in Report : Richer(t, q) => Richer(Enriched(t, r), q)
  <2>1. t.mons \in Mons /\ t.rank \in Nat /\ Known(t.mons) \in Nat
    BY KnownIsNat DEF FoundTeam
  <2>2. /\ Enriched(t, r).rank = IF t.rank = 0 THEN r.rank ELSE t.rank
        /\ Enriched(t, r).mons = IF Known(t.mons) < Known(r.mons) THEN r.mons ELSE t.mons
        /\ Enriched(t, r).sets = t.sets /\ Enriched(t, r).placed = t.placed
    BY DEF Enriched, FoundTeam
  <2>3. Enriched(t, r) \in FoundTeam
    BY <1>1, <2>1 DEF Enriched, FoundTeam
  <2>4. Richer(Enriched(t, r), r)
    BY <1>1, <2>1, <2>2 DEF Richer
  <2>5. ASSUME NEW q \in Report, Richer(t, q) PROVE Richer(Enriched(t, r), q)
    <3>1. Known(q.mons) \in Nat
      BY KnownIsNat DEF Report
    <3> QED BY <1>1, <2>1, <2>2, <2>5, <3>1 DEF Richer
  <2> QED BY <2>2, <2>3, <2>4, <2>5
<1>5. new \in [DOMAIN by \union {r.key} -> FoundTeam]
  <2>1. new = [k \in DOMAIN by \union {r.key} |-> new[k]]
    BY DEF new, MergedWith
  <2>2. \A k \in DOMAIN by \union {r.key} : new[k] \in FoundTeam
    BY <1>2, <1>3, <1>4
  <2> QED BY <2>1, <2>2
<1>6. Richer(new[r.key], r)
  BY <1>2, <1>3, <1>4
<1>7. \A k \in DOMAIN by \union {r.key} : new[k].sets = <<>> /\ new[k].placed = 0
  BY <1>2, <1>3, <1>4
<1>8. \A k \in DOMAIN by : \A q \in Report : Richer(by[k], q) => Richer(new[k], q)
  BY <1>2, <1>4
<1> QED BY <1>1, <1>2, <1>5, <1>6, <1>7, <1>8 DEF new

\* A set takes one slot more of its species, unless all are taken.
LEMMA AlignedFits ==
  ASSUME NEW t \in FoundTeam, Fitting(t), t.placed < Len(SetsOn[t.article]),
         NEW s, s = SetsOn[t.article][t.placed + 1],
         NEW next \in FoundTeam, next.article = t.article, next.mons = t.mons,
         next.placed = t.placed + 1, next.sets = Aligned(t.mons, t.sets, s)
  PROVE  Fitting(next)
<1>1. /\ t.article \in DOMAIN SetsOn /\ t.mons \in Mons /\ t.sets \in Mons /\ t.placed \in Nat
      /\ next.sets \in Mons
  BY DEF FoundTeam
<1>2. /\ DOMAIN t.mons = 1 .. Len(t.mons) /\ Len(t.mons) \in Nat
      /\ DOMAIN t.sets = DOMAIN t.mons
  BY <1>1, LenProperties DEF Mons, Fitting
<1>3. s \in Species /\ s # Unknown /\ t.placed + 1 \in DOMAIN SetsOn[t.article]
  BY <1>1, PageSets
<1> DEFINE F == Fits(t.mons, t.sets, s)
           Slots(seq, q) == {i \in DOMAIN seq : seq[i] = q}
           FirstOnes(n, q) == First(t.article, n, q)
<1>4. \A n \in Nat : \A q : IsFiniteSet(FirstOnes(n, q)) /\ Cardinality(FirstOnes(n, q)) \in Nat
  <2> TAKE n \in Nat
  <2> TAKE q
  <2>1. IsFiniteSet(1 .. n) /\ FirstOnes(n, q) \subseteq 1 .. n
    BY Interval DEF First
  <2> QED BY <2>1, FS_Subset, FS_CardinalityType
<1>5. \A q : /\ IsFiniteSet(Slots(t.mons, q)) /\ IsFiniteSet(Slots(t.sets, q))
             /\ Times(t.mons, q) = Cardinality(Slots(t.mons, q)) /\ Times(t.mons, q) \in Nat
             /\ Times(t.sets, q) = Cardinality(Slots(t.sets, q)) /\ Times(t.sets, q) \in Nat
             /\ Times(next.sets, q) = Cardinality(Slots(next.sets, q))
  <2> TAKE q
  <2>1. Slots(t.mons, q) \in SUBSET DOMAIN t.mons /\ Slots(t.sets, q) \in SUBSET DOMAIN t.sets
    OBVIOUS
  <2> QED BY <1>1, <2>1, CountIsNat DEF Mons, Times
<1>6. \A q \in Species : Slots(t.sets, q) \subseteq Slots(t.mons, q)
  BY <1>2, ScrapeAssumption DEF Fitting
<1>7. \A q \in Species \ {s} : FirstOnes(t.placed + 1, q) = FirstOnes(t.placed, q)
  BY <1>1 DEF First
<1>8. Cardinality(FirstOnes(t.placed + 1, s)) = Cardinality(FirstOnes(t.placed, s)) + 1
  <2>1. FirstOnes(t.placed + 1, s) = FirstOnes(t.placed, s) \union {t.placed + 1}
    BY <1>1 DEF First
  <2>2. t.placed + 1 \notin FirstOnes(t.placed, s)
    BY <1>1 DEF First
  <2>3. IsFiniteSet(FirstOnes(t.placed, s))
    BY <1>1, <1>4
  <2>4. \A A : IsFiniteSet(A) /\ t.placed + 1 \notin A =>
                Cardinality(A \union {t.placed + 1}) = Cardinality(A) + 1
    BY FS_AddElement
  <2> HIDE DEF FirstOnes
  <2> QED BY <2>1, <2>2, <2>3, <2>4
<1>11. /\ Cardinality(FirstOnes(t.placed, s)) \in Nat
       /\ Times(t.mons, s) \in Nat /\ Times(t.sets, s) \in Nat
       /\ Times(t.sets, s) = Less(Times(t.mons, s), Cardinality(FirstOnes(t.placed, s)))
  BY <1>1, <1>3, <1>4, <1>5 DEF Fitting
<1>9. CASE F = {}
  <2>1. next.sets = t.sets
    BY <1>9 DEF Aligned
  <2>2. Slots(t.sets, s) = Slots(t.mons, s)
    BY <1>2, <1>3, <1>9 DEF Fitting, Fits
  <2>3. Times(t.sets, s) = Times(t.mons, s)
    <3> HIDE DEF Slots
    <3> QED BY <1>5, <2>2
  <2>4. \A q \in Species :
          Times(t.sets, q) = Less(Times(t.mons, q), Cardinality(FirstOnes(t.placed + 1, q)))
    <3> TAKE q \in Species
    <3>1. Times(t.sets, q) = Less(Times(t.mons, q), Cardinality(FirstOnes(t.placed, q)))
      BY DEF Fitting
    <3> HIDE DEF FirstOnes
    <3>2. CASE q = s
      BY <3>2, <1>8, <1>11, <2>3 DEF Less
    <3>3. CASE q # s
      BY <3>1, <3>3, <1>7
    <3> QED BY <3>2, <3>3
  <2> QED BY <2>1, <2>4 DEF Fitting
<1>10. CASE F # {}
  <2> DEFINE f == Min(F)
  <2>1. f \in F
    <3>1. F \in SUBSET Nat
      BY <1>2 DEF Fits
    <3> QED BY <1>10, <3>1, SmallestIs
  <2>2. next.sets = [t.sets EXCEPT ![f] = s]
    BY <1>10 DEF Aligned
  <2> HIDE DEF f
  <2>3. f \in DOMAIN t.mons /\ t.sets[f] = Unknown /\ t.mons[f] = s
    BY <2>1 DEF Fits
  <2>4. /\ DOMAIN next.sets = DOMAIN t.mons /\ next.sets[f] = s
        /\ \A i \in DOMAIN t.mons \ {f} : next.sets[i] = t.sets[i]
    BY <1>2, <2>2, <2>3
  <2>5. \A i \in DOMAIN t.mons : next.sets[i] \in {Unknown, t.mons[i]}
    BY <2>3, <2>4 DEF Fitting
  <2>6. \A q \in Species \ {s} : Slots(next.sets, q) = Slots(t.sets, q)
    BY <1>2, <2>3, <2>4, ScrapeAssumption
  <2>7. Slots(next.sets, s) = Slots(t.sets, s) \union {f} /\ f \notin Slots(t.sets, s)
    BY <1>2, <1>3, <2>3, <2>4
  <2>8. Times(next.sets, s) = Times(t.sets, s) + 1
    <3>1. IsFiniteSet(Slots(t.sets, s)) /\ Times(t.sets, s) = Cardinality(Slots(t.sets, s))
      BY <1>5
    <3>2. Times(next.sets, s) = Cardinality(Slots(next.sets, s))
      BY <1>5
    <3> HIDE DEF Slots
    <3> QED BY <3>1, <3>2, <2>7, FS_AddElement
  <2>9. Times(t.sets, s) < Times(t.mons, s)
    <3>1. Slots(t.sets, s) \union {f} \subseteq Slots(t.mons, s)
      BY <1>3, <1>6, <2>3
    <3> HIDE DEF Slots
    <3>2. /\ IsFiniteSet(Slots(t.sets, s) \union {f})
          /\ Cardinality(Slots(t.sets, s) \union {f}) = Times(t.sets, s) + 1
      BY <1>5, <2>7, FS_AddElement
    <3>3. Cardinality(Slots(t.sets, s) \union {f}) <= Cardinality(Slots(t.mons, s))
      BY <1>5, <3>1, FS_Subset
    <3> QED BY <1>5, <3>2, <3>3
  <2>10. \A q \in Species :
          Times(next.sets, q) = Less(Times(t.mons, q), Cardinality(FirstOnes(t.placed + 1, q)))
    <3> TAKE q \in Species
    <3>1. Times(t.sets, q) = Less(Times(t.mons, q), Cardinality(FirstOnes(t.placed, q)))
      BY DEF Fitting
    <3> HIDE DEF FirstOnes
    <3>2. CASE q = s
      BY <3>2, <1>8, <1>11, <2>8, <2>9 DEF Less
    <3>3. CASE q # s
      BY <3>1, <3>3, <1>5, <1>7, <2>6
    <3> QED BY <3>2, <3>3
  <2> QED BY <2>4, <2>5, <2>10 DEF Fitting
<1> QED BY <1>9, <1>10

LEMMA ShownIn ==
  ASSUME NEW x \in Seq(Report), NEW y \in Seq(Report), NEW s, NEW n
  PROVE  /\ AllShown(s, n, x) => AllShown(s, n, x \o y)
         /\ AllShown(s, n, y) => AllShown(s, n, x \o y)
<1>1. /\ x \o y \in Seq(Report) /\ Len(x \o y) = Len(x) + Len(y)
      /\ DOMAIN x = 1 .. Len(x) /\ DOMAIN y = 1 .. Len(y) /\ Len(x) \in Nat /\ Len(y) \in Nat
  BY LenProperties
<1>2. DOMAIN (x \o y) = 1 .. Len(x) + Len(y)
  BY <1>1, LenProperties
<1>3. \A j \in DOMAIN x : j \in DOMAIN (x \o y) /\ (x \o y)[j] = x[j]
  BY <1>1, <1>2
<1>4. \A j \in DOMAIN y : Len(x) + j \in DOMAIN (x \o y) /\ (x \o y)[Len(x) + j] = y[j]
  BY <1>1, <1>2
<1> HIDE <1>1, <1>2
<1>5. ASSUME AllShown(s, n, x) PROVE AllShown(s, n, x \o y)
  BY <1>3, <1>5 DEF AllShown
<1>6. ASSUME AllShown(s, n, y) PROVE AllShown(s, n, x \o y)
  BY <1>4, <1>6 DEF AllShown
<1> QED BY <1>5, <1>6

LEMMA PageAdded ==
  ASSUME NEW s \in DOMAIN Sources, NEW p \in DOMAIN Sources[s], NEW seq \in Seq(Report),
         AllShown(s, p - 1, seq)
  PROVE  AllShown(s, p, seq \o Sources[s][p])
<1>1. Sources[s][p] \in Seq(Report) /\ p \in Nat \ {0}
  BY SourcePages
<1>2. AllShown(s, p - 1, seq \o Sources[s][p])
  BY <1>1, ShownIn
<1> DEFINE all == seq \o Sources[s][p]
<1>3. \A i \in DOMAIN Sources[s][p] : \E j \in DOMAIN all : all[j] = Sources[s][p][i]
  <2> TAKE i \in DOMAIN Sources[s][p]
  <2>1. /\ i \in 1 .. Len(Sources[s][p]) /\ Len(Sources[s][p]) \in Nat /\ Len(seq) \in Nat
    BY <1>1, LenProperties
  <2>2. all[Len(seq) + i] = Sources[s][p][i] /\ DOMAIN all = 1 .. Len(seq) + Len(Sources[s][p])
    BY <1>1, <2>1, LenProperties
  <2>3. Len(seq) + i \in DOMAIN all
    BY <2>1, <2>2
  <2> QED BY <2>2, <2>3
<1> HIDE DEF all
<1>4. AllShown(s, p - 1, all)
  BY <1>2 DEF all
<1>5. \A q \in 1 .. p : q \in 1 .. p - 1 \/ q = p
  BY <1>1
<1>6. AllShown(s, p, all)
  BY <1>3, <1>4, <1>5 DEF AllShown
<1> QED BY <1>6 DEF all

\* Reading another page takes none away from a source.
LEMMA PagesBefore ==
  ASSUME NEW u \in Urls, \A v \in Urls : v # u => files'[v] = files[v],
         NEW s \in DOMAIN Sources, \A p \in DOMAIN Sources[s] : ListingPage(s, p) # u,
         AllPages(s)'
  PROVE  AllPages(s)
BY PageUrls DEF AllPages

\* Teams that are not there yet, or no longer change, stay as they are.
LEMMA TeamsStay ==
  ASSUME SetsFitting, UNCHANGED <<scraped, unread>>,
         scrapePc \notin {"articles", "done"}, scrapePc' \notin {"articles", "done"}
  PROVE  SetsFitting'
<1>1. scraped' = scraped /\ unread' = unread
  OBVIOUS
<1>2. scrapePc' # "done"
  OBVIOUS
<1> QED BY <1>1, <1>2 DEF SetsFitting, Fitting, Times, First

LEMMA ScrapeBegins == ScrapeInit => ScrapeInv
<1> SUFFICES ASSUME ScrapeInit PROVE ScrapeInv
  OBVIOUS
<1>1. DOMAIN scraped = {} /\ scraped \in [{} -> FoundTeam]
  BY DEF ScrapeInit, NoneMerged
<1>2. /\ current \in DOMAIN Sources /\ page \in DOMAIN Sources[current]
      /\ raw = <<>> /\ shown = <<>> /\ Len(raw) = 0
  BY SourcePages DEF ScrapeInit
<1>3. ScrapeTypes
  <2>1. /\ scraped \in [DOMAIN scraped -> FoundTeam] /\ DOMAIN scraped \subseteq Addresses
        /\ unread \subseteq DOMAIN scraped
    BY <1>1 DEF ScrapeInit
  <2>2. merged \in 0 .. Len(raw) /\ raw \in Seq(Report) /\ shown \in Seq(Report)
    BY <1>2 DEF ScrapeInit
  <2> QED BY <1>2, <2>1, <2>2 DEF ScrapeInit, ScrapeTypes
<1>4. OnceRead
  BY DEF ScrapeInit, OnceRead
<1>5. ListedWhole /\ MergedWhole
  BY <1>2 DEF ScrapeInit, ListedWhole, MergedWhole
<1>6. SetsFitting
  BY <1>1 DEF ScrapeInit, SetsFitting
<1> QED BY <1>3, <1>4, <1>5, <1>6 DEF ScrapeInv

LEMMA AgeKeeps ==
  ASSUME ScrapeInv, AgePages \/ UNCHANGED scrapeVars
  PROVE  ScrapeInv'
<1>1. /\ files' = files /\ reads' = reads /\ scrapePc' = scrapePc /\ current' = current
      /\ page' = page /\ shown' = shown /\ named' = named /\ broken' = broken /\ raw' = raw
      /\ merged' = merged /\ scraped' = scraped /\ unread' = unread
  BY DEF AgePages, scrapeVars, scrape
<1>2. aged' \subseteq Urls
  BY DEF AgePages, scrapeVars, ScrapeInv, ScrapeTypes
<1>3. ScrapeTypes'
  BY <1>1, <1>2 DEF ScrapeInv, ScrapeTypes
<1>4. OnceRead' /\ Loose' = Loose
  BY <1>1 DEF ScrapeInv, OnceRead, Loose
<1>5. ListedWhole'
  BY <1>1 DEF ScrapeInv, ListedWhole, AllPages, IsThrough
<1>6. MergedWhole'
  BY <1>1 DEF ScrapeInv, MergedWhole
<1>7. SetsFitting'
  BY <1>1, <1>4 DEF ScrapeInv, SetsFitting
<1> QED BY <1>3, <1>4, <1>5, <1>6, <1>7 DEF ScrapeInv

LEMMA StartKeeps ==
  ASSUME ScrapeInv, StartScrape
  PROVE  ScrapeInv'
<1>1. DOMAIN scraped' = {} /\ scraped' \in [{} -> FoundTeam]
  BY DEF StartScrape, NoneMerged
<1>2. /\ current' \in DOMAIN Sources /\ page' \in DOMAIN Sources[current']
      /\ raw' = <<>> /\ shown' = <<>> /\ Len(raw') = 0
  BY SourcePages DEF StartScrape
<1>3. ScrapeTypes'
  <2>1. /\ scraped' \in [DOMAIN scraped' -> FoundTeam] /\ DOMAIN scraped' \subseteq Addresses
        /\ unread' \subseteq DOMAIN scraped'
    BY <1>1 DEF StartScrape
  <2>2. merged' \in 0 .. Len(raw') /\ raw' \in Seq(Report) /\ shown' \in Seq(Report)
    BY <1>2 DEF StartScrape
  <2> QED BY <1>2, <2>1, <2>2 DEF StartScrape, ScrapeInv, ScrapeTypes
<1>4. OnceRead'
  BY DEF StartScrape, ScrapeInv, OnceRead
<1>5. ListedWhole' /\ MergedWhole'
  BY <1>2 DEF StartScrape, ListedWhole, MergedWhole
<1>6. SetsFitting'
  BY <1>1 DEF StartScrape, SetsFitting
<1> QED BY <1>3, <1>4, <1>5, <1>6 DEF ScrapeInv

LEMMA TablesKeep ==
  ASSUME ScrapeInv, ReadTables
  PROVE  ScrapeInv'
<1>1. /\ files' \in [Urls -> {"none", "empty", "page"}] /\ aged' \subseteq Urls
      /\ reads' \in [Articles -> Nat] /\ OnceRead'
  BY PageUrls, FetchIs DEF ReadTables, ScrapeInv
<1>2. /\ current' = current /\ page' = page /\ shown' = shown /\ broken' = broken /\ raw' = raw
      /\ merged' = merged /\ scraped' = scraped /\ unread' = unread
      /\ scrapePc = "tables" /\ scrapePc' = "list" /\ named' \in BOOLEAN
  BY DEF ReadTables
<1>3. ScrapeTypes'
  BY <1>1, <1>2 DEF ScrapeInv, ScrapeTypes
<1>4. ListedWhole'
  <2>1. current = 1 /\ page = 1
    BY <1>2 DEF ScrapeInv, ListedWhole
  <2>2. \A s \in DOMAIN Sources : ~ IsThrough(s)'
    BY <1>2, <2>1, SourcePages DEF IsThrough
  <2>3. AllShown(current, page - 1, shown)'
    BY <1>2, <2>1 DEF AllShown
  <2> QED BY <1>2, <2>2, <2>3 DEF ListedWhole
<1>5. MergedWhole'
  BY <1>2 DEF ScrapeInv, MergedWhole
<1>6. SetsFitting'
  BY <1>2, TeamsStay DEF ScrapeInv
<1> QED BY <1>1, <1>3, <1>4, <1>5, <1>6 DEF ScrapeInv

\* What a source listed last is joined to what the others did.
LEMMA ThroughKeeps ==
  ASSUME ScrapeInv, scrapePc = "list",
         \E answer \in Answers : Fetch(ListingPage(current, page), answer),
         NEW reports \in Seq(Report), Through(reports),
         broken' \in {broken, broken \union {current}},
         UNCHANGED <<named, merged, scraped, unread>>,
         \A s \in DOMAIN Sources : s = current /\ named /\ s \notin broken' /\ AllPages(s)' =>
           AllShown(s, Len(Sources[s]), reports)
  PROVE  ScrapeInv'
<1> DEFINE u == ListingPage(current, page)
<1>1. /\ current \in DOMAIN Sources /\ page \in DOMAIN Sources[current] /\ u \in Urls
      /\ raw \in Seq(Report) /\ merged = 0 /\ current \in Nat
  BY PageUrls, SourcePages DEF ScrapeInv, ScrapeTypes, MergedWhole
<1>2. /\ files' \in [Urls -> {"none", "empty", "page"}] /\ aged' \subseteq Urls
      /\ reads' \in [Articles -> Nat] /\ OnceRead'
      /\ \A v \in Urls : v # u => files'[v] = files[v]
  BY <1>1, FetchIs DEF ScrapeInv
<1>3. /\ raw' = raw \o reports /\ shown' = <<>> /\ page' = 1
      /\ named' = named /\ merged' = merged /\ scraped' = scraped /\ unread' = unread
  BY DEF Through
<1>4. \/ current' = current + 1 /\ scrapePc' = "list" /\ current < Len(Sources)
      \/ current' = current /\ scrapePc' = "merge" /\ current = Len(Sources)
  BY <1>1, SourcePages DEF Through
<1>5. /\ current' \in DOMAIN Sources /\ page' \in DOMAIN Sources[current']
      /\ raw' \in Seq(Report) /\ broken' \subseteq DOMAIN Sources
  <2>1. current' \in DOMAIN Sources
    BY <1>1, <1>4, SourcePages
  <2>2. page' \in DOMAIN Sources[current']
    BY <2>1, <1>3, SourcePages
  <2> QED BY <1>1, <1>3, <2>1, <2>2 DEF ScrapeInv, ScrapeTypes
<1>6. ScrapeTypes'
  <2>1. Len(raw') \in Nat /\ shown' \in Seq(Report)
    BY <1>3, <1>5, LenProperties
  <2>2. merged' \in 0 .. Len(raw')
    BY <1>1, <1>3, <2>1
  <2> QED BY <1>2, <1>3, <1>4, <1>5, <2>1, <2>2 DEF ScrapeInv, ScrapeTypes
<1>7. ListedWhole'
  <2>1. ASSUME named, NEW s \in DOMAIN Sources \ broken', IsThrough(s)', AllPages(s)'
        PROVE  AllShown(s, Len(Sources[s]), raw')
    <3>1. s \in Nat /\ s <= current
      BY <1>1, <1>4, <2>1, SourcePages DEF IsThrough
    <3>2. CASE s = current
      <4>1. AllShown(s, Len(Sources[s]), reports)
        BY <2>1, <3>2
      <4> QED BY <1>1, <1>3, <4>1, ShownIn
    <3>3. CASE s < current
      <4>1. \A p \in DOMAIN Sources[s] : ListingPage(s, p) # u
        BY <1>1, <3>3, PageUrls
      <4>2. AllPages(s)
        <5> HIDE DEF u
        <5> QED BY <1>1, <1>2, <2>1, <4>1, PagesBefore
      <4>3. AllShown(s, Len(Sources[s]), raw)
        BY <2>1, <3>3, <4>2 DEF ScrapeInv, ListedWhole, IsThrough
      <4> QED BY <1>1, <1>3, <4>3, ShownIn
    <3> QED BY <1>1, <3>1, <3>2, <3>3
  <2>2. AllShown(current', page' - 1, shown')
    BY <1>3 DEF AllShown
  <2> QED BY <1>3, <1>4, <2>1, <2>2 DEF ListedWhole
<1>8. MergedWhole'
  BY <1>1, <1>3, <1>4 DEF MergedWhole
<1>9. SetsFitting'
  BY <1>3, <1>4, TeamsStay DEF ScrapeInv
<1> QED BY <1>2, <1>6, <1>7, <1>8, <1>9 DEF ScrapeInv

LEMMA ListingKeeps ==
  ASSUME ScrapeInv, ReadListing
  PROVE  ScrapeInv'
<1> DEFINE u == ListingPage(current, page)
           its == Sources[current]
<1>1. /\ current \in DOMAIN Sources /\ page \in DOMAIN its /\ u \in Urls
      /\ shown \in Seq(Report) /\ its[page] \in Seq(Report) /\ named \in BOOLEAN
      /\ page \in 1 .. Len(its) /\ Len(its) \in Nat
  BY PageUrls, SourcePages DEF ScrapeInv, ScrapeTypes
<1>2. /\ scrapePc = "list" /\ \E answer \in Answers : Fetch(u, answer)
      /\ UNCHANGED <<named, broken, merged, scraped, unread>>
  BY DEF ReadListing
<1>3. /\ Recognised(its[page]) \in Seq(Report)
      /\ shown \o Recognised(its[page]) \in Seq(Report)
  BY <1>1, RecognisedIs
<1>4. ASSUME named PROVE AllShown(current, page, shown \o Recognised(its[page]))
  <2>1. AllShown(current, page - 1, shown)
    BY <1>2, <1>4 DEF ScrapeInv, ListedWhole
  <2>2. Recognised(its[page]) = its[page]
    BY <1>1, <1>4, RecognisedIs
  <2> QED BY <1>1, <2>1, <2>2, PageAdded
<1>5. CASE files'[u] # "page"
  <2>1. Through(shown)
    BY <1>5 DEF ReadListing
  <2>2. \A s \in DOMAIN Sources : s = current => ~ AllPages(s)'
    BY <1>1, <1>5 DEF AllPages
  <2> QED BY <1>1, <1>2, <2>1, <2>2, ThroughKeeps
<1>6. CASE files'[u] = "page" /\ page = Len(its)
  <2>1. Through(shown \o Recognised(its[page]))
    BY <1>6 DEF ReadListing
  <2> QED BY <1>2, <1>3, <1>4, <1>6, <2>1, ThroughKeeps
<1>7. CASE files'[u] = "page" /\ page # Len(its)
  <2>1. /\ shown' = shown \o Recognised(its[page]) /\ page' = page + 1
        /\ scrapePc' = scrapePc /\ current' = current /\ raw' = raw /\ named' = named
        /\ broken' = broken /\ merged' = merged /\ scraped' = scraped /\ unread' = unread
    BY <1>7 DEF ReadListing
  <2>2. /\ files' \in [Urls -> {"none", "empty", "page"}] /\ aged' \subseteq Urls
        /\ reads' \in [Articles -> Nat] /\ OnceRead'
        /\ \A v \in Urls : v # u => files'[v] = files[v]
    BY <1>1, <1>2, FetchIs DEF ScrapeInv
  <2>3. page' \in DOMAIN Sources[current']
    BY <1>1, <1>7, <2>1, SourcePages
  <2>4. ScrapeTypes'
    BY <1>3, <2>1, <2>2, <2>3 DEF ScrapeInv, ScrapeTypes
  <2>5. ListedWhole'
    <3>1. ASSUME named, NEW s \in DOMAIN Sources \ broken, s < current, AllPages(s)'
          PROVE  AllShown(s, Len(Sources[s]), raw)
      <4>1. \A p \in DOMAIN Sources[s] : ListingPage(s, p) # u
        BY <1>1, <3>1, SourcePages, PageUrls
      <4>2. AllPages(s)
        <5> HIDE DEF u
        <5> QED BY <1>1, <2>2, <3>1, <4>1, PagesBefore
      <4> QED BY <1>2, <3>1, <4>2 DEF ScrapeInv, ListedWhole, IsThrough
    <3>2. page' - 1 = page
      BY <1>1, <2>1
    <3>3. named => AllShown(current', page' - 1, shown')
      BY <1>4, <2>1, <3>2
    <3> QED BY <1>2, <2>1, <3>1, <3>3 DEF ListedWhole, IsThrough
  <2>6. MergedWhole'
    BY <1>2, <2>1 DEF ScrapeInv, MergedWhole
  <2>7. SetsFitting'
    BY <1>2, <2>1, TeamsStay DEF ScrapeInv
  <2> QED BY <2>2, <2>4, <2>5, <2>6, <2>7 DEF ScrapeInv
<1> QED BY <1>5, <1>6, <1>7

LEMMA BreakKeeps ==
  ASSUME ScrapeInv, BreakListing
  PROVE  ScrapeInv'
<1>1. /\ scrapePc = "list" /\ Through(<<>>) /\ broken' = broken \union {current}
      /\ \E answer \in Answers : Fetch(ListingPage(current, page), answer)
      /\ UNCHANGED <<named, merged, scraped, unread>>
  BY DEF BreakListing
<1>2. <<>> \in Seq(Report) /\ current \in broken'
  BY <1>1
<1> QED BY <1>1, <1>2, ThroughKeeps

LEMMA MergeKeeps ==
  ASSUME ScrapeInv, Merge
  PROVE  ScrapeInv'
<1> DEFINE r == raw[merged + 1]
<1>1. /\ scrapePc = "merge" /\ merged < Len(raw) /\ merged \in Nat /\ Len(raw) \in Nat
      /\ raw \in Seq(Report) /\ r \in Report
  <2>1. raw \in Seq(Report) /\ Len(raw) \in Nat /\ merged \in 0 .. Len(raw)
    BY LenProperties DEF ScrapeInv, ScrapeTypes
  <2>2. merged + 1 \in 1 .. Len(raw) /\ scrapePc = "merge" /\ merged < Len(raw)
    BY <2>1 DEF Merge
  <2> QED BY <2>1, <2>2, ElementOfSeq
<1>2. /\ files' = files /\ aged' = aged /\ reads' = reads /\ scrapePc' = scrapePc
      /\ current' = current /\ page' = page /\ shown' = shown /\ named' = named
      /\ broken' = broken /\ raw' = raw /\ unread' = unread
      /\ scraped' = MergedWith(scraped, r) /\ merged' = merged + 1
  BY DEF Merge
<1>3. /\ scraped \in [DOMAIN scraped -> FoundTeam] /\ DOMAIN scraped \subseteq Addresses
      /\ \A k \in DOMAIN scraped : scraped[k].sets = <<>> /\ scraped[k].placed = 0
  BY <1>1 DEF ScrapeInv, ScrapeTypes, SetsFitting
<1>4. /\ DOMAIN scraped' = DOMAIN scraped \union {r.key}
      /\ scraped' \in [DOMAIN scraped' -> FoundTeam] /\ DOMAIN scraped' \subseteq Addresses
      /\ Richer(scraped'[r.key], r)
      /\ \A k \in DOMAIN scraped' : scraped'[k].sets = <<>> /\ scraped'[k].placed = 0
      /\ \A k \in DOMAIN scraped : \A q \in Report :
           Richer(scraped[k], q) => Richer(scraped'[k], q)
  <2> DEFINE new == MergedWith(scraped, r)
  <2> HIDE DEF r
  <2>1. /\ DOMAIN new = DOMAIN scraped \union {r.key}
        /\ new \in [DOMAIN scraped \union {r.key} -> FoundTeam]
        /\ r.key \in Addresses /\ Richer(new[r.key], r)
        /\ \A k \in DOMAIN scraped \union {r.key} : new[k].sets = <<>> /\ new[k].placed = 0
        /\ \A k \in DOMAIN scraped : \A q \in Report :
             Richer(scraped[k], q) => Richer(new[k], q)
    BY <1>1, <1>3, MergedWithIs
  <2>2. scraped' = new
    BY <1>2
  <2> HIDE DEF new
  <2> QED BY <1>3, <2>1, <2>2
<1>5. ScrapeTypes'
  BY <1>1, <1>2, <1>4 DEF ScrapeInv, ScrapeTypes
<1>6. OnceRead' /\ ListedWhole'
  BY <1>2 DEF ScrapeInv, OnceRead, ListedWhole, AllPages, IsThrough
<1>7. MergedWhole'
  <2>1. ASSUME NEW i \in 1 .. merged'
        PROVE  raw'[i].key \in DOMAIN scraped' /\ Richer(scraped'[raw'[i].key], raw'[i])
    <3>1. CASE i = merged + 1
      BY <1>2, <1>4, <3>1
    <3>2. CASE i # merged + 1
      <4>1. i \in 1 .. merged
        BY <1>1, <1>2, <3>2
      <4>2. raw[i] \in Report
        BY <1>1, <4>1, ElementOfSeq
      <4>3. raw[i].key \in DOMAIN scraped /\ Richer(scraped[raw[i].key], raw[i])
        BY <1>1, <4>1 DEF ScrapeInv, MergedWhole
      <4> QED BY <1>2, <1>4, <4>2, <4>3
    <3> QED BY <3>1, <3>2
  <2> QED BY <1>1, <1>2, <2>1 DEF MergedWhole
<1>8. SetsFitting'
  <2>1. \A k \in DOMAIN scraped' : Len(SetsOn[scraped'[k].article]) \in Nat
    BY <1>4, PageSets DEF FoundTeam
  <2> QED BY <1>1, <1>2, <1>4, <2>1 DEF SetsFitting
<1> QED BY <1>5, <1>6, <1>7, <1>8 DEF ScrapeInv

LEMMA KeepKeeps ==
  ASSUME ScrapeInv, KeepTeams
  PROVE  ScrapeInv'
<1>1. /\ scrapePc = "merge" /\ merged = Len(raw) /\ scrapePc' = "articles"
      /\ files' = files /\ aged' = aged /\ reads' = reads
      /\ current' = current /\ page' = page /\ shown' = shown /\ named' = named
      /\ broken' = broken /\ raw' = raw /\ merged' = merged
      /\ scraped' = Worthwhile(scraped) /\ unread' = DOMAIN scraped'
  BY DEF KeepTeams
<1>2. /\ \A k \in DOMAIN scraped' :
           /\ k \in DOMAIN scraped /\ scraped'[k] = scraped[k]
           /\ scraped[k] \in FoundTeam
      /\ \A k \in DOMAIN scraped : Known(scraped[k].mons) >= MinKnown => k \in DOMAIN scraped'
      /\ scraped' \in [DOMAIN scraped' -> FoundTeam] /\ DOMAIN scraped' \subseteq Addresses
  BY <1>1 DEF Worthwhile, ScrapeInv, ScrapeTypes
<1>3. ScrapeTypes'
  BY <1>1, <1>2 DEF ScrapeInv, ScrapeTypes
<1>4. OnceRead' /\ ListedWhole'
  BY <1>1 DEF ScrapeInv, OnceRead, ListedWhole, AllPages, IsThrough
<1>5. MergedWhole'
  <2>1. ASSUME NEW i \in 1 .. merged
        PROVE  /\ Known(raw[i].mons) >= MinKnown => raw[i].key \in DOMAIN scraped'
               /\ raw[i].key \in DOMAIN scraped' =>
                    Richer(scraped'[raw[i].key], raw[i])
    <3>1. raw[i].key \in DOMAIN scraped /\ Richer(scraped[raw[i].key], raw[i])
      BY <1>1 DEF ScrapeInv, MergedWhole
    <3>2. /\ Known(raw[i].mons) \in Nat /\ Known(scraped[raw[i].key].mons) \in Nat
          /\ MinKnown \in Nat
      <4>1. raw[i] \in Report
        BY <1>1, ElementOfSeq DEF ScrapeInv, ScrapeTypes
      <4>2. scraped[raw[i].key] \in FoundTeam
        BY <3>1 DEF ScrapeInv, ScrapeTypes
      <4> QED BY <4>1, <4>2, KnownIsNat, ScrapeAssumption DEF Report, FoundTeam
    <3> QED BY <1>2, <3>1, <3>2 DEF Richer
  <2> QED BY <1>1, <2>1 DEF MergedWhole
<1>6. SetsFitting'
  BY <1>1, <1>2 DEF ScrapeInv, SetsFitting
<1> QED BY <1>3, <1>4, <1>5, <1>6 DEF ScrapeInv

\* A team of which only the sets change is as rich as it was.
LEMMA SetsAside ==
  ASSUME ScrapeInv, UNCHANGED <<merged, raw>>, DOMAIN scraped' = DOMAIN scraped,
         scrapePc = "articles", scrapePc' = "articles",
         \A k \in DOMAIN scraped :
           scraped'[k].mons = scraped[k].mons /\ scraped'[k].rank = scraped[k].rank
  PROVE  MergedWhole'
<1>1. merged' = merged /\ raw' = raw
  OBVIOUS
<1> QED BY <1>1 DEF ScrapeInv, MergedWhole, Richer

LEMMA BlankFits ==
  ASSUME NEW t \in FoundTeam, t.placed = 0, t.sets = [i \in DOMAIN t.mons |-> Unknown]
  PROVE  Fitting(t)
<1>1. t.mons \in Mons /\ t.sets \in Mons
  BY DEF FoundTeam
<1>2. ASSUME NEW s \in Species
      PROVE  Times(t.sets, s) = Less(Times(t.mons, s), Cardinality(First(t.article, t.placed, s)))
  <2>1. {i \in DOMAIN t.sets : t.sets[i] = s} = {}
    BY ScrapeAssumption
  <2>2. First(t.article, t.placed, s) = {}
    BY DEF First
  <2>3. Cardinality({}) = 0
    BY FS_EmptySet
  <2>4. Times(t.sets, s) = 0
    BY <2>1, <2>3 DEF Times
  <2> QED BY <1>1, <2>2, <2>3, <2>4, TimesIsNat DEF Less
<1> QED BY <1>2 DEF Fitting

LEMMA ReadingKeeps ==
  ASSUME ScrapeInv, NEW k \in unread, ReadArticle(k)
  PROVE  ScrapeInv'
<1> DEFINE a == scraped[k].article
           u == ArticlePage(a)
           noSets == [i \in DOMAIN scraped[k].mons |-> Unknown]
<1>1. /\ scrapePc = "articles" /\ scrapePc' = "articles" /\ unread' = unread \ {k}
      /\ current' = current /\ page' = page /\ shown' = shown /\ named' = named
      /\ broken' = broken /\ raw' = raw /\ merged' = merged
      /\ \E answer \in Answers : Fetch(u, answer)
      /\ \/ scraped' = scraped
         \/ scraped' = [scraped EXCEPT ![k].sets = noSets]
  BY DEF ReadArticle
<1>2. /\ scraped \in [DOMAIN scraped -> FoundTeam] /\ DOMAIN scraped \subseteq Addresses
      /\ k \in DOMAIN scraped /\ scraped[k] \in FoundTeam /\ a \in DOMAIN SetsOn /\ u \in Urls
      /\ scraped[k].sets = <<>> /\ scraped[k].placed = 0
  BY PageUrls DEF ScrapeInv, ScrapeTypes, FoundTeam, SetsFitting
<1>3. /\ files' \in [Urls -> {"none", "empty", "page"}] /\ aged' \subseteq Urls
      /\ reads' \in [Articles -> Nat] /\ OnceRead'
      /\ \A v \in Urls : v # u => files'[v] = files[v]
  <2> HIDE DEF u
  <2> QED BY <1>1, <1>2, FetchIs DEF ScrapeInv
<1>4. noSets \in Mons
  <2>1. /\ DOMAIN scraped[k].mons = 1 .. Len(scraped[k].mons)
        /\ Len(scraped[k].mons) \in Nat
    BY <1>2, LenProperties DEF FoundTeam, Mons
  <2> QED BY <2>1 DEF Mons
<1>5. /\ DOMAIN scraped' = DOMAIN scraped
      /\ \A j \in DOMAIN scraped : j # k => scraped'[j] = scraped[j]
      /\ \/ scraped'[k] = scraped[k]
         \/ scraped'[k] = [scraped[k] EXCEPT !.sets = noSets]
  <2> HIDE DEF noSets
  <2> QED BY <1>1, <1>2
<1>6. /\ scraped'[k] \in FoundTeam
      /\ scraped'[k].mons = scraped[k].mons /\ scraped'[k].rank = scraped[k].rank
      /\ scraped'[k].article = a /\ scraped'[k].placed = 0
      /\ scraped'[k].sets = <<>> \/ scraped'[k].sets = noSets
  <2> HIDE DEF noSets
  <2> QED BY <1>2, <1>4, <1>5 DEF FoundTeam
<1>7. scraped' \in [DOMAIN scraped' -> FoundTeam]
  <2>1. \A j \in DOMAIN scraped' : scraped'[j] \in FoundTeam
    BY <1>2, <1>5, <1>6
  <2>2. scraped' = [j \in DOMAIN scraped' |-> scraped'[j]]
    BY <1>1, <1>2
  <2> QED BY <2>1, <2>2
<1>8. ScrapeTypes'
  BY <1>1, <1>2, <1>3, <1>5, <1>7 DEF ScrapeInv, ScrapeTypes
<1>9. ListedWhole'
  <2>1. ASSUME NEW s \in DOMAIN Sources, AllPages(s)' PROVE AllPages(s)
    <3>1. \A p \in DOMAIN Sources[s] : ListingPage(s, p) # u
      BY PageUrls
    <3> HIDE DEF u
    <3> QED BY <1>2, <1>3, <2>1, <3>1, PagesBefore
  <2> QED BY <1>1, <2>1 DEF ScrapeInv, ListedWhole, IsThrough
<1>10. MergedWhole'
  <2>1. \A j \in DOMAIN scraped :
          scraped'[j].mons = scraped[j].mons /\ scraped'[j].rank = scraped[j].rank
    BY <1>5, <1>6
  <2> QED BY <1>1, <1>5, <2>1, SetsAside
<1>11. SetsFitting'
  <2>1. scraped'[k].sets # <<>> => Fitting(scraped'[k])
    BY <1>6, BlankFits
  <2>2. Len(SetsOn[a]) \in Nat
    BY <1>2, PageSets
  <2> QED BY <1>1, <1>5, <1>6, <2>1, <2>2 DEF ScrapeInv, SetsFitting
<1> QED BY <1>3, <1>8, <1>9, <1>10, <1>11 DEF ScrapeInv

LEMMA AlignedIs ==
  ASSUME NEW mons \in Mons, NEW aligned \in Mons, DOMAIN aligned = DOMAIN mons,
         NEW s \in Species
  PROVE  Aligned(mons, aligned, s) \in Mons /\ DOMAIN Aligned(mons, aligned, s) = DOMAIN mons
<1>1. DOMAIN mons = 1 .. Len(mons) /\ Len(mons) \in Nat
  BY LenProperties DEF Mons
<1>2. aligned \in [1 .. Len(mons) -> Species \union {Unknown}]
  BY <1>1, ElementOfSeq, LenProperties DEF Mons
<1>3. Aligned(mons, aligned, s) \in [1 .. Len(mons) -> Species \union {Unknown}]
  BY <1>2 DEF Aligned
<1> QED BY <1>1, <1>3 DEF Mons

LEMMA AttachKeeps ==
  ASSUME ScrapeInv, NEW k \in Loose, AttachSet(k)
  PROVE  ScrapeInv'
<1> DEFINE t == scraped[k]
           s == SetsOn[t.article][t.placed + 1]
           new == scraped'[k]
<1>1. /\ scrapePc = "articles" /\ scrapePc' = "articles" /\ unread = {} /\ unread' = {}
      /\ files' = files /\ aged' = aged /\ reads' = reads
      /\ current' = current /\ page' = page /\ shown' = shown /\ named' = named
      /\ broken' = broken /\ raw' = raw /\ merged' = merged
      /\ scraped' = [scraped EXCEPT ![k].sets = Aligned(t.mons, t.sets, s),
                                    ![k].placed = t.placed + 1]
  BY DEF AttachSet
<1>2. /\ scraped \in [DOMAIN scraped -> FoundTeam] /\ DOMAIN scraped \subseteq Addresses
      /\ k \in DOMAIN scraped /\ t \in FoundTeam /\ t.article \in DOMAIN SetsOn
      /\ t.mons \in Mons /\ t.sets \in Mons /\ t.placed \in Nat
      /\ t.sets # <<>> /\ Fitting(t) /\ t.placed < Len(SetsOn[t.article])
  BY DEF ScrapeInv, ScrapeTypes, FoundTeam, SetsFitting, Loose
<1>3. s \in Species /\ Len(SetsOn[t.article]) \in Nat
  BY <1>2, PageSets
<1>4. Aligned(t.mons, t.sets, s) \in Mons /\ DOMAIN Aligned(t.mons, t.sets, s) = DOMAIN t.sets
  <2>1. DOMAIN t.sets = DOMAIN t.mons
    BY <1>2 DEF Fitting
  <2> HIDE DEF t, s
  <2> QED BY <1>2, <1>3, <2>1, AlignedIs
<1>5. /\ DOMAIN scraped' = DOMAIN scraped
      /\ \A j \in DOMAIN scraped : j # k => scraped'[j] = scraped[j]
      /\ new = [t EXCEPT !.sets = Aligned(t.mons, t.sets, s), !.placed = t.placed + 1]
  BY <1>1, <1>2
<1> HIDE DEF t, s, new
<1>6. /\ new \in FoundTeam /\ new.mons = t.mons /\ new.rank = t.rank /\ new.article = t.article
      /\ new.placed = t.placed + 1 /\ new.sets = Aligned(t.mons, t.sets, s)
  <2> DEFINE aligned == Aligned(t.mons, t.sets, s)
  <2>1. aligned \in Mons /\ t \in FoundTeam /\ t.placed \in Nat
        /\ new = [t EXCEPT !.sets = aligned, !.placed = t.placed + 1]
    BY <1>2, <1>4, <1>5
  <2> HIDE DEF aligned
  <2>2. new \in FoundTeam
    <3>1. t.placed + 1 \in Nat
      BY <2>1
    <3>2. new = [article |-> t.article, rank |-> t.rank, mons |-> t.mons, sets |-> aligned,
                 placed |-> t.placed + 1]
      BY <2>1 DEF FoundTeam
    <3> QED BY <2>1, <3>1, <3>2 DEF FoundTeam
  <2>3. /\ new.mons = t.mons /\ new.rank = t.rank /\ new.article = t.article
        /\ new.placed = t.placed + 1 /\ new.sets = aligned
    BY <2>1 DEF FoundTeam
  <2> QED BY <2>2, <2>3 DEF aligned
<1>7. scraped' \in [DOMAIN scraped' -> FoundTeam]
  <2>1. \A j \in DOMAIN scraped' : scraped'[j] \in FoundTeam
    BY <1>2, <1>5, <1>6 DEF new
  <2>2. scraped' = [j \in DOMAIN scraped' |-> scraped'[j]]
    BY <1>1, <1>2
  <2> QED BY <2>1, <2>2
<1>8. ScrapeTypes'
  BY <1>1, <1>2, <1>5, <1>7 DEF ScrapeInv, ScrapeTypes
<1>9. OnceRead' /\ ListedWhole'
  BY <1>1 DEF ScrapeInv, OnceRead, ListedWhole, AllPages, IsThrough
<1>10. MergedWhole'
  <2>1. \A j \in DOMAIN scraped :
          scraped'[j].mons = scraped[j].mons /\ scraped'[j].rank = scraped[j].rank
    BY <1>5, <1>6 DEF new, t
  <2> QED BY <1>1, <1>5, <2>1, SetsAside
<1>11. SetsFitting'
  <2>1. Fitting(new)
    BY <1>2, <1>6, AlignedFits DEF s
  <2>2. new.sets # <<>>
    <3>1. DOMAIN t.sets # {}
      <4>1. t.sets \in Seq(Species \union {Unknown}) /\ t.sets # <<>>
        BY <1>2 DEF Mons
      <4>2. Len(t.sets) \in Nat \ {0} /\ DOMAIN t.sets = 1 .. Len(t.sets)
        BY <4>1, EmptySeq, LenProperties
      <4> QED BY <4>2
    <3> QED BY <1>4, <1>6, <3>1
  <2>3. new.placed <= Len(SetsOn[new.article])
    BY <1>2, <1>3, <1>6
  <2> QED BY <1>1, <1>5, <2>1, <2>2, <2>3 DEF ScrapeInv, SetsFitting, new
<1> QED BY <1>8, <1>9, <1>10, <1>11 DEF ScrapeInv

LEMMA EndKeeps ==
  ASSUME ScrapeInv, EndScrape
  PROVE  ScrapeInv'
<1>1. /\ scrapePc = "articles" /\ scrapePc' = "done" /\ Loose = {}
      /\ files' = files /\ aged' = aged /\ reads' = reads /\ current' = current
      /\ page' = page /\ shown' = shown /\ named' = named /\ broken' = broken /\ raw' = raw
      /\ merged' = merged /\ scraped' = scraped /\ unread' = unread
  BY DEF EndScrape
<1>2. ScrapeTypes' /\ OnceRead' /\ MergedWhole' /\ Loose' = Loose
  BY <1>1 DEF ScrapeInv, ScrapeTypes, OnceRead, MergedWhole, Loose
<1>3. ListedWhole'
  BY <1>1 DEF ScrapeInv, ListedWhole, AllPages, IsThrough
<1>4. SetsFitting'
  BY <1>1, <1>2 DEF ScrapeInv, SetsFitting
<1> QED BY <1>2, <1>3, <1>4 DEF ScrapeInv

LEMMA ScrapeTold == ScrapeInv => ScrapeSound
<1> SUFFICES ASSUME ScrapeInv PROVE ScrapeSound
  OBVIOUS
<1>1. ScrapeTypes /\ ReadOnce
  BY DEF ScrapeInv, OnceRead, ReadOnce
<1>2. OthersSurvive
  <2> SUFFICES ASSUME scrapePc \in {"articles", "done"}, named,
                      NEW s \in DOMAIN Sources \ broken,
                      \A p \in DOMAIN Sources[s] : files[ListingPage(s, p)] = "page",
                      NEW r \in Shown(s)
               PROVE  r.key \in DOMAIN scraped
    BY DEF OthersSurvive
  <2>1. AllShown(s, Len(Sources[s]), raw) /\ merged = Len(raw)
    BY DEF ScrapeInv, ListedWhole, MergedWhole, IsThrough, AllPages
  <2>2. PICK p \in DOMAIN Sources[s] : r \in ToSet(Sources[s][p])
    BY DEF Shown
  <2>3. PICK i \in DOMAIN Sources[s][p] : r = Sources[s][p][i]
    BY <2>2 DEF ToSet
  <2>4. PICK j \in DOMAIN raw : raw[j] = r
    BY <2>1, <2>3, SourcePages DEF AllShown
  <2>5. j \in 1 .. merged
    BY <2>1, LenProperties DEF ScrapeInv, ScrapeTypes
  <2> QED BY <2>4, <2>5 DEF Shown, ScrapeInv, MergedWhole
<1>3. RichestKept
  <2> SUFFICES ASSUME scrapePc \in {"articles", "done"}, NEW i \in DOMAIN raw,
                      raw[i].key \in DOMAIN scraped
               PROVE  Richer(scraped[raw[i].key], raw[i])
    BY DEF RichestKept, Richer
  <2>1. merged = Len(raw) /\ i \in 1 .. merged
    BY LenProperties DEF ScrapeInv, ScrapeTypes, MergedWhole
  <2> QED BY <2>1 DEF ScrapeInv, MergedWhole
<1>4. SetsFit
  <2> SUFFICES ASSUME NEW k \in DOMAIN scraped, scraped[k].sets # <<>>
               PROVE  /\ \A i \in DOMAIN scraped[k].mons :
                           scraped[k].sets[i] \in {Unknown, scraped[k].mons[i]}
                      /\ scrapePc = "done" => \A s \in ToSet(SetsOn[scraped[k].article]) :
                           Times(scraped[k].sets, s) =
                             Less(Times(scraped[k].mons, s), Times(SetsOn[scraped[k].article], s))
    BY DEF SetsFit, Less
  <2> DEFINE t == scraped[k]
  <2>1. Fitting(t) /\ t \in FoundTeam /\ t.article \in DOMAIN SetsOn /\ t.placed \in Nat
    BY DEF ScrapeInv, ScrapeTypes, SetsFitting, FoundTeam
  <2>2. ASSUME scrapePc = "done", NEW s \in ToSet(SetsOn[t.article])
        PROVE  Times(t.sets, s) = Less(Times(t.mons, s), Times(SetsOn[t.article], s))
    <3>1. /\ Len(SetsOn[t.article]) \in Nat /\ s \in Species
          /\ DOMAIN SetsOn[t.article] = 1 .. Len(SetsOn[t.article])
      BY <2>1, PageSets DEF ToSet
    <3>2. t.placed = Len(SetsOn[t.article])
      BY <2>1, <2>2, <3>1 DEF ScrapeInv, SetsFitting, Loose
    <3>3. Cardinality(First(t.article, t.placed, s)) = Times(SetsOn[t.article], s)
      BY <3>1, <3>2 DEF First, Times
    <3> QED BY <2>1, <3>1, <3>3 DEF Fitting
  <2> QED BY <2>1, <2>2 DEF Fitting
<1> QED BY <1>1, <1>2, <1>3, <1>4 DEF ScrapeSound

\* Whatever fails, and however the sources overlap: each report of a source whose
\* pages are there and can be read is among the teams, a team is as rich as the best
\* report of it, no set of an article is lost while there is a slot for it or put
\* with another species, and no article is downloaded twice.
THEOREM ScrapeIsSound == ScrapeSpec => []ScrapeSound
<1>1. ScrapeInit => ScrapeInv
  BY ScrapeBegins
<1>2. ScrapeInv /\ [ScrapeNext]_scrapeVars => ScrapeInv'
  <2> SUFFICES ASSUME ScrapeInv, [ScrapeNext]_scrapeVars PROVE ScrapeInv'
    OBVIOUS
  <2>1. CASE AgePages \/ UNCHANGED scrapeVars
    BY <2>1, AgeKeeps
  <2>2. CASE StartScrape
    BY <2>2, StartKeeps
  <2>3. CASE ReadTables
    BY <2>3, TablesKeep
  <2>4. CASE ReadListing
    BY <2>4, ListingKeeps
  <2>5. CASE BreakListing
    BY <2>5, BreakKeeps
  <2>6. CASE Merge
    BY <2>6, MergeKeeps
  <2>7. CASE KeepTeams
    BY <2>7, KeepKeeps
  <2>8. CASE EndScrape
    BY <2>8, EndKeeps
  <2>9. CASE \E k \in unread : ReadArticle(k)
    BY <2>9, ReadingKeeps
  <2>10. CASE \E k \in Loose : AttachSet(k)
    BY <2>10, AttachKeeps
  <2> QED BY <2>1, <2>2, <2>3, <2>4, <2>5, <2>6, <2>7, <2>8, <2>9, <2>10 DEF ScrapeNext
<1>3. ScrapeInv => ScrapeSound
  BY ScrapeTold
<1> QED BY <1>1, <1>2, <1>3, PTL DEF ScrapeSpec
=============================================================================
