---------------------------- MODULE MirrorStore -----------------------------
(***************************************************************************)
(* What the data volume promises the MCP server: the file at db_path is    *)
(* replaced as a whole, by a complete build that passed validation, or by  *)
(* itself with another observed-team corpus.  It never goes away.          *)
(***************************************************************************)
EXTENDS Integers

CONSTANTS Today,        \* days of the wall clock
          DataFormats   \* the values db.DATA_FORMAT takes over code upgrades

\* A database file.  kind is "absent", "unreadable" (not SQLite) or "mirror";
\* the other fields are what a mirror holds:
\*   sound    roster and usage rows reach EXPECTED
\*   roster   the day its pokechamp pages were fetched
\*   corpus   build_teams holds teams of the tournament and ladder exports
\*   reports  full_teams holds teams of players' reports
\*   observed build_teams holds those report teams too (source = 'report')
\*   format   meta data_format, 0 when the key is missing
\*   built    meta generated_at, -1 when the key is missing
File == [kind : {"absent", "unreadable", "mirror"}, sound : BOOLEAN,
         roster : Today, corpus : BOOLEAN, reports : BOOLEAN,
         observed : BOOLEAN, format : DataFormats \cup {0},
         built : Today \cup {-1}]

Usable(f) == f.kind = "mirror" /\ f.sound
Complete(f) == Usable(f) /\ f.format # 0 /\ f.built # -1

VARIABLE mirror       \* the file at db_path

\* A full build is swapped in.
Install == /\ mirror' \in File
           /\ Complete(mirror')

\* Only the observed-team corpus of the mirror is replaced.
RefreshCorpus ==
  /\ mirror.kind = "mirror"
  /\ \E c \in BOOLEAN :
       mirror' = [mirror EXCEPT !.corpus = c, !.observed = FALSE]

Init == mirror \in File
Next == Install \/ RefreshCorpus
Spec == Init /\ [][Next]_mirror
=============================================================================
