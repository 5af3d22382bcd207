-------------------------- MODULE PullCycleProofs ---------------------------
(***************************************************************************)
(* Proofs about the data volume, for any calendar, any age limit, any      *)
(* sequence of code upgrades and any number of stops.                      *)
(***************************************************************************)
EXTENDS PullCycle, TLAPS

\* Where a stage has a temp file to work on.
Building == {"roster", "reference", "corpus", "reports", "stamp", "judge"}

\* A stamped file was stamped at most a page's life after its roster.
Dated(f) == f.built # -1 => f.built - f.roster <= PageTTL

\* The copy is the mirror itself, but for its corpus.
CopyOf(c, m) == \E some \in BOOLEAN : c = [m EXCEPT !.corpus = some, !.observed = FALSE]

\* The inductive invariant: besides the types, how far each file of a pull
\* has come is known from the stage the pull is in.
VolumeInv ==
  /\ TypeOK
  /\ Dated(disk["db"])
  /\ pc \in Building => disk["tmp"].kind = "mirror"
  /\ pc \in {"reference", "corpus", "reports", "stamp"} => day - disk["tmp"].roster <= PageTTL
  /\ pc = "judge" => Dated(disk["tmp"]) /\ disk["tmp"].format # 0 /\ disk["tmp"].built # -1
  /\ pc \in {"copy", "refill"} => disk["db"].kind # "absent"
  /\ pc = "refill" => disk["copy"] = disk["db"]
  /\ pc = "swapcopy" => disk["db"].kind = "mirror" /\ CopyOf(disk["copy"], disk["db"])

\* The files and days a pull can produce are well typed.
LEMMA FileTypes ==
  /\ Nothing \in Store!File /\ Absent \in Store!File
  /\ Broken \in Store!File /\ Legacy \in Store!File
  BY DaysAssumption DEF Nothing, Absent, Broken, Legacy, Store!File

\* The volume starts with whatever an earlier installation left.
LEMMA VolumeInit == Init => VolumeInv
<1> SUFFICES ASSUME Init PROVE VolumeInv
  OBVIOUS
<1>1. TypeOK
  <2>1. disk \in [{"db", "tmp", "copy"} -> Store!File]
    BY FileTypes DEF Init
  <2>2. stops \in 0 .. MaxStops /\ day \in Today
    BY DaysAssumption, LimitsAssumption DEF Init
  <2> QED BY <2>1, <2>2 DEF Init, TypeOK
<1>2. \A f \in {Absent, Broken, Legacy} : Dated(f)
  BY DEF Absent, Broken, Legacy, Nothing, Dated
<1>3. disk["db"] \in {Absent, Broken, Legacy} /\ pc = "down"
  BY DEF Init
<1> QED BY <1>1, <1>2, <1>3 DEF VolumeInv, Building

\* What every step leaves to the two theorems: the invariant, and a file at
\* db_path that is the old one, a complete build, or a refreshed copy.
Replaced(m, n) ==
  \/ n = m
  \/ n \in Store!File /\ Store!Complete(n)
  \/ m.kind = "mirror" /\ CopyOf(n, m)

\* A stage that writes a well-formed file to the temp path keeps the
\* invariant, and leaves the mirror alone.
LEMMA TmpStep ==
  ASSUME VolumeInv, NEW f \in Store!File, f.kind = "mirror",
         NEW next \in Building, Write("tmp", f, next),
         next \in {"reference", "corpus", "reports", "stamp"} => day - f.roster <= PageTTL,
         next = "judge" => Dated(f) /\ f.format # 0 /\ f.built # -1
  PROVE  VolumeInv' /\ Replaced(disk["db"], disk'["db"])
<1>1. /\ disk' = [disk EXCEPT !["tmp"] = f] /\ pc' = next
      /\ UNCHANGED <<env, failed, code, day, stops>>
  BY DEF Write
<1>2. disk \in [{"db", "tmp", "copy"} -> Store!File]
  BY DEF VolumeInv, TypeOK
<1>3. /\ disk' \in [{"db", "tmp", "copy"} -> Store!File]
      /\ disk'["tmp"] = f /\ disk'["db"] = disk["db"]
  BY <1>1, <1>2
<1>4. TypeOK'
  BY <1>1, <1>3 DEF VolumeInv, TypeOK, Building, Stages
<1> QED BY <1>1, <1>3, <1>4 DEF VolumeInv, Building, Replaced

\* Every step of the container keeps the invariant, and replaces the file at
\* db_path only as a whole.
LEMMA VolumeStep ==
  ASSUME VolumeInv, [Next]_vars
  PROVE  VolumeInv' /\ Replaced(disk["db"], disk'["db"])
<1> USE DEF VolumeInv, Building
<1>1. /\ disk \in [{"db", "tmp", "copy"} -> Store!File]
      /\ day \in Nat /\ PageTTL \in Nat
      /\ disk["db"] \in Store!File /\ disk["tmp"] \in Store!File /\ disk["copy"] \in Store!File
  BY DaysAssumption, LimitsAssumption DEF TypeOK
<1>2. CASE Boot
  BY <1>1, <1>2, FileTypes DEF Boot, TypeOK, Replaced
<1>3. CASE Check
  BY <1>1, <1>3 DEF Check, TypeOK, Replaced, Stages
<1>4. CASE CreateTmp
  BY <1>4, FileTypes, TmpStep DEF CreateTmp, Nothing
<1>5. ASSUME NEW sound \in BOOLEAN, FetchRoster(sound)
      PROVE  VolumeInv' /\ Replaced(disk["db"], disk'["db"])
  <2>1. PICK d \in Today :
           /\ day - d <= PageTTL
           /\ Write("tmp", [disk["tmp"] EXCEPT !.sound = sound, !.roster = d], "reference")
    BY <1>5 DEF FetchRoster, PageDays
  <2> DEFINE f == [disk["tmp"] EXCEPT !.sound = sound, !.roster = d]
  <2>2. pc = "roster"
    BY <1>5 DEF FetchRoster, PageDays
  <2>3. f \in Store!File /\ f.kind = "mirror" /\ f.roster = d
    BY <1>1, <2>2 DEF Store!File
  <2> HIDE DEF f
  <2> QED BY <2>1, <2>3, TmpStep DEF f
<1>6. CASE FetchReference
  BY <1>1, <1>6 DEF FetchReference, TypeOK, Replaced, Stages
<1>7. CASE IngestBuilds
  <2>1. PICK some \in BOOLEAN :
           Write("tmp", Ingested(disk["tmp"], some), IF env.reports THEN "reports" ELSE "stamp")
    BY <1>7 DEF IngestBuilds
  <2>2. pc = "corpus"
    BY <1>7 DEF IngestBuilds
  <2>3. /\ Ingested(disk["tmp"], some) \in Store!File
        /\ Ingested(disk["tmp"], some).kind = "mirror"
        /\ Ingested(disk["tmp"], some).roster = disk["tmp"].roster
    BY <1>1, <2>2 DEF Store!File, Ingested
  <2> QED BY <2>1, <2>2, <2>3, TmpStep
<1>8. CASE PullReports
  <2>1. PICK some \in BOOLEAN :
           Write("tmp", [disk["tmp"] EXCEPT !.reports = some, !.observed = some], "stamp")
    BY <1>8 DEF PullReports
  <2> DEFINE f == [disk["tmp"] EXCEPT !.reports = some, !.observed = some]
  <2>2. pc = "reports"
    BY <1>8 DEF PullReports
  <2>3. f \in Store!File /\ f.kind = "mirror" /\ f.roster = disk["tmp"].roster
    BY <1>1, <2>2 DEF Store!File
  <2> HIDE DEF f
  <2> QED BY <2>1, <2>2, <2>3, TmpStep DEF f
<1>9. CASE BuildRaises
  BY <1>1, <1>9 DEF BuildRaises, Raise, TypeOK, Replaced
<1>10. CASE Stamp
  <2> DEFINE f == [disk["tmp"] EXCEPT !.format = code, !.built = day]
  <2>1. pc = "stamp" /\ Write("tmp", f, "judge")
    BY <1>10 DEF Stamp
  <2>2. code \in DataFormats /\ day \in Today /\ code # 0 /\ day # -1
    BY FormatsAssumption, DaysAssumption DEF TypeOK
  <2>3. /\ f \in Store!File /\ f.kind = "mirror" /\ f.roster = disk["tmp"].roster
        /\ f.format = code /\ f.built = day
    BY <1>1, <2>1, <2>2 DEF Store!File
  <2> HIDE DEF f
  <2>4. Dated(f)
    BY <2>1, <2>3 DEF Dated
  <2> QED BY <2>1, <2>2, <2>3, <2>4, TmpStep
<1>11. CASE Judge
  BY <1>1, <1>11, FileTypes
     DEF Judge, TypeOK, Replaced, Stages, Store!Complete, Store!Usable
<1>12. CASE CopyMirror
  BY <1>1, <1>12 DEF CopyMirror, Write, TypeOK, Replaced, Stages
<1>13. CASE Refill
  <2>1. PICK some \in BOOLEAN : Write("copy", Ingested(disk["copy"], some), "swapcopy")
    BY <1>13 DEF Refill
  <2> DEFINE f == Ingested(disk["copy"], some)
  <2>2. pc = "refill" /\ disk["copy"] = disk["db"] /\ disk["db"].kind = "mirror"
    BY <1>13 DEF Refill
  <2>3. f \in Store!File /\ CopyOf(f, disk["db"])
    BY <1>1, <2>2 DEF Store!File, Ingested, CopyOf
  <2> HIDE DEF f
  <2>4. /\ disk' = [disk EXCEPT !["copy"] = f] /\ pc' = "swapcopy"
        /\ UNCHANGED <<env, failed, code, day, stops>>
    BY <2>1 DEF Write, f
  <2>5. /\ disk' \in [{"db", "tmp", "copy"} -> Store!File]
        /\ disk'["copy"] = f /\ disk'["db"] = disk["db"]
    BY <1>1, <2>3, <2>4
  <2>6. TypeOK'
    BY <2>4, <2>5 DEF TypeOK, Stages
  <2> QED BY <2>2, <2>3, <2>4, <2>5, <2>6 DEF Replaced
<1>14. CASE RefillRaises
  BY <1>1, <1>14, FileTypes DEF RefillRaises, Write, TypeOK, Replaced
<1>15. CASE SwapCopy
  <2>1. /\ disk' = [disk EXCEPT !["db"] = disk["copy"], !["copy"] = Absent]
        /\ pc = "swapcopy" /\ pc' = "decide"
        /\ UNCHANGED <<env, failed, code, day, stops>>
    BY <1>15 DEF SwapCopy
  <2>2. /\ disk' \in [{"db", "tmp", "copy"} -> Store!File]
        /\ disk'["db"] = disk["copy"]
    BY <1>1, <2>1, FileTypes
  <2>3. CopyOf(disk["copy"], disk["db"]) /\ disk["db"].kind = "mirror"
    BY <2>1
  <2>4. disk["copy"].built = disk["db"].built /\ disk["copy"].roster = disk["db"].roster
    BY <1>1, <2>3 DEF CopyOf, Store!File
  <2>5. TypeOK'
    BY <2>1, <2>2 DEF TypeOK
  <2>6. Dated(disk'["db"])
    BY <2>2, <2>4 DEF Dated
  <2> QED BY <2>1, <2>2, <2>3, <2>5, <2>6 DEF Replaced
<1>16. CASE Decide
  BY <1>1, <1>16 DEF Decide, TypeOK, Replaced
<1>17. CASE Stop
  BY <1>1, <1>17, LimitsAssumption DEF Stop, TypeOK, Replaced
<1>18. CASE Upgrade
  BY <1>1, <1>18 DEF Upgrade, TypeOK, Replaced
<1>19. CASE NextDay
  BY <1>1, <1>19 DEF NextDay, TypeOK, Replaced
<1>20. CASE UNCHANGED vars
  BY <1>1, <1>20 DEF vars, TypeOK, Replaced, CopyOf
<1> QED BY <1>2, <1>3, <1>4, <1>5, <1>6, <1>7, <1>8, <1>9, <1>10, <1>11, <1>12, <1>13,
           <1>14, <1>15, <1>16, <1>17, <1>18, <1>19, <1>20 DEF Next, Pull

\* The container's state is well typed, whatever the bounds.
THEOREM PullTypeOK == Spec => []TypeOK
<1>1. VolumeInv /\ [Next]_vars => VolumeInv'
  BY VolumeStep
<1>2. VolumeInv => TypeOK
  BY DEF VolumeInv
<1> QED BY <1>1, <1>2, VolumeInit, PTL DEF Spec

\* Once the volume has a usable mirror it always has one: no stage that
\* raises, thin upstream, refresh or stop costs the data already there.
THEOREM PullMirrorKept == Spec => MirrorKept
<1>1. VolumeInv /\ [Next]_vars => VolumeInv'
  BY VolumeStep
<1>2. VolumeInv /\ [Next]_vars =>
        [Store!Usable(disk["db"]) => Store!Usable(disk'["db"])]_vars
  BY ZenonT(60), VolumeStep DEF Replaced, CopyOf, Store!Usable, Store!Complete, VolumeInv, TypeOK, Store!File
<1> QED BY <1>1, <1>2, VolumeInit, PTL DEF Spec, MirrorKept

\* What the freshness check accepts was pulled within the age limit and the
\* life of a cached page.
THEOREM PullFreshIsRecent == Spec => []FreshIsRecent
<1>1. VolumeInv /\ [Next]_vars => VolumeInv'
  BY VolumeStep
<1>2. VolumeInv => FreshIsRecent
  <2> SUFFICES ASSUME VolumeInv, Freshness(disk["db"]) = 0, MaxAge > 0,
                      disk["db"].built # -1
               PROVE  day - disk["db"].roster <= MaxAge + PageTTL
    BY DEF FreshIsRecent
  <2>1. /\ day \in Nat /\ MaxAge \in Nat /\ PageTTL \in Nat
        /\ disk["db"] \in Store!File
    BY DaysAssumption, LimitsAssumption DEF VolumeInv, TypeOK
  <2>2. disk["db"].built \in Nat /\ disk["db"].roster \in Nat
    BY <2>1, DaysAssumption DEF Store!File
  <2>3. ~(day - disk["db"].built > MaxAge)
    BY DEF Freshness
  <2>4. disk["db"].built - disk["db"].roster <= PageTTL
    BY DEF VolumeInv, Dated
  <2> QED BY <2>1, <2>2, <2>3, <2>4
<1> QED BY <1>1, <1>2, VolumeInit, PTL DEF Spec

\* The volume implements the store the server takes it for: every step
\* installs a complete build, refreshes the corpus, or changes nothing.
THEOREM PullImplementsStore == Spec => IsMirrorStore
<1>1. VolumeInv /\ [Next]_vars => VolumeInv'
  BY VolumeStep
<1>2. Init => Store!Init
  BY FileTypes DEF Init, Store!Init
<1>3. VolumeInv /\ [Next]_vars => [Store!Next]_(disk["db"])
  <2> SUFFICES ASSUME VolumeInv, [Next]_vars PROVE [Store!Next]_(disk["db"])
    OBVIOUS
  <2>1. Replaced(disk["db"], disk'["db"])
    BY VolumeStep
  <2>2. CASE disk'["db"] \in Store!File /\ Store!Complete(disk'["db"])
    BY <2>2 DEF Store!Next, Store!Install
  <2>3. CASE disk["db"].kind = "mirror" /\ CopyOf(disk'["db"], disk["db"])
    BY <2>3 DEF Store!Next, Store!RefreshCorpus, CopyOf
  <2> QED BY <2>1, <2>2, <2>3 DEF Replaced
<1> QED BY <1>1, <1>2, <1>3, VolumeInit, PTL DEF Spec, IsMirrorStore, Store!Spec

\* What this start has come to: a build about to be judged is of this day and
\* this code, and a pull that is over, or only refreshes, failed or left fresh
\* data.
StartInv ==
  /\ pc = "judge" => disk["tmp"].format = code /\ disk["tmp"].built = day
  /\ pc \in {"copy", "refill", "swapcopy"} => failed
  /\ pc = "decide" => failed \/ Freshness(disk["db"]) = 0

LEMMA StartStep ==
  ASSUME VolumeInv, StartInv, [Next]_vars
  PROVE  /\ StartInv'
         /\ pc # "serving" /\ pc' = "serving" => Freshness(disk["db"]) = 0 \/ failed
<1> USE DEF StartInv
<1>1. /\ disk \in [{"db", "tmp", "copy"} -> Store!File]
      /\ day \in Nat /\ code \in Nat \ {0} /\ MaxAge \in Nat
  BY DaysAssumption, FormatsAssumption, LimitsAssumption DEF VolumeInv, TypeOK
<1>2. CASE Check
  BY <1>2 DEF Check, NeedsPull
<1>3. CASE Stamp
  <2>1. /\ disk' = [disk EXCEPT !["tmp"] = [disk["tmp"] EXCEPT !.format = code, !.built = day]]
        /\ pc' = "judge" /\ code' = code /\ day' = day
    BY <1>3 DEF Stamp, Write
  <2>2. disk["tmp"] \in Store!File
    BY <1>1
  <2>3. disk'["tmp"].format = code /\ disk'["tmp"].built = day
    BY <1>1, <2>1, <2>2 DEF Store!File
  <2> QED BY <2>1, <2>3
<1>4. CASE Judge
  <2>1. CASE disk["tmp"].sound
    <3>1. /\ pc = "judge" /\ pc' = "decide" /\ code' = code /\ day' = day
          /\ disk'["db"] = disk["tmp"]
      BY <1>1, <1>4, <2>1 DEF Judge
    <3>2. /\ disk["tmp"].kind = "mirror"
          /\ disk["tmp"].format = code /\ disk["tmp"].built = day
      BY <3>1 DEF VolumeInv, Building
    <3>3. (Freshness(disk["db"]) = 0)'
      BY <1>1, <3>1, <3>2 DEF Freshness
    <3> QED BY <3>1, <3>3
  <2>2. CASE ~disk["tmp"].sound
    BY <1>4, <2>2 DEF Judge
  <2> QED BY <2>1, <2>2
<1>5. CASE Decide
  BY <1>5 DEF Decide
<1>6. ASSUME NEW sound \in BOOLEAN, FetchRoster(sound)
      PROVE  pc' = "reference"
  BY <1>6 DEF FetchRoster, Write
<1>7. CASE Boot \/ CreateTmp \/ FetchReference \/ IngestBuilds \/ PullReports
  BY <1>7 DEF Boot, CreateTmp, FetchReference, IngestBuilds, PullReports, Write
<1>8. CASE BuildRaises
  BY <1>8 DEF BuildRaises, Raise
<1>9. CASE CopyMirror \/ Refill \/ RefillRaises
  BY <1>9 DEF CopyMirror, Refill, RefillRaises, Write
<1>10. CASE SwapCopy
  BY <1>10 DEF SwapCopy
<1>11. CASE Stop \/ Upgrade \/ NextDay
  BY <1>11 DEF Stop, Upgrade, NextDay
<1>12. CASE UNCHANGED vars
  BY <1>12 DEF vars, Freshness
<1> QED BY <1>2, <1>3, <1>4, <1>5, <1>6, <1>7, <1>8, <1>9, <1>10, <1>11, <1>12 DEF Next, Pull

\* A server that starts on data the freshness check rejects does so because the
\* pull of this very start failed, whatever was stopped or upgraded before.
THEOREM PullStaleOnlyAfterFailure == Spec => StaleOnlyAfterFailure
<1>1. Init => StartInv
  BY DEF Init, StartInv
<1>2. VolumeInv /\ StartInv /\ [Next]_vars => VolumeInv' /\ StartInv'
  BY VolumeStep, StartStep
<1>3. VolumeInv /\ StartInv /\ [Next]_vars =>
        [pc # "serving" /\ pc' = "serving" => Freshness(disk["db"]) = 0 \/ failed]_vars
  BY StartStep
<1> QED BY <1>1, <1>2, <1>3, VolumeInit, PTL DEF Spec, StaleOnlyAfterFailure
=============================================================================
