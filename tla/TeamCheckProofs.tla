-------------------------- MODULE TeamCheckProofs ---------------------------
(***************************************************************************)
(* The verdicts on a team, for any roster, any rules of sizes and points,  *)
(* and any teams, in whatever order their members are given; the answers   *)
(* of the Speed tool, for any base, modifiers and natures; and the form    *)
(* the usage tools show, for any Mega forms and any usage of their stones. *)
(***************************************************************************)
EXTENDS TeamCheck, SpeedThreshold, PlayedForms, SequenceTheorems, WellFoundedInduction, TLAPS

\* The slug the tools resolve a member of a team to.
Slug(t, i) == TryResolve(t[i].species)

\* The members the loop has passed and found in the roster.
Passed == {i \in 1 .. at - 1 : Slug(team, i) # Unset}

\* What the format asks of a member by itself...
Sound(t, i) ==
  /\ MoveSet(t[i]) \subseteq Dex[Slug(t, i)].learns
  /\ t[i].nature \in DOMAIN Natures \cup {Unset}
  /\ ValidSpread(NormalizeSpread(t[i].spread))

\* ... and beside another one.
Apart(t, i, j) ==
  /\ Dex[Slug(t, i)].base # Dex[Slug(t, j)].base
  /\ HeldItem(t[i]) \cap HeldItem(t[j]) = {}

\* What round i of the loop finds, where Before are the members it remembers.
Clean(t, i, Before) ==
  Slug(t, i) # Unset /\ Sound(t, i) /\ \A j \in Before : Apart(t, i, j)

\* How far the loop has come, and what it has recorded on the way.
LoopInv ==
  /\ TypeOK
  /\ tool = "done" => at = Len(team) + 1
  /\ base_species_seen = {Dex[Slug(team, i)].base : i \in Passed}
  /\ items_seen = UNION {HeldItem(team[i]) : i \in Passed}
  /\ tool # "none" =>
       (violations = {} <=>
          /\ Len(team) \in 1 .. TeamSize
          /\ \A i \in 1 .. at - 1 : Clean(team, i, Passed \cap 1 .. i - 1))
  /\ \A i \in Passed : Abilities(team[i]) # {} /\ ~AbilityOk(team[i], Slug(team, i)) =>
       [member |-> i, rule |-> "ability"] \in warnings

\* What the other tools keep of the team, which stays what it was.
KeptInv ==
  /\ tool = "none" => forms = <<>> /\ paste = <<>>
  /\ forms # <<>> => forms = [i \in DOMAIN team |-> MemberForm(team[i])]
  /\ paste # <<>> /\ ~paste.force =>
       /\ paste.team = [i \in DOMAIN team |-> Rendered(team[i])]
       /\ \A i \in DOMAIN team : ~Missing(team[i])

Members == [species : {Unset} \cup STRING, item : {Unset} \cup STRING,
            ability : {Unset} \cup STRING, moves : Seq(STRING),
            nature : {Unset} \cup STRING, spread : Seq([key : STRING, sp : Int])]

LEMMA TeamsAreLists ==
  ASSUME NEW t \in Teams \cup {<<>>}
  PROVE  t \in Seq(Members) /\ Len(t) \in Nat /\ DOMAIN t = 1 .. Len(t)
<1>1. t \in Seq(Members)
  <2>1. CASE t \in Teams
    BY <2>1, TeamsAssumption DEF Members
  <2>2. CASE t = <<>>
    BY <2>2
  <2> QED BY <2>1, <2>2
<1> QED BY <1>1

LEMMA TeamType ==
  ASSUME TypeOK
  PROVE  /\ team \in Seq(Members) /\ Len(team) \in Nat /\ DOMAIN team = 1 .. Len(team)
         /\ at \in Nat \ {0} /\ at <= Len(team) + 1
  BY TeamsAreLists DEF TypeOK

\* A name the tools resolve is one of the roster.
LEMMA ResolvedInDex ==
  ASSUME NEW name, TryResolve(name) # Unset PROVE TryResolve(name) \in DOMAIN Dex
  BY NamesAssumption DEF TryResolve, ResolveSlug

\* The two ways the code adds up points agree on a spread that is valid.
LEMMA SpentIsTotal ==
  ASSUME NEW sp, ValidSpread(sp)
  PROVE  MapThenSumSet(LAMBDA s : sp[s], DOMAIN sp) = TotalPoints(sp)
<1> DEFINE D == DOMAIN sp
           x(s) == CHOOSE e \in s : TRUE
           FA(f) == [s \in SUBSET D |->
             IF s = {} THEN 0
             ELSE (IF sp[x(s)] > 0 THEN sp[x(s)] ELSE 0) + f[s \ {x(s)}]]
           FB(f) == [s \in SUBSET D |-> IF s = {} THEN 0 ELSE sp[x(s)] + f[s \ {x(s)}]]
           A == CHOOSE f : f = FA(f)
           B == CHOOSE f : f = FB(f)
<1>1. D \subseteq AllStats /\ \A s \in D : sp[s] \in 0 .. MaxPerStat
  BY DEF ValidSpread
<1>2. D \cap AllStats = D
  BY <1>1
<1>3. TotalPoints(sp) = A[D]
  BY <1>2 DEF TotalPoints, MapThenSumSet, MapThenFoldSet
<1>4. MapThenSumSet(LAMBDA s : sp[s], D) = B[D]
  BY DEF MapThenSumSet, MapThenFoldSet
<1>5. ASSUME NEW f PROVE FA(f) = FB(f)
  <2>1. ASSUME NEW s \in SUBSET D, s # {}
        PROVE  (IF sp[x(s)] > 0 THEN sp[x(s)] ELSE 0) = sp[x(s)]
    <3>1. x(s) \in s
      BY <2>1
    <3>2. sp[x(s)] \in 0 .. MaxPerStat
      BY <1>1, <3>1
    <3> HIDE DEF x
    <3> QED BY <3>2, CapAssumption
  <2> HIDE DEF x
  <2> QED BY <2>1
<1> HIDE DEF FA, FB
<1>6. A = B
  BY <1>5, Zenon
<1> QED BY <1>3, <1>4, <1>6

-----------------------------------------------------------------------------
\* A round finds no violation exactly if the member is clean beside those that
\* are remembered.
LEMMA RoundIsClean ==
  ASSUME LoopInv, at <= Len(team), Slug(team, at) # Unset
  PROVE  BrokenBy(team[at], Slug(team, at)) = {} <=> Clean(team, at, Passed)
<1> DEFINE m == team[at]
           slug == Slug(team, at)
           sp == NormalizeSpread(m.spread)
<1>1. BrokenBy(m, slug) = {} <=>
        /\ Dex[slug].base \notin base_species_seen
        /\ HeldItem(m) \cap items_seen = {}
        /\ MoveSet(m) \subseteq Dex[slug].learns
        /\ m.nature \in DOMAIN Natures \cup {Unset}
        /\ ValidSpread(sp) /\ ~LooksLikeEvs(sp)
  <2> DEFINE broken(rule) ==
        CASE rule = "species_clause" -> Dex[slug].base \in base_species_seen
          [] rule = "item_clause" -> HeldItem(m) \cap items_seen # {}
          [] rule = "move" -> ~(MoveSet(m) \subseteq Dex[slug].learns)
          [] rule = "nature" -> m.nature \notin DOMAIN Natures \cup {Unset}
          [] rule = "stat_points" -> ~ValidSpread(sp) \/ LooksLikeEvs(sp)
  <2>1. BrokenBy(m, slug) = {rule \in {"species_clause", "item_clause", "move", "nature", "stat_points"} : broken(rule)}
    BY DEF BrokenBy
  <2>2. /\ broken("species_clause") <=> Dex[slug].base \in base_species_seen
        /\ broken("item_clause") <=> HeldItem(m) \cap items_seen # {}
        /\ broken("move") <=> ~(MoveSet(m) \subseteq Dex[slug].learns)
        /\ broken("nature") <=> m.nature \notin DOMAIN Natures \cup {Unset}
        /\ broken("stat_points") <=> ~ValidSpread(sp) \/ LooksLikeEvs(sp)
    OBVIOUS
  <2> HIDE DEF broken
  <2> QED BY <2>1, <2>2
<1>2. ValidSpread(sp) => ~LooksLikeEvs(sp)
  <2> HIDE DEF sp
  <2> QED BY CapAssumption DEF ValidSpread, LooksLikeEvs
<1>3. Dex[slug].base \notin base_species_seen <=>
        \A j \in Passed : Dex[slug].base # Dex[Slug(team, j)].base
  BY DEF LoopInv
<1>4. HeldItem(m) \cap items_seen = {} <=>
        \A j \in Passed : HeldItem(m) \cap HeldItem(team[j]) = {}
  <2>1. items_seen = UNION {HeldItem(team[i]) : i \in Passed}
    BY DEF LoopInv
  <2> QED BY <2>1
<1> QED BY <1>1, <1>2, <1>3, <1>4 DEF Clean, Sound, Apart

LEMMA LoopInit == Init => LoopInv /\ KeptInv
<1> SUFFICES ASSUME Init PROVE LoopInv /\ KeptInv
  OBVIOUS
<1>1. at = 1 /\ team = <<>> /\ Len(team) = 0 /\ 1 .. at - 1 = {}
  BY DEF Init
<1>2. Passed = {}
  BY <1>1 DEF Passed
<1> QED BY <1>1, <1>2 DEF Init, LoopInv, KeptInv, TypeOK

-----------------------------------------------------------------------------
\* A call starts the loop over, on any team the first time.
LEMMA BeginStep ==
  ASSUME LoopInv, KeptInv, Begin PROVE LoopInv' /\ KeptInv'
<1>1. /\ tool \in {"none", "done"} /\ tool' \in {"validate", "analyze"}
      /\ team' \in Teams \cup {<<>>} /\ (tool = "done" => team' = team)
      /\ at' = 1 /\ base_species_seen' = {} /\ items_seen' = {} /\ warnings' = {}
      /\ violations' = IF team' = <<>> \/ Len(team') > TeamSize
                       THEN {[member |-> 0, rule |-> "team_size"]} ELSE {}
      /\ forms' = forms /\ paste' = paste
  BY DEF Begin, LoopInv, TypeOK
<1>2. team' \in Seq(Members) /\ Len(team') \in Nat
  BY <1>1, TeamsAreLists
<1>3. Passed' = {} /\ 1 .. at' - 1 = {}
  BY <1>1 DEF Passed
<1>4. TypeOK'
  <2>1. at' \in 1 .. Len(team') + 1
    BY <1>1, <1>2
  <2>2. \A r \in violations' \cup warnings' : r.member \in 0 .. at' - 1
    BY <1>1
  <2>3. /\ base_species_seen' \subseteq {Dex[s].base : s \in DOMAIN Dex}
        /\ items_seen' \subseteq UNION {HeldItem(team'[i]) : i \in 1 .. at' - 1}
    BY <1>1
  <2>4. tool' \in {"none", "validate", "analyze", "done"} /\ team' \in Teams \cup {<<>>}
    BY <1>1
  <2> QED BY <2>1, <2>2, <2>3, <2>4 DEF TypeOK
<1>5. violations' = {} <=> Len(team') \in 1 .. TeamSize
  <2>1. team' = <<>> <=> Len(team') = 0
    BY <1>2, EmptySeq
  <2>2. violations' = {} <=> ~(team' = <<>> \/ Len(team') > TeamSize)
    BY <1>1
  <2> QED BY <1>2, <2>1, <2>2, SizesAssumption
<1>6. LoopInv'
  BY <1>1, <1>3, <1>4, <1>5 DEF LoopInv
<1>7. KeptInv'
  BY <1>1 DEF KeptInv
<1> QED BY <1>6, <1>7

\* A round of the loop records what it finds, and goes on.
LEMMA RoundStep ==
  ASSUME LoopInv, KeptInv, CheckMember PROVE LoopInv' /\ KeptInv'
<1> DEFINE m == team[at]
           slug == TryResolve(m.species)
           On(rules) == {[member |-> at, rule |-> r] : r \in rules}
<1>1. /\ tool \in {"validate", "analyze"} /\ at <= Len(team) /\ at' = at + 1
      /\ UNCHANGED <<team, tool, gaps, forms, paste>>
      /\ IF slug = Unset
         THEN /\ violations' = violations \cup On({"roster"})
              /\ UNCHANGED <<warnings, seen>>
         ELSE /\ violations' = violations \cup On(BrokenBy(m, slug))
              /\ warnings' = warnings \cup On(Doubted(m, slug))
              /\ base_species_seen' = base_species_seen \cup {Dex[slug].base}
              /\ items_seen' = items_seen \cup HeldItem(m)
  BY DEF CheckMember
<1>2. /\ team \in Seq(Members) /\ Len(team) \in Nat /\ DOMAIN team = 1 .. Len(team)
      /\ at \in Nat \ {0}
  BY TeamType DEF LoopInv
<1>3. 1 .. at' - 1 = (1 .. at - 1) \cup {at} /\ at \in 1 .. at' - 1
  BY <1>1, <1>2
<1>4. team' = team
  BY <1>1
<1>6. slug = Slug(team, at)
  BY DEF Slug
<1>7. (\A i \in 1 .. at' - 1 : Clean(team, i, Passed' \cap 1 .. i - 1))
        <=> /\ \A i \in 1 .. at - 1 : Clean(team, i, Passed \cap 1 .. i - 1)
            /\ Clean(team, at, Passed)
  <2>1. \A i \in 1 .. at : Passed' \cap 1 .. i - 1 = Passed \cap 1 .. i - 1
    BY <1>2, <1>3, <1>4 DEF Passed
  <2>2. Passed \cap 1 .. at - 1 = Passed
    BY DEF Passed
  <2>3. \A i \in 1 .. at' - 1 :
          Clean(team, i, Passed' \cap 1 .. i - 1) <=> Clean(team, i, Passed \cap 1 .. i - 1)
    <3>1. at' - 1 = at
      BY <1>1, <1>2
    <3> QED BY <2>1, <3>1
  <2> QED BY <1>3, <2>2, <2>3
<1>8. CASE slug = Unset
  <2>1. /\ violations' = violations \cup {[member |-> at, rule |-> "roster"]}
        /\ UNCHANGED <<warnings, base_species_seen, items_seen>>
    BY <1>1, <1>8 DEF seen
  <2>2. Passed' = Passed
    BY <1>3, <1>4, <1>6, <1>8 DEF Passed
  <2>3. ~Clean(team, at, Passed) /\ violations' # {}
    <3>1. Slug(team, at) = Unset
      BY <1>6, <1>8
    <3>2. ~Clean(team, at, Passed)
      BY <3>1 DEF Clean
    <3>3. [member |-> at, rule |-> "roster"] \in violations'
      BY <2>1
    <3> QED BY <3>2, <3>3
  <2>4. TypeOK'
    <3>1. \A r \in violations' \cup warnings' : r.member \in 0 .. at' - 1
      <4>1. \A r \in violations \cup warnings : r.member \in 0 .. at - 1
        BY DEF LoopInv, TypeOK
      <4>2. \A r \in violations' \cup warnings' : r \in violations \cup warnings \/ r.member = at
        BY <2>1
      <4>3. at \in Int /\ at < at' /\ at' = at + 1
        BY <1>1, <1>2
      <4> QED BY <1>2, <4>1, <4>2, <4>3
    <3>2. items_seen' \subseteq UNION {HeldItem(team[i]) : i \in 1 .. at' - 1}
      BY <1>3, <2>1 DEF LoopInv, TypeOK
    <3>3. at' \in 1 .. Len(team) + 1
      BY <1>1, <1>2
    <3>4. /\ tool' \in {"none", "validate", "analyze", "done"} /\ team' \in Teams \cup {<<>>}
          /\ base_species_seen' \subseteq {Dex[s].base : s \in DOMAIN Dex}
      BY <1>1, <2>1 DEF LoopInv, TypeOK
    <3> QED BY <1>1, <3>1, <3>2, <3>3, <3>4 DEF TypeOK
  <2>5. LoopInv'
    <3>1. tool' # "none" /\ tool' # "done" /\ team' = team
      BY <1>1
    <3>2. ~ \A i \in 1 .. at' - 1 : Clean(team, i, Passed' \cap 1 .. i - 1)
      BY <1>7, <2>3
    <3>3. /\ base_species_seen' = {Dex[Slug(team, i)].base : i \in Passed'}
          /\ items_seen' = UNION {HeldItem(team[i]) : i \in Passed'}
          /\ \A i \in Passed' : Abilities(team[i]) # {} /\ ~AbilityOk(team[i], Slug(team, i)) =>
               [member |-> i, rule |-> "ability"] \in warnings'
      BY <2>1, <2>2 DEF LoopInv
    <3> QED BY <2>3, <2>4, <3>1, <3>2, <3>3 DEF LoopInv
  <2>6. KeptInv'
    BY <1>1 DEF KeptInv
  <2> QED BY <2>5, <2>6
<1>9. CASE slug # Unset
  <2>1. /\ violations' = violations \cup On(BrokenBy(m, slug))
        /\ warnings' = warnings \cup On(Doubted(m, slug))
        /\ base_species_seen' = base_species_seen \cup {Dex[slug].base}
        /\ items_seen' = items_seen \cup HeldItem(m)
    BY <1>1, <1>9
  <2>2. Passed' = Passed \cup {at}
    BY <1>3, <1>4, <1>6, <1>9 DEF Passed
  <2>3. violations' = {} <=> violations = {} /\ Clean(team, at, Passed)
    BY <1>1, <1>6, <1>9, <2>1, RoundIsClean
  <2>4. TypeOK'
    <3>1. \A r \in violations' \cup warnings' : r.member \in 0 .. at' - 1
      <4>1. \A r \in violations \cup warnings : r.member \in 0 .. at - 1
        BY DEF LoopInv, TypeOK
      <4>2. \A r \in violations' \cup warnings' : r \in violations \cup warnings \/ r.member = at
        BY <2>1
      <4>3. at \in Int /\ at < at' /\ at' = at + 1
        BY <1>1, <1>2
      <4> QED BY <1>2, <4>1, <4>2, <4>3
    <3>2. base_species_seen' \subseteq {Dex[s].base : s \in DOMAIN Dex}
      BY <1>9, <2>1, ResolvedInDex DEF LoopInv, TypeOK
    <3>3. items_seen' \subseteq UNION {HeldItem(team[i]) : i \in 1 .. at' - 1}
      BY <1>3, <2>1 DEF LoopInv, TypeOK
    <3> QED BY <1>1, <1>2, <3>1, <3>2, <3>3 DEF LoopInv, TypeOK
  <2>5. base_species_seen' = {Dex[Slug(team, i)].base : i \in Passed'}
    BY <1>6, <2>1, <2>2 DEF LoopInv
  <2>6. items_seen' = UNION {HeldItem(team[i]) : i \in Passed'}
    BY <2>1, <2>2 DEF LoopInv
  <2>7. \A i \in Passed' : Abilities(team[i]) # {} /\ ~AbilityOk(team[i], Slug(team, i)) =>
          [member |-> i, rule |-> "ability"] \in warnings'
    <3>1. Abilities(m) # {} /\ ~AbilityOk(m, slug) => "ability" \in Doubted(m, slug)
      BY DEF Doubted
    <3> QED BY <1>6, <2>1, <2>2, <3>1 DEF LoopInv
  <2>8. LoopInv'
    BY <1>1, <1>4, <1>7, <2>3, <2>4, <2>5, <2>6, <2>7 DEF LoopInv
  <2>9. KeptInv'
    BY <1>1 DEF KeptInv
  <2> QED BY <2>8, <2>9
<1> QED BY <1>8, <1>9

\* The verdict is given on the whole team; the analysis keeps what it derives.
LEMMA ReportStep ==
  ASSUME LoopInv, KeptInv, Report PROVE LoopInv' /\ KeptInv'
<1>1. /\ tool' = "done" /\ at > Len(team) /\ tool # "none"
      /\ UNCHANGED <<team, at, base_species_seen, items_seen, violations, warnings, paste>>
      /\ forms' = forms \/ forms' = [i \in DOMAIN team |-> MemberForm(team[i])]
  BY DEF Report, seen, report
<1>2. at = Len(team) + 1
  BY <1>1, TeamType DEF LoopInv
<1>3. TypeOK'
  BY <1>1 DEF LoopInv, TypeOK
<1>4. Passed' = Passed
  BY <1>1 DEF Passed
<1>5. LoopInv'
  BY <1>1, <1>2, <1>3, <1>4 DEF LoopInv
<1>6. KeptInv'
  BY <1>1 DEF KeptInv
<1> QED BY <1>5, <1>6

\* What is published is the team, complete unless the caller insisted.
LEMMA PublishStep ==
  ASSUME LoopInv, KeptInv, NEW force \in BOOLEAN, CreatePokepaste(force)
  PROVE  LoopInv' /\ KeptInv'
<1>1. /\ UNCHANGED <<team, tool, at, base_species_seen, items_seen, violations, warnings, forms>>
      /\ tool = "done"
      /\ force \/ \A i \in DOMAIN team : ~Missing(team[i])
      /\ paste' = [force |-> force, team |-> [i \in DOMAIN team |-> Rendered(team[i])]]
  BY DEF CreatePokepaste, seen, report
<1>2. TypeOK' /\ Passed' = Passed
  BY <1>1 DEF LoopInv, TypeOK, Passed
<1>3. LoopInv'
  BY <1>1, <1>2 DEF LoopInv
<1>4. paste'.force = force /\ paste'.team = [i \in DOMAIN team |-> Rendered(team[i])]
  BY <1>1
<1>5. KeptInv'
  BY <1>1, <1>4 DEF KeptInv
<1> QED BY <1>3, <1>5

LEMMA CheckNext == LoopInv /\ KeptInv /\ [Next]_vars => LoopInv' /\ KeptInv'
<1> SUFFICES ASSUME LoopInv, KeptInv, [Next]_vars PROVE LoopInv' /\ KeptInv'
  OBVIOUS
<1>1. CASE UNCHANGED vars
  <2>1. UNCHANGED <<team, tool, at, base_species_seen, items_seen, violations, warnings, forms, paste>>
    BY <1>1 DEF vars, seen, report
  <2>2. TypeOK' /\ Passed' = Passed
    BY <2>1 DEF LoopInv, TypeOK, Passed
  <2> QED BY <2>1, <2>2 DEF LoopInv, KeptInv
<1> QED BY <1>1, BeginStep, RoundStep, ReportStep, PublishStep DEF Next

-----------------------------------------------------------------------------
\* A team without violations is one in which any two members are apart,
\* whichever of them was checked first.
LEMMA VerdictIsRules == LoopInv => LegalIsDeclarative
<1> SUFFICES ASSUME LoopInv, tool = "done"
             PROVE  violations = {} <=>
                      /\ Len(team) \in 1 .. TeamSize
                      /\ Resolved = DOMAIN team
                      /\ \A i, j \in DOMAIN team : i # j =>
                           /\ Dex[SlugAt(i)].base # Dex[SlugAt(j)].base
                           /\ team[i].item = Unset \/ team[i].item # team[j].item
                      /\ \A i \in DOMAIN team :
                           /\ MoveSet(team[i]) \subseteq Dex[SlugAt(i)].learns
                           /\ team[i].nature \in DOMAIN Natures \cup {Unset}
                           /\ ValidSpread(NormalizeSpread(team[i].spread))
  BY DEF LegalIsDeclarative
<1>1. /\ DOMAIN team = 1 .. Len(team) /\ Len(team) \in Nat /\ at = Len(team) + 1
      /\ 1 .. at - 1 = DOMAIN team
  BY TeamType DEF LoopInv
<1>2. \A i : SlugAt(i) = Slug(team, i)
  BY DEF SlugAt, Slug
<1>3. \A i, j : Apart(team, i, j) <=>
        /\ Dex[SlugAt(i)].base # Dex[SlugAt(j)].base
        /\ team[i].item = Unset \/ team[i].item # team[j].item
  BY <1>2 DEF Apart, HeldItem
<1>4. \A i, j : Apart(team, i, j) <=> Apart(team, j, i)
  BY DEF Apart
<1>5. (\A i \in DOMAIN team : Clean(team, i, Passed \cap 1 .. i - 1)) <=>
        /\ \A i \in DOMAIN team : Slug(team, i) # Unset /\ Sound(team, i)
        /\ \A i, j \in DOMAIN team : i # j => Apart(team, i, j)
  <2>1. ASSUME \A i \in DOMAIN team : Slug(team, i) # Unset
        PROVE  \A i \in DOMAIN team : Passed \cap 1 .. i - 1 = 1 .. i - 1
    BY <1>1, <2>1 DEF Passed
  <2>2. ASSUME \A i \in DOMAIN team : Clean(team, i, Passed \cap 1 .. i - 1),
               NEW i \in DOMAIN team, NEW j \in DOMAIN team, i # j
        PROVE  Apart(team, i, j)
    <3>1. \A k \in DOMAIN team : Slug(team, k) # Unset
      BY <2>2 DEF Clean
    <3>2. \A k \in DOMAIN team : \A l \in 1 .. k - 1 : Apart(team, k, l)
      BY <2>1, <2>2, <3>1 DEF Clean
    <3>3. i \in 1 .. j - 1 \/ j \in 1 .. i - 1
      BY <1>1, <2>2
    <3> QED BY <1>4, <3>2, <3>3
  <2>3. ASSUME \A i \in DOMAIN team : Slug(team, i) # Unset /\ Sound(team, i),
               \A i, j \in DOMAIN team : i # j => Apart(team, i, j),
               NEW i \in DOMAIN team
        PROVE  Clean(team, i, Passed \cap 1 .. i - 1)
    <3>1. \A j \in Passed \cap 1 .. i - 1 : j \in DOMAIN team /\ i # j
      BY <1>1 DEF Passed
    <3> QED BY <2>3, <3>1 DEF Clean
  <2>4. (\A i \in DOMAIN team : Clean(team, i, Passed \cap 1 .. i - 1)) =>
          \A i \in DOMAIN team : Slug(team, i) # Unset /\ Sound(team, i)
    BY DEF Clean
  <2> QED BY <2>2, <2>3, <2>4
<1>6. Resolved = DOMAIN team <=> \A i \in DOMAIN team : Slug(team, i) # Unset
  BY DEF Resolved, Slug
<1>7. violations = {} <=>
        /\ Len(team) \in 1 .. TeamSize
        /\ \A i \in DOMAIN team : Clean(team, i, Passed \cap 1 .. i - 1)
  BY <1>1 DEF LoopInv
<1>8. \A i : Sound(team, i) <=>
        /\ MoveSet(team[i]) \subseteq Dex[SlugAt(i)].learns
        /\ team[i].nature \in DOMAIN Natures \cup {Unset}
        /\ ValidSpread(NormalizeSpread(team[i].spread))
  BY <1>2 DEF Sound
<1> QED BY <1>3, <1>5, <1>6, <1>7, <1>8

\* The form a member is analysed in has an ability the loop found legal, or
\* warned about.
LEMMA FormsAreLegal == LoopInv /\ KeptInv => FormAbilityLegal
<1> SUFFICES ASSUME LoopInv, KeptInv, tool = "done", Len(forms) = Len(team), NEW i \in Resolved
             PROVE  \/ forms[i] = Unset
                    \/ [member |-> i, rule |-> "ability"] \in warnings
                    \/ forms[i] \in Dex[SlugAt(i)].abilities
                    \/ \E f \in MegaForms : f.species = SlugAt(i) /\ f.ability = forms[i]
  BY DEF FormAbilityLegal
<1>1. /\ DOMAIN team = 1 .. Len(team) /\ Len(team) \in Nat /\ at = Len(team) + 1
      /\ i \in DOMAIN team /\ i \in Passed
  BY TeamType DEF LoopInv, Resolved, Passed, Slug
<1>2. forms # <<>>
  BY <1>1
<1>3. forms[i] = MemberForm(team[i])
  BY <1>1, <1>2 DEF KeptInv
<1> DEFINE m == team[i]
           mega == {f \in MegaForms : f.species = SlugAt(i) /\ f.stone = m.item}
<1>4. CASE SlugAt(i) # Unset /\ m.item # Unset /\ mega # {}
  <2>1. forms[i] = (CHOOSE f \in mega : TRUE).ability
    BY <1>3, <1>4 DEF MemberForm, SlugAt
  <2>2. (CHOOSE f \in mega : TRUE) \in mega
    BY <1>4
  <2> QED BY <2>1, <2>2
<1>5. CASE ~(SlugAt(i) # Unset /\ m.item # Unset /\ mega # {})
  <2>1. forms[i] = m.ability
    BY <1>3, <1>5 DEF MemberForm, SlugAt
  <2>2. CASE AbilityOk(m, SlugAt(i))
    BY <2>1, <2>2 DEF AbilityOk
  <2>3. CASE ~AbilityOk(m, SlugAt(i)) /\ m.ability # Unset
    BY <1>1, <2>3 DEF LoopInv, Abilities, SlugAt, Slug
  <2> QED BY <2>1, <2>2, <2>3
<1> QED BY <1>4, <1>5

\* A published team is the one that was judged, with full move slots.
LEMMA PublishedIsJudged == LoopInv /\ KeptInv => PublishedIsPlayable
<1> SUFFICES ASSUME LoopInv, KeptInv, tool = "done", violations = {}, paste # <<>>, ~paste.force,
                    NEW i \in DOMAIN paste.team
             PROVE  /\ Len(paste.team[i].moves) = MovesPerSet
                    /\ MoveSet(paste.team[i]) \subseteq Dex[SlugAt(i)].learns
                    /\ Spent(paste.team[i]) <= MaxTotal
                    /\ Spent(paste.team[i]) >= MaxTotal
  BY DEF PublishedIsPlayable, Legal
<1>1. i \in DOMAIN team /\ paste.team[i] = Rendered(team[i]) /\ ~Missing(team[i])
  BY DEF KeptInv
<1>2. /\ MoveSet(team[i]) \subseteq Dex[SlugAt(i)].learns
      /\ ValidSpread(NormalizeSpread(team[i].spread))
  BY <1>1, VerdictIsRules DEF LegalIsDeclarative
<1>3. team[i] \in Members
  BY <1>1, TeamType, ElementOfSeq DEF LoopInv
<1> DEFINE m == team[i]
           p == Rendered(m)
<1>4. /\ m.moves \in Seq(STRING) /\ Len(m.moves) \in Nat
      /\ DOMAIN m = {"species", "item", "ability", "moves", "nature", "spread"}
  BY <1>3 DEF Members
<1>5. ~(Len(m.moves) < MovesPerSet) /\ Spent(m) >= MaxTotal
  BY <1>1 DEF Missing
<1>6. p.moves = SubSeq(m.moves, 1, MovesPerSet) /\ p.spread = m.spread
  BY <1>4, <1>5, SizesAssumption DEF Rendered
<1>7. /\ Len(p.moves) = MovesPerSet
      /\ \A k \in DOMAIN p.moves : k \in DOMAIN m.moves /\ p.moves[k] = m.moves[k]
  BY <1>4, <1>5, <1>6, SizesAssumption
<1>8. MoveSet(p) \subseteq MoveSet(m)
  BY <1>7 DEF MoveSet
<1>9. Spent(p) = Spent(m)
  BY <1>6 DEF Spent
<1>10. Spent(m) <= MaxTotal
  BY <1>2, SpentIsTotal DEF Spent, ValidSpread
<1> QED BY <1>1, <1>2, <1>5, <1>7, <1>8, <1>9, <1>10

\* Whatever the team and the order of its members, validate_team's verdict is
\* the rules of the format, analyze_team looks at the abilities it was judged
\* with, and create_pokepaste publishes no more and no less than was judged.
THEOREM TeamVerdictsSound == Spec => []TeamSound
<1>1. LoopInv /\ KeptInv => TeamSound
  BY VerdictIsRules, FormsAreLegal, PublishedIsJudged DEF TeamSound, LoopInv
<1> QED BY <1>1, LoopInit, CheckNext, PTL DEF Spec

-----------------------------------------------------------------------------
(* The first number of Speed points that is enough is a threshold: for any  *)
(* base, modifiers, cap and natures, rounded down at every step as the      *)
(* stats are.                                                               *)

Effects == {"+", "=", "-"}

\* The effects of natures from the slowest to the fastest.
NotSlower(e, f) == e = f \/ e = "-" \/ f = "+"

\* EffectiveSpeed of a stat that is computed already.
Modified(v, mods) ==
  LET staged  == Staged(v, Clamped(mods.stage))
      scarfed == IF mods.scarf THEN (staged * 3) \div 2 ELSE staged
      able    == IF mods.ability THEN 2 * scarfed ELSE scarfed
      windy   == IF mods.tailwind THEN 2 * able ELSE able
  IN  IF mods.paralyzed THEN windy \div 2 ELSE windy

LEMMA EffectType ==
  ASSUME NEW n, NEW s PROVE NatureEffect(n, s) \in Effects
  BY DEF NatureEffect, Effects

\* More points, or a better nature, never lower a stat.
LEMMA StatGrows ==
  ASSUME NEW base \in Nat, NEW p \in Nat, NEW q \in Nat, p <= q,
         NEW e \in Effects, NEW f \in Effects, NotSlower(e, f)
  PROVE  /\ ComputeStat(base, p, e) \in Nat /\ ComputeStat(base, q, f) \in Nat
         /\ ComputeStat(base, p, e) <= ComputeStat(base, q, f)
<1> DEFINE a == base + p
           b == base + q
<1>1. a \in Nat /\ b \in Nat /\ a <= b
  OBVIOUS
<1> HIDE DEF a, b
<1>2. /\ (a * 11) \div 10 \in Nat /\ (a * 9) \div 10 \in Nat
      /\ (b * 11) \div 10 \in Nat /\ (b * 9) \div 10 \in Nat
      /\ (a * 9) \div 10 <= (b * 9) \div 10 /\ (a * 11) \div 10 <= (b * 11) \div 10
      /\ (a * 9) \div 10 <= b /\ a <= (b * 11) \div 10
      /\ (a * 9) \div 10 <= (b * 11) \div 10
  BY <1>1
<1>3. /\ ComputeStat(base, p, "+") = (a * 11) \div 10
      /\ ComputeStat(base, p, "-") = (a * 9) \div 10
      /\ ComputeStat(base, p, "=") = a
      /\ ComputeStat(base, q, "+") = (b * 11) \div 10
      /\ ComputeStat(base, q, "-") = (b * 9) \div 10
      /\ ComputeStat(base, q, "=") = b
  BY DEF ComputeStat, a, b
<1>4. CASE e = f
  BY <1>1, <1>2, <1>3, <1>4 DEF Effects
<1>5. CASE e = "-"
  BY <1>1, <1>2, <1>3, <1>5 DEF Effects
<1>6. CASE f = "+"
  BY <1>1, <1>2, <1>3, <1>6 DEF Effects
<1> QED BY <1>4, <1>5, <1>6 DEF NotSlower

\* A stage keeps the order of two speeds, although it rounds them down.
LEMMA StagedGrows ==
  ASSUME NEW a \in Nat, NEW b \in Nat, a <= b, NEW st \in -6 .. 6
  PROVE  /\ Staged(a, st) \in Nat /\ Staged(b, st) \in Nat
         /\ Staged(a, st) <= Staged(b, st)
<1>1. CASE st >= 0
  <2>1. 2 + st \in {2, 3, 4, 5, 6, 7, 8}
    BY <1>1
  <2> DEFINE x == a * (2 + st)
             y == b * (2 + st)
  <2>2. x \in Nat /\ y \in Nat /\ x <= y
    BY <2>1
  <2> HIDE DEF x, y
  <2>3. x \div 2 \in Nat /\ y \div 2 \in Nat /\ x \div 2 <= y \div 2
    BY <2>2
  <2> QED BY <1>1, <2>3 DEF Staged, x, y
<1>2. CASE st < 0
  <2>1. 2 - st \in {3, 4, 5, 6, 7, 8}
    BY <1>2
  <2> DEFINE x == a * 2
             y == b * 2
             d == 2 - st
  <2>2. x \in Nat /\ y \in Nat /\ x <= y
    OBVIOUS
  <2> HIDE DEF x, y
  <2>3. \A k \in {3, 4, 5, 6, 7, 8} :
          x \div k \in Nat /\ y \div k \in Nat /\ x \div k <= y \div k
    BY <2>2
  <2>4. d \in {3, 4, 5, 6, 7, 8}
    BY <2>1
  <2> HIDE DEF d
  <2>5. x \div d \in Nat /\ y \div d \in Nat /\ x \div d <= y \div d
    BY <2>3, <2>4
  <2> QED BY <1>2, <2>5 DEF Staged, x, y, d
<1> QED BY <1>1, <1>2

\* So do all modifiers of battle together.
LEMMA ModifiedGrows ==
  ASSUME NEW mods \in Mods,
         NEW a \in Nat, NEW b \in Nat, a <= b
  PROVE  /\ Modified(a, mods) \in Nat /\ Modified(b, mods) \in Nat
         /\ Modified(a, mods) <= Modified(b, mods)
<1>1. mods.stage \in Int /\ Clamped(mods.stage) \in -6 .. 6
  BY ThresholdAssumption DEF Clamped
<1> DEFINE sa == Staged(a, Clamped(mods.stage))
           sb == Staged(b, Clamped(mods.stage))
<1>2. sa \in Nat /\ sb \in Nat /\ sa <= sb
  BY <1>1, StagedGrows
<1> HIDE DEF sa, sb
<1> DEFINE ca == IF mods.scarf THEN (sa * 3) \div 2 ELSE sa
           cb == IF mods.scarf THEN (sb * 3) \div 2 ELSE sb
<1>3. ca \in Nat /\ cb \in Nat /\ ca <= cb
  BY <1>2
<1> HIDE DEF ca, cb
<1> DEFINE wa == IF mods.tailwind THEN 2 * (IF mods.ability THEN 2 * ca ELSE ca)
                 ELSE IF mods.ability THEN 2 * ca ELSE ca
           wb == IF mods.tailwind THEN 2 * (IF mods.ability THEN 2 * cb ELSE cb)
                 ELSE IF mods.ability THEN 2 * cb ELSE cb
<1>4. wa \in Nat /\ wb \in Nat /\ wa <= wb
  BY <1>3
<1> HIDE DEF wa, wb
<1>5. wa \div 2 \in Nat /\ wb \div 2 \in Nat /\ wa \div 2 <= wb \div 2
  BY <1>4
<1>6. /\ Modified(a, mods) = IF mods.paralyzed THEN wa \div 2 ELSE wa
      /\ Modified(b, mods) = IF mods.paralyzed THEN wb \div 2 ELSE wb
  BY DEF Modified, sa, sb, ca, cb, wa, wb
<1> QED BY <1>4, <1>5, <1>6

LEMMA SpeedGrows ==
  ASSUME NEW mods \in Mods, NEW base \in Nat,
         NEW p \in Nat, NEW q \in Nat, p <= q,
         NEW e \in Effects, NEW f \in Effects, NotSlower(e, f)
  PROVE  /\ EffectiveSpeed(base, p, e, mods) \in Nat
         /\ EffectiveSpeed(base, q, f, mods) \in Nat
         /\ EffectiveSpeed(base, p, e, mods) <= EffectiveSpeed(base, q, f, mods)
<1> DEFINE a == ComputeStat(base, p, e)
           b == ComputeStat(base, q, f)
<1>1. a \in Nat /\ b \in Nat /\ a <= b
  BY StatGrows
<1>2. /\ EffectiveSpeed(base, p, e, mods) = Modified(a, mods)
      /\ EffectiveSpeed(base, q, f, mods) = Modified(b, mods)
  BY DEF EffectiveSpeed, Modified
<1> HIDE DEF a, b
<1> QED BY <1>1, <1>2, ModifiedGrows

-----------------------------------------------------------------------------
\* What a call is about, and what an answer holds.
CallOk == call.base \in Nat /\ call.mods \in Mods /\ call.tie \in BOOLEAN /\ call.target \in Nat

Answers == [nature : DOMAIN Natures, min : (0 .. MaxPerStat) \cup {None},
            speed : Int, left : Int]

\* min is the threshold of nature n: the points from min on are enough.
Fewest(n, min) ==
  \A p \in 0 .. MaxPerStat : Beats(p, n) <=> min # None /\ p >= min

\* The inductive invariant: nothing below the points tried next is enough, and
\* every answer is a threshold.
SearchInv ==
  /\ SearchTyped /\ CallOk
  /\ options \in Seq(Answers)
  /\ pc = "search" /\ natures # <<>> => \A p \in 0 .. tried - 1 : ~Beats(p, Head(natures))
  /\ pc = "idle" => natures = <<>>
  /\ \A i \in DOMAIN options : Fewest(options[i].nature, options[i].min)

\* Enough points stay enough if there are more of them, or the nature is better.
LEMMA BeatsGrows ==
  ASSUME CallOk, NEW p \in Nat, NEW q \in Nat, p <= q,
         NEW n, NEW m, NotSlower(NatureEffect(n, "speed"), NatureEffect(m, "speed")),
         Beats(p, n)
  PROVE  Beats(q, m)
<1>1. /\ Speed(p, n) \in Nat /\ Speed(q, m) \in Nat
      /\ Speed(p, n) <= Speed(q, m)
  <2> DEFINE e == NatureEffect(n, "speed")
             f == NatureEffect(m, "speed")
  <2>1. e \in Effects /\ f \in Effects /\ NotSlower(e, f)
    BY EffectType
  <2>2. call.base \in Nat /\ call.mods \in Mods
    BY DEF CallOk
  <2> HIDE DEF e, f
  <2>3. /\ EffectiveSpeed(call.base, p, e, call.mods) \in Nat
        /\ EffectiveSpeed(call.base, q, f, call.mods) \in Nat
        /\ EffectiveSpeed(call.base, p, e, call.mods)
             <= EffectiveSpeed(call.base, q, f, call.mods)
    BY <2>1, <2>2, SpeedGrows
  <2> QED BY <2>3 DEF Speed, e, f
<1> QED BY <1>1 DEF Beats, CallOk

LEMMA SearchInit == ThresholdInit => SearchInv
<1> SUFFICES ASSUME ThresholdInit PROVE SearchInv
  OBVIOUS
<1>1. (CHOOSE m \in Mods : TRUE) \in Mods
  BY ThresholdAssumption
<1>2. 0 \in 0 .. MaxPerStat
  BY CapAssumption
<1>3. SearchTyped /\ CallOk
  BY <1>1, <1>2 DEF ThresholdInit, SearchTyped, CallOk
<1> QED BY <1>3 DEF ThresholdInit, SearchInv

\* A call starts the search from no points.
LEMMA CallStep ==
  ASSUME SearchInv, Call PROVE SearchInv'
<1>1. PICK base \in Bases, their \in Bases, mods \in Mods, theirs \in Mods, tie \in BOOLEAN,
           d \in 0 .. MaxPerStat, nature \in DOMAIN Natures :
        call' = [base |-> base, mods |-> mods, tie |-> tie,
                 target |-> EffectiveSpeed(their, d, NatureEffect(nature, "speed"), theirs)]
  BY DEF Call
<1>2. /\ natures' \in NaturesAsked /\ tried' = 0 /\ options' = <<>> /\ pc' = "search"
  BY DEF Call
<1>3. EffectiveSpeed(their, d, NatureEffect(nature, "speed"), theirs) \in Nat
  <2> DEFINE e == NatureEffect(nature, "speed")
  <2>1. their \in Nat /\ d \in Nat /\ d <= d
    BY CapAssumption, ThresholdAssumption
  <2>2. e \in Effects /\ NotSlower(e, e)
    BY EffectType DEF NotSlower
  <2> HIDE DEF e
  <2>3. EffectiveSpeed(their, d, e, theirs) \in Nat
    BY <2>1, <2>2, SpeedGrows
  <2> QED BY <2>3 DEF e
<1>4. CallOk'
  BY <1>1, <1>3, ThresholdAssumption DEF CallOk
<1>5. natures' \in Seq(DOMAIN Natures) /\ tried' \in 0 .. MaxPerStat
  BY <1>2, CapAssumption, ThresholdAssumption
<1>6. SearchTyped'
  BY <1>2, <1>4, <1>5 DEF SearchTyped, CallOk
<1> QED BY <1>2, <1>4, <1>6 DEF SearchInv

\* An answer that is a threshold is recorded, and the next nature begun.
LEMMA Solved ==
  ASSUME SearchInv, Searching, NEW min \in (0 .. MaxPerStat) \cup {None},
         Result(min) \in Answers, Fewest(Head(natures), min),
         options' = Append(options, Result(min)), natures' = Tail(natures),
         tried' = 0, UNCHANGED <<pc, call>>
  PROVE  SearchInv'
<1>1. /\ natures \in Seq(DOMAIN Natures) /\ natures # <<>> /\ options \in Seq(Answers)
      /\ pc = "search"
  BY DEF SearchInv, SearchTyped, Searching
<1>2. /\ natures' \in Seq(DOMAIN Natures) /\ tried' \in 0 .. MaxPerStat
      /\ options' \in Seq(Answers)
  BY <1>1, CapAssumption
<1>3. /\ DOMAIN options' = 1 .. Len(options) + 1 /\ DOMAIN options = 1 .. Len(options)
      /\ Len(options) \in Nat
      /\ \A i \in 1 .. Len(options) : options'[i] = options[i]
      /\ options'[Len(options) + 1] = Result(min)
  BY <1>1
<1>4. Result(min).nature = Head(natures) /\ Result(min).min = min
  BY DEF Result
<1>5. \A n, m : Fewest(n, m)' <=> Fewest(n, m)
  BY DEF Fewest, Beats, Speed
<1>6. \A i \in DOMAIN options' : Fewest(options'[i].nature, options'[i].min)
  <2>1. ASSUME NEW i \in 1 .. Len(options)
        PROVE  Fewest(options'[i].nature, options'[i].min)
    BY <1>3 DEF SearchInv
  <2>2. Fewest(options'[Len(options) + 1].nature, options'[Len(options) + 1].min)
    BY <1>3, <1>4
  <2> QED BY <1>3, <2>1, <2>2
<1>7. SearchTyped' /\ CallOk'
  <2>1. \A i \in DOMAIN options' : options'[i] \in Answers
    BY <1>2
  <2>2. \A i \in DOMAIN options' :
          /\ options'[i].nature \in DOMAIN Natures
          /\ options'[i].min \in (0 .. MaxPerStat) \cup {None}
    BY <2>1 DEF Answers
  <2> QED BY <1>1, <1>2, <2>2 DEF SearchInv, SearchTyped, CallOk
<1> QED BY <1>1, <1>2, <1>5, <1>6, <1>7 DEF SearchInv

LEMMA SearchNext ==
  ASSUME SearchInv, [ThresholdNext]_thresholdVars
  PROVE  SearchInv'
<1>1. /\ tried \in 0 .. MaxPerStat /\ MaxPerStat \in Nat /\ MaxTotal \in Nat
      /\ natures \in Seq(DOMAIN Natures) /\ CallOk
  BY CapAssumption DEF SearchInv, SearchTyped
<1>2. ASSUME NEW p \in Nat, NEW n PROVE Speed(p, n) \in Nat
  <2> DEFINE e == NatureEffect(n, "speed")
  <2>1. e \in Effects /\ NotSlower(e, e) /\ p <= p
    BY EffectType DEF NotSlower
  <2>2. call.base \in Nat /\ call.mods \in Mods
    BY <1>1 DEF CallOk
  <2> HIDE DEF e
  <2>3. EffectiveSpeed(call.base, p, e, call.mods) \in Nat
    BY <2>1, <2>2, SpeedGrows
  <2> QED BY <2>3 DEF Speed, e
<1>3. CASE Call
  BY <1>3, CallStep
<1>4. CASE Found
  <2>1. Searching /\ Beats(tried, Head(natures)) /\ Head(natures) \in DOMAIN Natures
    BY <1>1, <1>4 DEF Found, Searching
  <2>2. Fewest(Head(natures), tried)
    <3>1. ASSUME NEW p \in 0 .. MaxPerStat, p >= tried PROVE Beats(p, Head(natures))
      BY <1>1, <2>1, <3>1, BeatsGrows DEF NotSlower
    <3>2. \A p \in 0 .. tried - 1 : ~Beats(p, Head(natures))
      BY <2>1 DEF SearchInv, Searching
    <3> QED BY <1>1, <3>1, <3>2 DEF Fewest, None
  <2>3. Result(tried) \in Answers
    BY <1>1, <1>2, <2>1 DEF Result, Answers, None
  <2> QED BY <1>1, <1>4, <2>1, <2>2, <2>3, Solved DEF Found
<1>5. CASE TryMore
  <2>1. /\ Searching /\ ~Beats(tried, Head(natures)) /\ tried < MaxPerStat /\ tried' = tried + 1
        /\ UNCHANGED <<pc, call, natures, options>>
    BY <1>5 DEF TryMore
  <2>2. \A p \in 0 .. tried' - 1 : ~Beats(p, Head(natures))
    <3>1. \A p \in 0 .. tried - 1 : ~Beats(p, Head(natures))
      BY <2>1 DEF SearchInv, Searching
    <3> QED BY <1>1, <2>1, <3>1
  <2>3. SearchTyped' /\ CallOk'
    BY <1>1, <2>1 DEF SearchInv, SearchTyped, CallOk
  <2>4. \A p, n : Beats(p, n)' <=> Beats(p, n)
    BY <2>1 DEF Beats, Speed
  <2>5. \A n, m : Fewest(n, m)' <=> Fewest(n, m)
    BY <2>1 DEF Fewest, Beats, Speed
  <2> QED BY <2>1, <2>2, <2>3, <2>4, <2>5 DEF SearchInv
<1>6. CASE GiveUp
  <2>1. /\ Searching /\ ~Beats(tried, Head(natures)) /\ tried = MaxPerStat
        /\ Head(natures) \in DOMAIN Natures
    BY <1>1, <1>6 DEF GiveUp, Searching
  <2>2. Fewest(Head(natures), None)
    <3>1. \A p \in 0 .. tried - 1 : ~Beats(p, Head(natures))
      BY <2>1 DEF SearchInv, Searching
    <3> QED BY <1>1, <2>1, <3>1 DEF Fewest
  <2>3. Result(None) \in Answers
    BY <2>1 DEF Result, Answers, None
  <2> QED BY <1>1, <1>6, <2>1, <2>2, <2>3, Solved DEF GiveUp
<1>7. CASE Answer
  <2>1. natures = <<>> /\ pc' = "idle" /\ UNCHANGED <<call, natures, tried, options>>
    BY <1>7 DEF Answer
  <2>2. SearchTyped' /\ CallOk'
    BY <2>1 DEF SearchInv, SearchTyped, CallOk
  <2>3. \A n, m : Fewest(n, m)' <=> Fewest(n, m)
    BY <2>1 DEF Fewest, Beats, Speed
  <2> QED BY <2>1, <2>2, <2>3 DEF SearchInv
<1>8. CASE UNCHANGED thresholdVars
  BY <1>8 DEF thresholdVars, SearchInv, SearchTyped, CallOk, Fewest, Beats, Speed
<1> QED BY <1>3, <1>4, <1>5, <1>6, <1>7, <1>8 DEF ThresholdNext

\* min_sp_to_outspeed stops at the first points that are enough; no larger
\* number is too slow again, and a nature that raises Speed never needs more
\* than one that does not, for every base, stage and modifier the tool takes.
THEOREM SpeedThresholdExact == ThresholdSpec => []ThresholdExact
<1>1. SearchInv => ThresholdExact
  <2> SUFFICES ASSUME SearchInv PROVE SearchTyped /\ AnswersExact /\ PlusNeverDearer
    BY DEF ThresholdExact
  <2>1. SearchTyped /\ CallOk
    BY DEF SearchInv
  <2>2. AnswersExact
    BY DEF SearchInv, AnswersExact, Fewest
  <2>3. ASSUME NEW i \in DOMAIN options, NEW j \in DOMAIN options, options[j].min # None,
               NotSlower(NatureEffect(options[j].nature, "speed"),
                         NatureEffect(options[i].nature, "speed"))
        PROVE  options[i].min # None /\ options[i].min <= options[j].min
    <3> DEFINE p == options[j].min
    <3>1. p \in 0 .. MaxPerStat /\ p \in Nat /\ p >= p
      BY <2>1, <2>3, CapAssumption DEF SearchTyped
    <3>2. Beats(p, options[j].nature)
      BY <2>2, <2>3, <3>1 DEF AnswersExact
    <3>3. Beats(p, options[i].nature)
      BY <2>1, <2>3, <3>1, <3>2, BeatsGrows
    <3>4. options[i].min # None /\ p >= options[i].min
      BY <2>2, <3>1, <3>3 DEF AnswersExact
    <3>5. options[i].min \in 0 .. MaxPerStat
      BY <2>1, <3>4 DEF SearchTyped
    <3> QED BY <3>1, <3>4, <3>5, CapAssumption
  <2>4. PlusNeverDearer
    <3> DEFINE e(k) == NatureEffect(options[k].nature, "speed")
               Rank(k) == CASE e(k) = "+" -> 0 [] e(k) = "=" -> 1 [] e(k) = "-" -> 2
    <3>1. ASSUME NEW i \in DOMAIN options, NEW j \in DOMAIN options, Rank(i) <= Rank(j)
          PROVE  NotSlower(e(j), e(i))
      <4>1. e(i) \in Effects /\ e(j) \in Effects
        BY EffectType
      <4> QED BY <3>1, <4>1 DEF Effects, NotSlower
    <3> QED BY <2>3, <3>1 DEF PlusNeverDearer
  <2> QED BY <2>1, <2>2, <2>4
<1>2. ThresholdInit => SearchInv
  BY SearchInit
<1>3. SearchInv /\ [ThresholdNext]_thresholdVars => SearchInv'
  BY SearchNext
<1> QED BY <1>1, <1>2, <1>3, PTL DEF ThresholdSpec

-----------------------------------------------------------------------------
(* The form a species is shown in (PlayedForms): all answers were computed  *)
(* from one usage, so that each row is still what the rule gives.           *)
PlayedInv ==
  /\ usage \in Usages
  /\ \A a \in answers :
       /\ a.species \in Species /\ a.row = AsPlayed(a.species)
       /\ a.tool = "get_speed_tiers" /\ AsMega(a) => a.others = OtherSpeeds(a.species)

\* A set of numbers up to n that is not empty has a largest one.
LEMMA LargestOf ==
  ASSUME NEW n \in Nat, NEW T \in SUBSET (0 .. n), T # {}
  PROVE  \E i \in T : \A j \in T : j <= i
<1> DEFINE R == OpToRel(<, Nat)
           D == {n - i : i \in T}
<1>1. IsWellFoundedOn(R, Nat)
  BY NatLessThanWellFounded
<1>2. D \subseteq Nat /\ D # {}
  <2>1. PICK k \in T : TRUE
    OBVIOUS
  <2>2. n - k \in D
    BY <2>1
  <2>3. \A i \in T : n - i \in Nat
    OBVIOUS
  <2> QED BY <2>2, <2>3
<1>3. PICK d \in D : \A e \in D : ~ (<<e, d>> \in R)
  <2> HIDE DEF R, D
  <2> QED BY <1>1, <1>2, WFMin
<1>4. PICK i \in T : d = n - i
  OBVIOUS
<1>5. ASSUME NEW j \in T PROVE j <= i
  <2>1. n - j \in D /\ n - j \in Nat /\ d \in Nat
    BY <1>2
  <2>2. ~ (n - j < d)
    BY <2>1, <1>3 DEF OpToRel
  <2> QED BY <2>1, <2>2, <1>4
<1> QED BY <1>5

\* What a row of a Mega says: how often the stone of its form is held.
LEMMA RowOfForm ==
  ASSUME PlayedInv, NEW s \in Species, NEW r \in FormRows(s)
  PROVE  /\ r.form \in Forms /\ r.form.stone \in DOMAIN usage[s]
         /\ r.percent = usage[s][r.form.stone] /\ r.percent \in 0 .. 100
<1>1. PICK st \in DOMAIN usage[s] :
        \E f \in IF Unlocked(s, st) = {} THEN {NoForm} ELSE Unlocked(s, st) :
          r = [percent |-> usage[s][st], form |-> f]
  BY DEF FormRows, Rows
<1>2. r.form \in Unlocked(s, st) /\ r.percent = usage[s][st]
  BY <1>1 DEF FormRows
<1>3. r.form \in Forms /\ r.form.stone = st
  BY <1>2 DEF Unlocked
<1>4. r.percent \in 0 .. 100
  BY <1>1, <1>2, PlayedAssumption DEF PlayedInv
<1> QED BY <1>1, <1>2, <1>3, <1>4

\* Each form a held stone unlocks has its row.
LEMMA FormHasRow ==
  ASSUME NEW s \in Species, NEW st \in DOMAIN usage[s], Unlocked(s, st) # {}
  PROVE  \E r \in FormRows(s) : r.percent = usage[s][st]
<1>1. PICK f \in Unlocked(s, st) : TRUE
  OBVIOUS
<1> DEFINE r == [percent |-> usage[s][st], form |-> f]
<1>2. r \in Rows(s)
  BY DEF Rows
<1>3. r.form # NoForm /\ r.percent = usage[s][st]
  BY PlayedAssumption DEF Unlocked
<1> QED BY <1>2, <1>3 DEF FormRows

\* If there is a row of a Mega, the dominant one is a row and none has more.
LEMMA DominantIs ==
  ASSUME PlayedInv, NEW s \in Species, FormRows(s) # {}
  PROVE  Dominant(s) \in FormRows(s) /\ \A q \in FormRows(s) : q.percent <= Dominant(s).percent
<1> DEFINE T == {r.percent : r \in FormRows(s)}
<1>1. T \in SUBSET (0 .. 100) /\ T # {}
  BY RowOfForm
<1>2. \E i \in T : \A j \in T : j <= i
  <2> HIDE DEF T
  <2> QED BY <1>1, LargestOf
<1>3. PICK r \in FormRows(s) : \A q \in FormRows(s) : q.percent <= r.percent
  BY <1>2
<1> QED BY <1>3 DEF Dominant

\* A species shown as its Mega has one.
LEMMA ShownMega ==
  ASSUME NEW s \in Species, AsPlayed(s).form # NoForm
  PROVE  PlayedAsMega(s) /\ FormRows(s) # {} /\ AsPlayed(s) = Mega(s)
<1>1. PlayedAsMega(s)
  BY DEF AsPlayed, Base
<1> QED BY <1>1 DEF AsPlayed, PlayedAsMega

\* The rule reads nothing but the usage.
LEMMA RuleStays ==
  ASSUME usage' = usage, NEW s
  PROVE  AsPlayed(s)' = AsPlayed(s) /\ OtherSpeeds(s)' = OtherSpeeds(s)
<1>1. Rows(s)' = Rows(s)
  BY DEF Rows
<1>2. FormRows(s)' = FormRows(s) /\ Total(s)' = Total(s)
  BY <1>1 DEF FormRows, Total
<1>3. Dominant(s)' = Dominant(s) /\ PlayedAsMega(s)' = PlayedAsMega(s)
  BY <1>2 DEF Dominant, PlayedAsMega
<1>4. Mega(s)' = Mega(s) /\ Base(s)' = Base(s)
  BY <1>3 DEF Mega, Base
<1>5. AsPlayed(s)' = AsPlayed(s) /\ Tier(s)' = Tier(s)
  BY <1>3, <1>4 DEF AsPlayed, Tier
<1>6. OtherSpeeds(s)' = OtherSpeeds(s)
  BY <1>2, <1>3, <1>5 DEF OtherSpeeds
<1> QED BY <1>5, <1>6

\* An answer keeps to the rule, whichever tool it is of.
LEMMA PlayedStep == PlayedInv /\ [PlayedNext]_playedVars => PlayedInv'
<1> SUFFICES ASSUME PlayedInv, [PlayedNext]_playedVars PROVE PlayedInv'
  OBVIOUS
<1>1. CASE UNCHANGED playedVars
  <2>1. usage' = usage /\ answers' = answers
    BY <1>1 DEF playedVars
  <2>2. \A t : AsPlayed(t)' = AsPlayed(t) /\ OtherSpeeds(t)' = OtherSpeeds(t)
    BY <2>1, RuleStays
  <2> QED BY <2>1, <2>2 DEF PlayedInv, AsMega
<1>2. CASE PlayedNext
  <2>1. usage' = usage
    BY <1>2 DEF PlayedNext
  <2>2. PICK s \in Species :
          \E a : /\ answers' = answers \cup {a}
                 /\ a.species = s /\ a.row = AsPlayed(s)
                 /\ a.tool = "get_speed_tiers" /\ AsMega(a) => a.others = OtherSpeeds(s)
    <3>1. PICK s \in Species :
            GetUsageStats(s) \/ GetThreatProfile(s) \/ GetPokemonSets(s) \/ GetSpeedTiers(s)
      BY <1>2 DEF PlayedNext
    <3>2. CASE GetUsageStats(s)
      <4> DEFINE a == [tool |-> "get_usage_stats", species |-> s, row |-> AsPlayed(s), others |-> {}]
      <4>1. answers' = answers \cup {a}
        BY <3>2 DEF GetUsageStats, Show
      <4>2. a.species = s /\ a.row = AsPlayed(s) /\ a.tool # "get_speed_tiers"
        OBVIOUS
      <4> QED BY <4>1, <4>2
    <3>3. CASE GetThreatProfile(s)
      <4> DEFINE a == [tool |-> "get_threat_profile", species |-> s, row |-> AsPlayed(s), others |-> {}]
      <4>1. answers' = answers \cup {a}
        BY <3>3 DEF GetThreatProfile, Show
      <4>2. a.species = s /\ a.row = AsPlayed(s) /\ a.tool # "get_speed_tiers"
        OBVIOUS
      <4> QED BY <4>1, <4>2
    <3>4. CASE GetPokemonSets(s)
      <4> DEFINE a == [tool |-> "get_pokemon_sets", species |-> s, row |-> AsPlayed(s), others |-> {}]
      <4>1. answers' = answers \cup {a}
        BY <3>4 DEF GetPokemonSets, Show, AsPlayed
      <4>2. a.species = s /\ a.row = AsPlayed(s) /\ a.tool # "get_speed_tiers"
        OBVIOUS
      <4> QED BY <4>1, <4>2
    <3>5. CASE GetSpeedTiers(s)
      <4> DEFINE a == [tool |-> "get_speed_tiers", species |-> s, row |-> Tier(s),
                       others |-> IF PlayedAsMega(s) THEN OtherSpeeds(s) ELSE {}]
      <4>1. a.species = s /\ a.row = AsPlayed(s)
        BY DEF Tier, AsPlayed
      <4>2. AsMega(a) => a.others = OtherSpeeds(s)
        BY <4>1, ShownMega DEF AsMega
      <4>3. answers' = answers \cup {a}
        BY <3>5 DEF GetSpeedTiers, Show
      <4> QED BY <4>1, <4>2, <4>3
    <3> QED BY <3>1, <3>2, <3>3, <3>4, <3>5
  <2>3. \A t : AsPlayed(t)' = AsPlayed(t) /\ OtherSpeeds(t)' = OtherSpeeds(t)
    BY <2>1, RuleStays
  <2> QED BY <2>1, <2>2, <2>3 DEF PlayedInv, AsMega
<1> QED BY <1>1, <1>2

\* However Mega Stones are held and whatever forms they unlock, all tools show one
\* form of a species; a Mega is one whose stone no other Mega's is held more than;
\* and each Speed a Mega of it is met with is in the Speed tiers.
THEOREM PlayedIsSound == PlayedSpec => []PlayedSound
<1>1. PlayedInit => PlayedInv
  BY DEF PlayedInit, PlayedInv
<1>2. PlayedInv => PlayedSound
  <2> SUFFICES ASSUME PlayedInv PROVE ToolsAgree /\ MostHeldMega /\ NoTierHidden
    BY DEF PlayedSound
  <2>1. ToolsAgree
    BY DEF ToolsAgree, PlayedInv
  <2>2. ASSUME NEW a \in answers, AsMega(a)
        PROVE  /\ a.species \in Species /\ FormRows(a.species) # {}
               /\ a.row.form = Dominant(a.species).form
               /\ a.row.speed = Dominant(a.species).form.speed
               /\ a.row = AsPlayed(a.species) /\ PlayedAsMega(a.species)
    BY <2>2, ShownMega DEF PlayedInv, AsMega, Mega
  <2>3. MostHeldMega
    <3> SUFFICES ASSUME NEW a \in answers, AsMega(a), NEW st \in DOMAIN usage[a.species],
                        Unlocked(a.species, st) # {}
                 PROVE  usage[a.species][st] <= usage[a.species][a.row.form.stone]
      BY DEF MostHeldMega
    <3>1. PICK r \in FormRows(a.species) : r.percent = usage[a.species][st]
      BY <2>2, FormHasRow
    <3>2. Dominant(a.species) \in FormRows(a.species) /\ r.percent <= Dominant(a.species).percent
      BY <2>2, DominantIs
    <3>3. Dominant(a.species).percent = usage[a.species][a.row.form.stone]
      BY <2>2, <3>2, RowOfForm
    <3> QED BY <3>1, <3>2, <3>3
  <2>4. NoTierHidden
    <3> SUFFICES ASSUME NEW a \in answers, a.tool = "get_speed_tiers", AsMega(a),
                        NEW r \in FormRows(a.species)
                 PROVE  r.form.speed \in {a.row.speed} \cup {f.speed : f \in a.others}
      BY DEF NoTierHidden
    <3>1. a.others = OtherSpeeds(a.species) /\ a.row = Tier(a.species)
      BY <2>2 DEF PlayedInv, Tier, AsPlayed
    <3>2. CASE r = Dominant(a.species)
      BY <2>2, <3>2
    <3>3. CASE r # Dominant(a.species) /\ r.form.speed # a.row.speed
      BY <3>1, <3>3 DEF OtherSpeeds
    <3> QED BY <3>2, <3>3
  <2> QED BY <2>1, <2>3, <2>4
<1>3. PlayedInv /\ [PlayedNext]_playedVars => PlayedInv'
  BY PlayedStep
<1> QED BY <1>1, <1>2, <1>3, PTL DEF PlayedSpec
=============================================================================
