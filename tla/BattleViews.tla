----------------------------- MODULE BattleViews -----------------------------
(***************************************************************************)
(* What a policy sees of the opponent (docker/sim/policies.js). For the    *)
(* time of one decision the foe's Pokémon are overwritten with what is     *)
(* believed of them (applyView), then one Pokémon of each side that may    *)
(* Mega Evolve with its Mega (applyMegaProjection); both are taken back    *)
(* before the battle, which is Pokémon Showdown's, goes on. The weather a  *)
(* projected Mega brings is left out, and so are fainted Pokémon.          *)
(*                                                                         *)
(* A Pokémon is a record [form, ability, item, moves, stats, hp, max];     *)
(* stats names the form and the spread they are of. No item is NoItem; a   *)
(* belief lacks what usage data lacks: Unknown, {} for moves.              *)
(***************************************************************************)
EXTENDS Integers, Sequences, FiniteSets

CONSTANTS
  Own, Foes,      \* active Pokémon of the side that decides, and of the other
  Set,            \* Pokémon -> [ability, item, moves, hp] it really has
  Beliefs,        \* function on some Pokémon: [ability, item, moves, hp]
  Stone,          \* [Pokémon -> its Mega Stone]
  MegaAbility,    \* [Pokémon -> its Mega's ability]
  NoItem, Unknown,
  MoveSlots,      \* four
  MaxEvents       \* bound: events of the battle

Mons == Own \cup Foes

\* What the constants have to be.
ViewsAssumption ==
  /\ Own \cap Foes = {} /\ DOMAIN Set = Mons /\ DOMAIN Beliefs \subseteq Mons
  /\ \A m \in Mons : Set[m].hp \in Nat \ {0}
  /\ \A m \in DOMAIN Beliefs : Beliefs[m].hp \in Nat \ {0}

VARIABLES
  mode,       \* open_sheets, closed or omniscient
  mon,        \* the battle's Pokémon, as a policy would read them now
  used,       \* moves each has used
  log,        \* what the battle showed: <<"item" or "ability" or "mega", Pokémon>>
  scanned,    \* _scannedLogPos
  known,      \* <<kind, Pokémon>>: _itemKnown, _abilityKnown
  cache,      \* [Mons -> _beliefStats: the form they are of, or "none"]
  saved,      \* functions on the overwritten: by the view, by the projection
  pc,
  real        \* what the battle made of its Pokémon, whatever policies did

viewVars == <<mode, mon, used, log, scanned, known, cache, saved, pc, real>>

Fresh(m) == [form |-> "base", ability |-> Set[m].ability, item |-> Set[m].item,
             moves |-> Set[m].moves, stats |-> <<"base", "real">>,
             hp |-> Set[m].hp, max |-> Set[m].hp]

ViewsInit ==
  /\ mode \in {"open_sheets", "closed", "omniscient"}
  /\ mon = [m \in Mons |-> Fresh(m)] /\ real = mon
  /\ used = [m \in Mons |-> {}] /\ log = <<>> /\ scanned = 0 /\ known = {}
  /\ cache = [m \in Mons |-> "none"]
  /\ saved = [view |-> <<>>, mega |-> <<>>] /\ pc = "battle"

-----------------------------------------------------------------------------
(* The battle *)

MegaSide(ms) == \E m \in ms : mon[m].form = "mega"
SideOf(m) == IF m \in Own THEN Own ELSE Foes

\* One event: what it makes of its Pokémon and, where it shows something, a line.
Event(m, kind, now, truly) ==
  /\ pc = "battle" /\ Len(log) + Cardinality(UNION {used[q] : q \in Mons}) < MaxEvents
  /\ mon' = [mon EXCEPT ![m] = now] /\ real' = [real EXCEPT ![m] = truly]
  /\ log' = IF kind = "none" THEN log ELSE Append(log, <<kind, m>>)
  /\ UNCHANGED <<mode, scanned, known, cache, saved, pc>>

ShowsAbility(m) == Event(m, "ability", mon[m], real[m]) /\ UNCHANGED used

\* An orb is announced, a berry is eaten; a Mega Stone stays.
ShowsItem(m) ==
  /\ mon[m].item # NoItem
  /\ \E left \in {mon[m].item} \cup (IF mon[m].item = Stone[m] THEN {} ELSE {NoItem}) :
       Event(m, "item", [mon[m] EXCEPT !.item = left], [real[m] EXCEPT !.item = left])
  /\ UNCHANGED used

UsesMove(m) ==
  \E v \in mon[m].moves \ used[m], hp \in 1 .. mon[m].hp :
    /\ Event(m, "none", [mon[m] EXCEPT !.hp = hp], [real[m] EXCEPT !.hp = hp])
    /\ used' = [used EXCEPT ![m] = @ \cup {v}]

AsMega(q, m) ==
  [q EXCEPT !.form = "mega", !.ability = MegaAbility[m], !.stats = <<"mega", "real">>]

MegaEvolves(m) ==
  /\ mon[m].item = Stone[m] /\ ~MegaSide(SideOf(m))
  /\ Event(m, "mega", AsMega(mon[m], m), AsMega(real[m], m))
  /\ UNCHANGED used

-----------------------------------------------------------------------------
(* The information view *)

\* scanRevealed, of the lines since the last decision.
Revealed == known \cup {log[i] : i \in {j \in scanned + 1 .. Len(log) : log[j][1] # "mega"}}

Round(a, b) == (2 * a + b) \div (2 * b)

\* "HP is seen as a percentage": of the assumed maximum.
SeenHp(m) ==
  LET hp == Round(mon[m].hp * Beliefs[m].hp, mon[m].max) IN IF hp < 1 THEN 1 ELSE hp

\* _beliefStats is kept for a species only.
SpreadForm(m) == mon[m].form

\* A guess for what has not been seen; a Mega's ability is fixed by its form.
GuessedAbility(m) ==
  LET guess == Beliefs[m].ability IN
  IF guess # Unknown /\ mon[m].form # "mega" /\ <<"ability", m>> \notin Revealed
  THEN guess ELSE mon[m].ability

GuessedItem(m) ==
  LET guess == Beliefs[m].item IN
  IF guess # Unknown /\ mon[m].item # NoItem /\ <<"item", m>> \notin Revealed
  THEN guess ELSE mon[m].item

\* Moves seen in use, and guesses up to four.
GuessedMoves(m) ==
  LET guesses == Beliefs[m].moves \ used[m]
      room == MoveSlots - Cardinality(used[m])
      more == Cardinality(guesses)
  IN  IF used[m] \cup Beliefs[m].moves = {} THEN {mon[m].moves}
      ELSE {used[m] \cup h : h \in
              {g \in SUBSET guesses : Cardinality(g) = IF more < room THEN more ELSE room}}

\* The spread is assumed in both modes, the rest of the set on closed sheets.
SeenAs(m) ==
  LET seen == [mon[m] EXCEPT !.stats = <<SpreadForm(m), "usual">>,
                             !.max = Beliefs[m].hp, !.hp = SeenHp(m)]
  IN IF mode # "closed" THEN {seen}
     ELSE {[seen EXCEPT !.ability = GuessedAbility(m), !.item = GuessedItem(m), !.moves = v] :
             v \in GuessedMoves(m)}

Believed == IF mode = "omniscient" THEN {} ELSE Foes \cap DOMAIN Beliefs

\* choose, for any policy but "random": applyView.
ApplyView ==
  /\ pc = "battle" /\ pc' = "viewed"
  /\ saved' = [saved EXCEPT !.view = [m \in Believed |-> mon[m]]]
  /\ IF mode = "omniscient" THEN UNCHANGED <<scanned, known>>
     ELSE scanned' = Len(log) /\ known' = Revealed
  /\ cache' = [m \in Mons |-> IF m \in Believed THEN SpreadForm(m) ELSE cache[m]]
  /\ mon' \in {f \in [Mons -> UNION {SeenAs(m) : m \in Believed} \cup {mon[m] : m \in Mons \ Believed}] :
                 \A m \in Mons : IF m \in Believed THEN f[m] \in SeenAs(m) ELSE f[m] = mon[m]}
  /\ UNCHANGED <<mode, used, log, real>>

-----------------------------------------------------------------------------
(* The Mega projection *)

\* megaSpeciesFor: the item as it is seen, or the battle's own canMegaEvo.
MayMega(m) == mon[m].item = Stone[m] \/ real[m].item = Stone[m]

\* One of each side; which one has the better stats is left out.
Projected ==
  {ms \in SUBSET {m \in Mons : ~MegaSide(SideOf(m)) /\ MayMega(m)} :
     \A side \in {Own, Foes} :
       (\E m \in side : ~MegaSide(side) /\ MayMega(m)) <=> Cardinality(ms \cap side) = 1}

\* heuristicTurn begins; other policies and requests go without it.
Project ==
  /\ pc = "viewed" /\ pc' = "thinks"
  /\ \E ms \in Projected \cup {{}} :
       /\ saved' = [saved EXCEPT !.mega = [m \in ms |-> mon[m]]]
       /\ mon' = [m \in Mons |-> IF m \notin ms THEN mon[m] ELSE
                    AsMega(mon[m], m)]
  /\ UNCHANGED <<mode, used, log, scanned, known, cache, real>>

-----------------------------------------------------------------------------
\* Fault: the view is taken back before the projection, whose copies are of it.
FaultyRestore ==
  /\ pc = "thinks" /\ pc' = "battle"
  /\ mon' = [m \in Mons |->
       IF m \in DOMAIN saved.mega
       THEN [saved.mega[m] EXCEPT !.hp = real[m].hp, !.max = real[m].max,
                                  !.item = real[m].item, !.moves = real[m].moves]
       ELSE IF m \in DOMAIN saved.view THEN saved.view[m] ELSE mon[m]]
  /\ saved' = [view |-> <<>>, mega |-> <<>>]
  /\ UNCHANGED <<mode, used, log, scanned, known, cache, real>>

\* A Pokémon without its projection.
Unprojected(m) ==
  IF m \notin DOMAIN saved.mega THEN mon[m]
  ELSE [mon[m] EXCEPT !.form = saved.mega[m].form, !.ability = saved.mega[m].ability,
                      !.stats = saved.mega[m].stats]

\* However the policy ends, the two finally blocks: first the projection's
\* fields, then the view's.
Restore ==
  /\ pc = "thinks" /\ pc' = "battle"
  /\ mon' = [m \in Mons |-> IF m \notin DOMAIN saved.view THEN Unprojected(m) ELSE
               [saved.view[m] EXCEPT !.form = Unprojected(m).form]]
  /\ saved' = [view |-> <<>>, mega |-> <<>>]
  /\ UNCHANGED <<mode, used, log, scanned, known, cache, real>>

ViewsNext ==
  \/ \E m \in Mons : ShowsAbility(m) \/ ShowsItem(m) \/ UsesMove(m) \/ MegaEvolves(m)
  \/ ApplyView \/ Project \/ Restore

ViewsSpec == ViewsInit /\ [][ViewsNext]_viewVars
-----------------------------------------------------------------------------
Abilities == {Set[m].ability : m \in Mons} \cup {Beliefs[m].ability : m \in DOMAIN Beliefs}
             \cup {MegaAbility[m] : m \in Mons}
Carried == {Set[m].item : m \in Mons} \cup {Beliefs[m].item : m \in DOMAIN Beliefs} \cup {NoItem}
AllMoves == UNION ({Set[m].moves : m \in Mons} \cup {Beliefs[m].moves : m \in DOMAIN Beliefs})

Pokemon == [form : {"base", "mega"}, ability : Abilities, item : Carried,
            moves : SUBSET AllMoves, stats : {"base", "mega"} \X {"real", "usual"},
            hp : Nat \ {0}, max : Nat \ {0}]

\* No view makes a Pokémon that still stands look fainted, nor gives it more than
\* all its HP; and every field is of its kind.
ViewsTypeOK ==
  /\ mode \in {"open_sheets", "closed", "omniscient"} /\ pc \in {"battle", "viewed", "thinks"}
  /\ \A m \in Mons : mon[m].hp <= mon[m].max
  /\ mon \in [Mons -> Pokemon] /\ real \in [Mons -> Pokemon]
  /\ known \subseteq {"item", "ability"} \X Mons /\ scanned \in 0 .. Len(log)
  /\ cache \in [Mons -> {"none", "base", "mega"}]

\* "restored right after, so the battle itself always runs on the real sets":
\* whatever was believed and projected, on top of each other, nothing of it is
\* left when the battle goes on.
RealSetsPlayed == pc = "battle" => mon = real

\* "closed sheets never overwrite an ability or item that has already activated",
\* between any two decisions, nor a move that was used.
RevealedKept ==
  pc = "viewed" => \A m \in Foes :
    /\ <<"item", m>> \in {log[i] : i \in DOMAIN log} => mon[m].item = real[m].item
    /\ <<"ability", m>> \in {log[i] : i \in DOMAIN log} => mon[m].ability = real[m].ability
    /\ used[m] \subseteq mon[m].moves

\* Assumed stats are those of the form the foe has now, though they are kept from
\* decision to decision (_beliefStats).
BeliefFitsForm ==
  pc = "viewed" => \A m \in Believed : mon[m].stats = <<mon[m].form, "usual">>

\* What a policy is shown instead of the truth stays its own: it neither changes
\* the battle nor contradicts what the battle has shown.
ViewsSound == ViewsTypeOK /\ RealSetsPlayed /\ RevealedKept /\ BeliefFitsForm

\* "the hidden Stat Point spread and nature are assumed to be the species' most
\* common ones": no policy sees the stats of a foe's own spread.
SpreadHidden ==
  pc # "battle" => \A m \in Believed : mon[m].stats[2] = "usual"

\* Closed sheets give the item "until revealed in battle": a foe is not taken for
\* a Mega because of a stone nobody has seen.
StoneHidden ==
  pc = "thinks" /\ mode = "closed" => \A m \in Believed :
    mon[m].form = "mega" /\ real[m].form = "base" => mon[m].item = Stone[m]

\* A Mega Evolution shows the stone; no guess replaces it afterwards.
StoneStaysShown ==
  pc = "viewed" => \A m \in Foes : real[m].form = "mega" => mon[m].item = real[m].item
=============================================================================
