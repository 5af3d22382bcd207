------------------------------ MODULE SimCalls ------------------------------
(***************************************************************************)
(* The calls of the MCP tools to the battle simulator (sim.py) and what    *)
(* api.js makes of them: a simulation plays one team, a comparison several *)
(* one after the other, each against the same opponents with the same      *)
(* seeds, through the pool.  The pool is taken as the service SimPool      *)
(* implements (JobService), in the order of its queue, one battle per unit *)
(* of time; a battle may be lost to a crash.  A client gives up after its  *)
(* timeout; the sidecar is not told.                                       *)
(***************************************************************************)
EXTENDS Selection, SequencesExt

CONSTANTS
  Clients,
  Opponents,      \* sequence: the entries of a call's list of opponents
  Legal,          \* those Showdown's validator accepts
  Beats,          \* Beats[v]: the opponents variant v beats; 1 is the base
  MaxVariants, MaxGames,   \* bounds: variants of a call, games per opponent
  Cap,            \* sim_max_battles
  Timeout,        \* sim_timeout, in battles
  MaxCalls,       \* bound: calls made
  MaxLost         \* bound: battles of a run that a crash takes

ASSUME OpponentsAssumption ==
  /\ Opponents \in Seq(ToSet(Opponents)) /\ Legal \subseteq ToSet(Opponents) /\ Legal # {}
  /\ \A i, j \in DOMAIN Opponents : Opponents[i] = Opponents[j] => i = j
ASSUME BeatsAssumption == Beats \in [1 .. MaxVariants -> SUBSET Legal]
ASSUME BoundsAssumption ==
  MaxVariants \in Nat /\ MaxGames \in Nat /\ Cap \in Nat /\ Timeout \in Nat /\ MaxCalls \in Nat /\ MaxLost \in Nat

VARIABLES
  call,      \* of each client: number of its call, 0 when it waits for none
  age,       \* battles played since it called
  alone,     \* nobody else was waiting, then or since
  reqs,      \* the requests the sidecar got, with the runs it finished
  queue,     \* battles waiting in the pool
  answer     \* what each client was answered last

vars == <<call, age, alone, reqs, queue, answer>>

NoAnswer == [kind |-> "none", id |-> 0, report |-> <<>>]

Init ==
  /\ call = [c \in Clients |-> 0] /\ age = [c \in Clients |-> 0]
  /\ alone = [c \in Clients |-> FALSE]
  /\ reqs = <<>> /\ queue = <<>>
  /\ answer = [c \in Clients |-> NoAnswer]

-----------------------------------------------------------------------------
\* legalOpponents: the others are dropped, and the jobs number those left.
LegalOpponents == Select(Opponents, {i \in DOMAIN Opponents : Opponents[i] \in Legal})

\* buildJobs: round after round, against every opponent.
Jobs(games) == games * Len(LegalOpponents)

\* The battles of one run of a request, as they enter the queue.
Run(id, v, games) == [k \in 1 .. Jobs(games) |-> [id |-> id, variant |-> v, k |-> k - 1]]

\* aggregate: which opponent a job was against.
OpponentOf(k) == LegalOpponents[(k % Len(LegalOpponents)) + 1]

Outcome(v, k) == IF LegalOpponents[(k % Len(LegalOpponents)) + 1] \in Beats[v] THEN 1 ELSE 0

Lost == 2   \* the result of a battle that crashed: { error }

Done(run) == {k \in DOMAIN run : run[k] # Lost}

\* Fault: the lost battles are left out first, and the rest paired by position.
FaultyPairs(run, base) ==
  LET kept(r) == SelectSeq([i \in 1 .. Cardinality(DOMAIN r) |-> i - 1], LAMBDA k : r[k] # Lost)
      n == IF Len(kept(run)) < Len(kept(base)) THEN Len(kept(run)) ELSE Len(kept(base))
  IN  {<<kept(run)[i], kept(base)[i]>> : i \in 1 .. n}

\* compare: battle k of a variant with battle k of the base, if both were played.
Pairs(run, base) == {<<k, k>> : k \in Done(run) \intersect Done(base)}

\* The report of a run: games and wins against each opponent, and the paired
\* difference to the base, of a battle won by one and lost by the other.
Report(run, base) ==
  LET against(o) == {k \in Done(run) : OpponentOf(k) = o}
      pairs == Pairs(run, base)
  IN  [games |-> [o \in ToSet(Opponents) |-> Cardinality(against(o))],
       wins |-> [o \in ToSet(Opponents) |-> Cardinality({k \in against(o) : run[k] = 1})],
       paired |-> Cardinality(pairs),
       delta |-> Cardinality({p \in pairs : run[p[1]] > base[p[2]]})
                   - Cardinality({p \in pairs : run[p[1]] < base[p[2]]})]

-----------------------------------------------------------------------------
\* _cap is asked before anything is sent; the base team plays too.
Battles(variants, games) == Len(Opponents) * games * variants

Refuse(c, variants, games) ==
  /\ Battles(variants, games) > Cap
  /\ answer' = [answer EXCEPT ![c] = [NoAnswer EXCEPT !.kind = "refused"]]
  /\ UNCHANGED <<call, age, alone, reqs, queue>>

Send(c, variants, games) ==
  /\ Battles(variants, games) <= Cap
  /\ LET id == Len(reqs) + 1
         others == {d \in Clients \ {c} : call[d] # 0}
     IN  /\ reqs' = Append(reqs, [client |-> c, variants |-> variants, games |-> games,
                                  runs |-> <<>>, run |-> [k \in {} |-> 0]])
         /\ queue' = queue \o Run(id, 1, games)
         /\ call' = [call EXCEPT ![c] = id] /\ age' = [age EXCEPT ![c] = 0]
         /\ alone' = [d \in Clients |-> IF d = c THEN others = {} ELSE FALSE]
  /\ answer' = [answer EXCEPT ![c] = NoAnswer]

Call(c) ==
  /\ call[c] = 0 /\ Len(reqs) < MaxCalls
  /\ \E variants \in 1 .. MaxVariants, games \in 1 .. MaxGames :
       Refuse(c, variants, games) \/ Send(c, variants, games)

\* Fault: the last variant is never played.
FaultyEnded(r, v) == v + 1 >= r.variants

\* compare: the variants are played one after the other, to the last.
Ended(r, v) == v = r.variants

\* Fault: the answer goes to whatever call its client waits for.
FaultyWaiting(r, id) == call[r.client] # 0

\* The connection of the request is still open.
Waiting(r, id) == call[r.client] = id

\* A battle is over.  The last of a run starts the next variant's, or the
\* answer, if somebody still waits for it.
Play(lost) ==
  /\ queue # <<>>
  /\ LET b == Head(queue)
         r == reqs[b.id]
         run == [k \in 0 .. b.k |-> IF k < b.k THEN r.run[k]
                                    ELSE IF lost THEN Lost ELSE Outcome(b.variant, k)]
         lostBefore == Cardinality(DOMAIN r.run \ Done(r.run))
         over == b.k = Jobs(r.games) - 1
         runs == IF over THEN Append(r.runs, run) ELSE r.runs
         ended == over /\ Ended(r, b.variant)
         waiting == Waiting(r, b.id)
     IN  /\ lost => lostBefore < MaxLost
         /\ reqs' = [reqs EXCEPT ![b.id].runs = runs,
                                 ![b.id].run = IF over THEN [k \in {} |-> 0] ELSE run]
         /\ queue' = Tail(queue) \o IF over /\ ~ended THEN Run(b.id, b.variant + 1, r.games) ELSE <<>>
         /\ call' = IF ended /\ waiting THEN [call EXCEPT ![r.client] = 0] ELSE call
         /\ answer' = IF ended /\ waiting
                      THEN [answer EXCEPT ![r.client] =
                              [kind |-> "ok", id |-> b.id,
                               report |-> [i \in DOMAIN runs |-> Report(runs[i], runs[1])]]]
                      ELSE answer
         /\ age' = [c \in Clients |-> IF call'[c] # 0 THEN age[c] + 1 ELSE age[c]]
  /\ UNCHANGED alone

\* "simulation timed out [...]; ask for fewer games"
Expire(c) ==
  /\ call[c] # 0 /\ age[c] >= Timeout
  /\ call' = [call EXCEPT ![c] = 0]
  /\ answer' = [answer EXCEPT ![c] = [NoAnswer EXCEPT !.kind = "timeout", !.id = call[c]]]
  /\ UNCHANGED <<age, alone, reqs, queue>>

Next ==
  \/ \E c \in Clients : Call(c) \/ Expire(c)
  \/ \E lost \in BOOLEAN : Play(lost)

\* The pool goes on while it has battles (IsJobService of SimPool).
Fairness == WF_vars(\E lost \in BOOLEAN : Play(lost))

Spec == Init /\ [][Next]_vars /\ Fairness

-----------------------------------------------------------------------------
TypeOK ==
  /\ call \in [Clients -> 0 .. Len(reqs)] /\ age \in [Clients -> Nat]
  /\ alone \in [Clients -> BOOLEAN]
  /\ \A i \in DOMAIN queue : queue[i].id \in DOMAIN reqs
  /\ \A id \in DOMAIN reqs : Len(reqs[id].runs) <= reqs[id].variants
  /\ \A c \in Clients : answer[c].kind \in {"none", "ok", "refused", "timeout"}

Answered == {c \in Clients : answer[c].kind = "ok"}

\* A report credits every battle to the opponent it was against, also when an
\* illegal opponent was dropped and battles were lost.
CreditedToOpponent ==
  \A c \in Answered : \A i \in DOMAIN answer[c].report :
    LET rep == answer[c].report[i] IN
    \A o \in ToSet(Opponents) :
      /\ o \notin Legal => rep.games[o] = 0
      /\ rep.games[o] <= reqs[answer[c].id].games
      /\ rep.wins[o] = IF o \in Beats[i] THEN rep.games[o] ELSE 0

\* The paired difference is that of the same battles on both sides: of those
\* neither run lost, a battle counts if it was against an opponent only one of
\* the two teams beats.
PairedByBattle ==
  \A c \in Answered : \A i \in DOMAIN answer[c].report :
    LET rep == answer[c].report[i]
        r == reqs[answer[c].id]
        both == {k \in 0 .. Jobs(r.games) - 1 : Lost \notin {r.runs[1][k], r.runs[i][k]}}
        against(os) == {k \in both : OpponentOf(k) \in os}
    IN  /\ rep.paired = Cardinality(both)
        /\ rep.delta = Cardinality(against(Beats[i] \ Beats[1]))
                         - Cardinality(against(Beats[1] \ Beats[i]))

\* What a report says of a team, and of its difference to the base, is about the
\* battles that were played, whichever of them a crash took.
ReportsSound == TypeOK /\ CreditedToOpponent /\ PairedByBattle

\* A client is answered for its last call and for all the variants it sent, also
\* when the results of a call it gave up come in later.
AnswersOwn ==
  \A c \in Answered :
    LET mine == {id \in DOMAIN reqs : reqs[id].client = c} IN
    /\ \A id \in mine : id <= answer[c].id \/ call[c] = id
    /\ Len(answer[c].report) = reqs[answer[c].id].variants

\* Whatever was sent is played to its last variant, whether or not somebody still
\* waits for it.
PlayedOut ==
  \A id \in 1 .. MaxCalls :
    id \in DOMAIN reqs ~> id \in DOMAIN reqs /\ Len(reqs[id].runs) = reqs[id].variants

\* "simulation timed out after [...]; ask for fewer games": a call of a client
\* that is alone, with no more battles than the timeout has room for, is not
\* answered by a timeout.
FewerGamesHelp ==
  \A c \in Clients :
    answer[c].kind = "timeout" /\ alone[c] =>
      reqs[answer[c].id].variants * Jobs(reqs[answer[c].id].games) > Timeout
=============================================================================
