-------------------------- MODULE SimulationProofs --------------------------
(***************************************************************************)
(* Proofs about SimCalls, for any clients, opponents, bounds and losses;   *)
(* about BattleViews, for any Pokemon, sets, beliefs and events: while a   *)
(* policy thinks, every Pokemon is known to be its view, or its view under *)
(* a projection, with all that is needed to take the two back; about       *)
(* BattlePlay, for any teams and policies: each choice is legal, and no    *)
(* battle is cut short; and about MetaOpponents, for any database: a pool  *)
(* of opponents is fair at every stage.                                    *)
(***************************************************************************)
EXTENDS SimCalls, BattleViews, BattlePlay, MetaOpponents

Battle == [id : Nat, variant : Nat, k : Nat]

\* What a run, or the beginning of one, has recorded of its battles.
Recorded == UNION {[0 .. n - 1 -> {0, 1, Lost}] : n \in Nat}

Request == [client : Clients, variants : 1 .. MaxVariants, games : 1 .. MaxGames,
            runs : Seq(Recorded), run : Recorded]

TypeInv ==
  /\ reqs \in Seq(Request) /\ queue \in Seq(Battle)
  /\ call \in [Clients -> 0 .. Len(reqs)]
  /\ age \in [Clients -> Nat] /\ alone \in [Clients -> BOOLEAN]
  /\ DOMAIN answer = Clients /\ answer = [c \in Clients |-> answer[c]]
  /\ \A c \in Clients : answer[c].kind \in {"none", "ok", "refused", "timeout"}

\* The battles of a request wait in the order in which they are numbered.
InOrder(q) == \A i, j \in DOMAIN q : i < j /\ q[i].id = q[j].id => q[i].k < q[j].k

\* A battle in the queue is of the run its request is at, and of that run each
\* battle waits or is recorded.
QueueInv ==
  /\ InOrder(queue)
  /\ \A b \in ToSet(queue) :
       /\ b.id \in 1 .. Len(reqs)
       /\ b.variant = Len(reqs[b.id].runs) + 1 /\ b.variant <= reqs[b.id].variants
       /\ b.k < Jobs(reqs[b.id].games)
       /\ \A k \in DOMAIN reqs[b.id].run : k < b.k
  /\ \A id \in 1 .. Len(reqs) : Len(reqs[id].runs) < reqs[id].variants =>
       \A k \in 0 .. Jobs(reqs[id].games) - 1 :
         k \in DOMAIN reqs[id].run \/ \E b \in ToSet(queue) : b.id = id /\ b.k = k

\* What is recorded of a battle of variant v: its own outcome, or its loss.
Played(run, v) == \A k \in DOMAIN run : run[k] \in {Outcome(v, k), Lost}

RunsInv ==
  \A id \in 1 .. Len(reqs) :
    /\ Len(reqs[id].runs) <= reqs[id].variants
    /\ Played(reqs[id].run, Len(reqs[id].runs) + 1)
    /\ \A v \in 1 .. Len(reqs[id].runs) :
         /\ DOMAIN reqs[id].runs[v] = 0 .. Jobs(reqs[id].games) - 1
         /\ Played(reqs[id].runs[v], v)

\* A client has sent nothing after the request id.
LastOf(c, id) == \A d \in 1 .. Len(reqs) : reqs[d].client = c => d <= id

AnswerInv ==
  \A c \in Clients :
    /\ call[c] # 0 => reqs[call[c]].client = c /\ LastOf(c, call[c])
    /\ answer[c].kind = "ok" =>
         LET id == answer[c].id IN
         /\ call[c] = 0 /\ id \in 1 .. Len(reqs)
         /\ reqs[id].client = c /\ LastOf(c, id)
         /\ Len(reqs[id].runs) = reqs[id].variants
         /\ answer[c].report =
              [i \in DOMAIN reqs[id].runs |-> Report(reqs[id].runs[i], reqs[id].runs[1])]

CallsInv == TypeInv /\ QueueInv /\ RunsInv /\ AnswerInv

-----------------------------------------------------------------------------
(* Opponents and jobs.                                                      *)

\* Some opponent is legal, and the jobs are played against legal ones.
LEMMA OpponentFacts ==
  /\ Len(LegalOpponents) \in Nat \ {0}
  /\ \A k \in Nat : OpponentOf(k) \in Legal
<1> DEFINE S == ToSet(Opponents)
           D == {i \in DOMAIN Opponents : Opponents[i] \in Legal}
           n == Cardinality(D)
<1>1. Opponents \in Seq(S) /\ D \in SUBSET (1 .. Len(Opponents))
  BY OpponentsAssumption, LenProperties
<1>2. /\ LegalOpponents = Select(Opponents, D) /\ Len(LegalOpponents) = n /\ n \in Nat
      /\ \A k \in 1 .. n : Nth(D, k) \in D /\ LegalOpponents[k] = Opponents[Nth(D, k)]
      /\ \A i \in D : \E k \in 1 .. n : LegalOpponents[k] = Opponents[i]
  <2> HIDE DEF S, D
  <2> QED BY <1>1, SelectProperties DEF LegalOpponents, D
<1>3. \E i \in D : TRUE
  BY OpponentsAssumption DEF ToSet
<1> HIDE DEF n
<1>4. n # 0
  <2>1. PICK i \in D : TRUE
    BY <1>3
  <2>2. PICK k \in 1 .. n : LegalOpponents[k] = Opponents[i]
    BY <1>2
  <2> QED BY <1>2, <2>2
<1>5. ASSUME NEW k \in Nat PROVE OpponentOf(k) \in Legal
  <2>1. (k % n) + 1 \in 1 .. n
    BY <1>2, <1>4
  <2>2. Nth(D, (k % n) + 1) \in D
    BY <1>2, <2>1
  <2> QED BY <1>2, <2>1, <2>2 DEF OpponentOf
<1> QED BY <1>2, <1>4, <1>5

LEMMA OutcomeType == \A v, k : Outcome(v, k) \in {0, 1}
  BY DEF Outcome

LEMMA JobsType == \A g \in 1 .. MaxGames : Jobs(g) \in Nat \ {0}
<1> DEFINE n == Len(LegalOpponents)
<1>1. n \in Nat \ {0}
  BY OpponentFacts
<1> HIDE DEF n
<1>2. ASSUME NEW g \in 1 .. MaxGames
      PROVE  g * n \in Nat \ {0}
  <2>1. g \in Nat \ {0}
    BY BoundsAssumption
  <2> QED BY <1>1, <2>1
<1> QED BY <1>2 DEF Jobs, n

-----------------------------------------------------------------------------
(* The queue.                                                               *)

\* The battles of a run.
Entered(id, v, n) == {[id |-> id, variant |-> v, k |-> k] : k \in 0 .. n - 1}

LEMMA RunQueued ==
  ASSUME NEW q \in Seq(Battle), InOrder(q), NEW id \in Nat, NEW v \in Nat,
         NEW g \in 1 .. MaxGames, \A b \in ToSet(q) : b.id # id
  PROVE  /\ q \o Run(id, v, g) \in Seq(Battle) /\ InOrder(q \o Run(id, v, g))
         /\ ToSet(q \o Run(id, v, g)) = ToSet(q) \cup Entered(id, v, Jobs(g))
<1> DEFINE n == Jobs(g)
           r == Run(id, v, g)
           p == q \o r
           l == Len(q)
<1>1. n \in Nat
  BY JobsType
<1>2. /\ r = [k \in 1 .. n |-> [id |-> id, variant |-> v, k |-> k - 1]]
      /\ r \in Seq(Battle) /\ Len(r) = n
  <2>1. r = [k \in 1 .. n |-> [id |-> id, variant |-> v, k |-> k - 1]]
    BY DEF Run
  <2>2. \A k \in 1 .. n : k - 1 \in Nat
    BY <1>1
  <2> HIDE DEF r, n
  <2>3. \A k \in 1 .. n : [id |-> id, variant |-> v, k |-> k - 1] \in Battle
    BY <2>2 DEF Battle
  <2> QED BY <1>1, <2>1, <2>3
<1> HIDE DEF n, r
<1>3. /\ p \in Seq(Battle) /\ l \in Nat /\ Len(p) = l + n
      /\ \A i \in 1 .. l : p[i] = q[i]
      /\ \A k \in 1 .. n : p[l + k] = r[k]
  BY <1>1, <1>2, ConcatProperties, LenProperties
<1>4. DOMAIN p = 1 .. l + n /\ DOMAIN q = 1 .. l
  BY <1>3, LenProperties
<1> HIDE DEF p, l
<1>5. \A i \in 1 .. l : p[i] \in ToSet(q)
  BY <1>3, <1>4 DEF ToSet
<1>6. ASSUME NEW i \in l + 1 .. l + n
      PROVE  i - l \in 1 .. n /\ p[i] = [id |-> id, variant |-> v, k |-> i - l - 1]
  <2>1. i - l \in 1 .. n /\ l + (i - l) = i
    BY <1>1, <1>3
  <2>2. p[i] = r[i - l]
    BY <1>3, <2>1
  <2> QED BY <1>2, <2>1, <2>2
<1>7. InOrder(p)
  <2> SUFFICES ASSUME NEW i \in 1 .. l + n, NEW j \in 1 .. l + n, i < j, p[i].id = p[j].id
               PROVE  p[i].k < p[j].k
    BY <1>4 DEF InOrder
  <2>1. (i \in 1 .. l \/ i \in l + 1 .. l + n) /\ (j \in 1 .. l \/ j \in l + 1 .. l + n)
    BY <1>1, <1>3
  <2>2. CASE i \in 1 .. l /\ j \in 1 .. l
    BY <1>3, <1>4, <2>2 DEF InOrder
  <2>3. CASE i \in 1 .. l /\ j \in l + 1 .. l + n
    <3>1. p[i].id # id
      BY <1>5, <2>3
    <3>2. p[j].id = id
      <4>1. p[j] = [id |-> id, variant |-> v, k |-> j - l - 1]
        BY <1>6, <2>3
      <4> QED BY <4>1
    <3> QED BY <3>1, <3>2
  <2>4. CASE i \in l + 1 .. l + n /\ j \in l + 1 .. l + n
    <3>1. p[i].k = i - l - 1 /\ p[j].k = j - l - 1
      <4>1. /\ p[i] = [id |-> id, variant |-> v, k |-> i - l - 1]
            /\ p[j] = [id |-> id, variant |-> v, k |-> j - l - 1]
        BY <1>6, <2>4
      <4> QED BY <4>1
    <3> QED BY <1>1, <1>3, <3>1
  <2>5. CASE i \in l + 1 .. l + n /\ j \in 1 .. l
    BY <1>1, <1>3, <2>5
  <2> QED BY <2>1, <2>2, <2>3, <2>4, <2>5
<1>8. ToSet(p) \subseteq ToSet(q) \cup Entered(id, v, n)
  <2> SUFFICES ASSUME NEW i \in 1 .. l + n
               PROVE  p[i] \in ToSet(q) \cup Entered(id, v, n)
    BY <1>4 DEF ToSet
  <2>1. CASE i \in 1 .. l
    BY <1>5, <2>1
  <2>2. CASE i \in l + 1 .. l + n
    <3>1. i - l - 1 \in 0 .. n - 1
      BY <1>1, <1>3, <2>2
    <3> QED BY <1>6, <2>2, <3>1 DEF Entered
  <2> QED BY <1>1, <1>3, <2>1, <2>2
<1>9. ASSUME NEW i \in 1 .. l PROVE q[i] \in ToSet(p)
  <2>1. i \in 1 .. l + n
    BY <1>1, <1>3
  <2> QED BY <1>3, <1>4, <2>1 DEF ToSet
<1>10. ASSUME NEW k \in 0 .. n - 1
       PROVE  [id |-> id, variant |-> v, k |-> k] \in ToSet(p)
  <2>1. /\ l + (k + 1) \in l + 1 .. l + n /\ l + (k + 1) \in 1 .. l + n
        /\ l + (k + 1) - l - 1 = k
    BY <1>1, <1>3
  <2>2. p[l + (k + 1)] = [id |-> id, variant |-> v, k |-> k]
    <3> DEFINE i == l + (k + 1)
    <3>1. i \in l + 1 .. l + n /\ i - l - 1 = k
      BY <1>1, <1>3, <2>1
    <3> HIDE DEF i
    <3>2. p[i] = [id |-> id, variant |-> v, k |-> i - l - 1]
      BY <1>6, <3>1
    <3>3. p[i] = [id |-> id, variant |-> v, k |-> k]
      BY <3>1, <3>2
    <3> QED BY <3>3 DEF i
  <2> QED BY <1>4, <2>1, <2>2 DEF ToSet
<1>11. ToSet(q) \cup Entered(id, v, n) \subseteq ToSet(p)
  BY <1>4, <1>9, <1>10 DEF ToSet, Entered
<1> QED BY <1>3, <1>7, <1>8, <1>11 DEF p, r, n

LEMMA HeadPlayed ==
  ASSUME NEW q \in Seq(Battle), q # <<>>, InOrder(q)
  PROVE  /\ Head(q) \in Battle /\ Tail(q) \in Seq(Battle) /\ InOrder(Tail(q))
         /\ ToSet(q) = {Head(q)} \cup ToSet(Tail(q))
         /\ \A b \in ToSet(Tail(q)) : b.id = Head(q).id => Head(q).k < b.k
<1> DEFINE t == Tail(q)
           n == Len(q)
<1>1. /\ Head(q) \in Battle /\ Head(q) = q[1] /\ t \in Seq(Battle) /\ n \in Nat /\ n # 0
      /\ Len(t) = n - 1 /\ \A i \in 1 .. n - 1 : t[i] = q[i + 1]
  BY HeadTailProperties, LenProperties, EmptySeq
<1>2. DOMAIN t = 1 .. n - 1 /\ DOMAIN q = 1 .. n
  BY <1>1, LenProperties
<1> HIDE DEF t, n
<1>3. \A i \in 1 .. n - 1 : i + 1 \in 1 .. n /\ 1 \in 1 .. n /\ 1 < i + 1
  BY <1>1
<1>4. InOrder(t)
  <2> SUFFICES ASSUME NEW i \in 1 .. n - 1, NEW j \in 1 .. n - 1, i < j, t[i].id = t[j].id
               PROVE  t[i].k < t[j].k
    BY <1>2 DEF InOrder
  <2>1. i + 1 < j + 1
    BY <1>1
  <2> QED BY <1>1, <1>2, <1>3, <2>1 DEF InOrder
<1>5. \A i \in 1 .. n : i = 1 \/ (i - 1 \in 1 .. n - 1 /\ i - 1 + 1 = i)
  BY <1>1
<1>6. \A i \in 1 .. n : q[i] = q[1] \/ q[i] \in ToSet(t)
  BY ZenonT(60), <1>1, <1>2, <1>5 DEF ToSet
<1>7. ToSet(q) = {Head(q)} \cup ToSet(t)
  <2>1. ToSet(q) \subseteq {Head(q)} \cup ToSet(t)
    BY <1>1, <1>2, <1>6 DEF ToSet
  <2>2. 1 \in 1 .. n
    BY <1>1
  <2>3. {Head(q)} \cup ToSet(t) \subseteq ToSet(q)
    BY <1>1, <1>2, <1>3, <2>2 DEF ToSet
  <2> QED BY <2>1, <2>3
<1>8. ASSUME NEW i \in 1 .. n - 1, t[i].id = Head(q).id
      PROVE  Head(q).k < t[i].k
  BY <1>1, <1>2, <1>3, <1>8 DEF InOrder
<1> QED BY <1>1, <1>2, <1>4, <1>7, <1>8 DEF t, ToSet

-----------------------------------------------------------------------------
(* The requests.                                                            *)

\* What a step does to the one request it is about.
Updated(rs, id, runs, run) == [rs EXCEPT ![id].runs = runs, ![id].run = run]

LEMMA RequestUpdated ==
  ASSUME NEW rs \in Seq(Request), NEW id \in 1 .. Len(rs),
         NEW runs \in Seq(Recorded), NEW run \in Recorded
  PROVE  LET ns == Updated(rs, id, runs, run)
         IN  /\ ns \in Seq(Request) /\ Len(ns) = Len(rs)
             /\ \A d \in 1 .. Len(rs) : d # id => ns[d] = rs[d]
             /\ ns[id].runs = runs /\ ns[id].run = run
             /\ ns[id].client = rs[id].client /\ ns[id].variants = rs[id].variants
             /\ ns[id].games = rs[id].games
<1> DEFINE new == [rs[id] EXCEPT !.runs = runs, !.run = run]
           ns == Updated(rs, id, runs, run)
           n == Len(rs)
<1>1. n \in Nat /\ rs \in [1 .. n -> Request] /\ rs[id] \in Request
  BY LenProperties, ElementOfSeq
<1>2. /\ new \in Request /\ new.runs = runs /\ new.run = run
      /\ new.client = rs[id].client /\ new.variants = rs[id].variants
      /\ new.games = rs[id].games
  BY <1>1 DEF Request
<1>3. ns = [rs EXCEPT ![id] = new]
  BY <1>1 DEF Updated, Request
<1> HIDE DEF new, ns
<1>4. ns \in [1 .. n -> Request] /\ ns[id] = new /\ \A d \in 1 .. n : d # id => ns[d] = rs[d]
  BY <1>1, <1>2, <1>3
<1>5. ns \in Seq(Request) /\ Len(ns) = n
  BY <1>1, <1>4
<1> QED BY <1>2, <1>4, <1>5 DEF ns, new

\* What the parts of a request are.
LEMMA RequestParts ==
  ASSUME NEW r \in Request
  PROVE  /\ r.client \in Clients /\ r.games \in 1 .. MaxGames
         /\ r.variants \in Nat \ {0}
         /\ r.runs \in Seq(Recorded) /\ Len(r.runs) \in Nat /\ r.run \in Recorded
         /\ Jobs(r.games) \in Nat \ {0}
<1>1. /\ r.client \in Clients /\ r.games \in 1 .. MaxGames /\ r.variants \in 1 .. MaxVariants
      /\ r.runs \in Seq(Recorded) /\ r.run \in Recorded
  BY DEF Request
<1>2. r.variants \in Nat \ {0}
  BY <1>1, BoundsAssumption
<1> QED BY <1>1, <1>2, JobsType, LenProperties

LEMMA RecordedAt ==
  ASSUME NEW n \in Nat, NEW f \in [0 .. n - 1 -> {0, 1, Lost}]
  PROVE  f \in Recorded
  BY DEF Recorded

LEMMA NoneRecorded == [k \in {} |-> 0] \in Recorded
<1>1. 0 .. 0 - 1 = {}
  OBVIOUS
<1>2. [k \in {} |-> 0] \in [0 .. 0 - 1 -> {0, 1, Lost}]
  BY <1>1
<1>3. 0 \in Nat
  OBVIOUS
<1> QED BY <1>2, <1>3, RecordedAt

-----------------------------------------------------------------------------
(* The initial state.                                                       *)

LEMMA CallsInit == Init => CallsInv
<1> SUFFICES ASSUME Init PROVE CallsInv
  OBVIOUS
<1>1. reqs = <<>> /\ queue = <<>> /\ Len(reqs) = 0 /\ ToSet(queue) = {} /\ DOMAIN queue = {}
  BY DEF Init, ToSet
<1>2. /\ \A c \in Clients : call[c] = 0 /\ answer[c].kind = "none"
      /\ DOMAIN call = Clients /\ DOMAIN answer = Clients
      /\ call \in [Clients -> {0}] /\ answer = [c \in Clients |-> NoAnswer]
  BY DEF Init, NoAnswer
<1>3. TypeInv
  <2>1. reqs \in Seq(Request) /\ queue \in Seq(Battle)
    BY <1>1
  <2>2. call \in [Clients -> 0 .. Len(reqs)]
    BY <1>1, <1>2
  <2>3. DOMAIN answer = Clients /\ answer = [c \in Clients |-> answer[c]]
    BY <1>2
  <2>4. age \in [Clients -> Nat] /\ alone \in [Clients -> BOOLEAN]
    BY DEF Init
  <2> QED BY <1>2, <2>1, <2>2, <2>3, <2>4 DEF TypeInv
<1>4. \A id : id \notin 1 .. Len(reqs)
  BY <1>1
<1>5. QueueInv
  BY <1>1, <1>4 DEF QueueInv, InOrder
<1>6. RunsInv
  BY <1>4 DEF RunsInv
<1>7. AnswerInv
  BY <1>2 DEF AnswerInv
<1> QED BY <1>3, <1>5, <1>6, <1>7 DEF CallsInv

-----------------------------------------------------------------------------
(* A client calls.                                                          *)

LEMMA SendStep ==
  ASSUME CallsInv, NEW c \in Clients, call[c] = 0,
         NEW variants \in 1 .. MaxVariants, NEW games \in 1 .. MaxGames,
         Send(c, variants, games)
  PROVE  CallsInv'
<1> DEFINE n == Len(reqs)
           id == n + 1
           new == [client |-> c, variants |-> variants, games |-> games,
                   runs |-> <<>>, run |-> [k \in {} |-> 0]]
           g == Jobs(games)
<1>1. /\ reqs \in Seq(Request) /\ queue \in Seq(Battle) /\ call \in [Clients -> 0 .. n]
      /\ DOMAIN answer = Clients /\ answer = [d \in Clients |-> answer[d]]
      /\ n \in Nat /\ id \in Nat /\ id # 0 /\ g \in Nat \ {0} /\ variants \in Nat \ {0}
  <2>1. n \in Nat /\ variants \in Nat \ {0} /\ g \in Nat \ {0}
    BY BoundsAssumption, JobsType, LenProperties DEF CallsInv, TypeInv
  <2> QED BY <2>1 DEF CallsInv, TypeInv
<1>2. /\ reqs' = Append(reqs, new) /\ queue' = queue \o Run(id, 1, games)
      /\ call' = [call EXCEPT ![c] = id] /\ answer' = [answer EXCEPT ![c] = NoAnswer]
  BY DEF Send
<1>3. new \in Request
  BY NoneRecorded DEF Request
<1>4. new.client = c /\ new.games = games /\ new.runs = <<>> /\ Len(new.runs) = 0
      /\ new.variants = variants /\ DOMAIN new.run = {}
  OBVIOUS
<1> HIDE DEF new, g
<1>5. /\ reqs' \in Seq(Request) /\ Len(reqs') = id /\ reqs'[id] = new
      /\ \A d \in 1 .. n : reqs'[d] = reqs[d]
  BY <1>1, <1>2, <1>3, AppendProperties
<1>6. \A d : d \in 1 .. id <=> d \in 1 .. n \/ d = id
  BY <1>1
<1>7. \A b \in ToSet(queue) : b.id \in 1 .. n /\ b.id # id
  <2>1. \A b \in ToSet(queue) : b.id \in 1 .. n
    BY DEF CallsInv, QueueInv
  <2>2. id \notin 1 .. n
    BY <1>1
  <2> QED BY <2>1, <2>2
<1>8. /\ queue' \in Seq(Battle) /\ InOrder(queue')
      /\ ToSet(queue') = ToSet(queue) \cup Entered(id, 1, g)
  <2>1. InOrder(queue)
    BY DEF CallsInv, QueueInv
  <2>2. 1 \in Nat
    OBVIOUS
  <2>3. id \in Nat /\ queue \in Seq(Battle) /\ \A b \in ToSet(queue) : b.id # id
    BY <1>1, <1>7
  <2> HIDE DEF id
  <2>4. LET q == queue \o Run(id, 1, games)
        IN  q \in Seq(Battle) /\ InOrder(q) /\ ToSet(q) = ToSet(queue) \cup Entered(id, 1, Jobs(games))
    BY <2>1, <2>2, <2>3, RunQueued
  <2>5. InOrder(queue') = InOrder(queue \o Run(id, 1, games))
    BY <1>2 DEF InOrder
  <2> QED BY <1>2, <2>4, <2>5 DEF g
<1> HIDE DEF id
<1>9. TypeInv'
  <2>1. call' \in [Clients -> 0 .. id]
    <3>1. \A i \in 0 .. n : i \in 0 .. id
      BY <1>1 DEF id
    <3>2. id \in 0 .. id
      BY <1>1
    <3> QED BY <1>1, <1>2, <3>1, <3>2
  <2>2. DOMAIN answer' = Clients /\ answer' = [d \in Clients |-> answer'[d]]
    BY <1>1, <1>2
  <2>3. age' \in [Clients -> Nat] /\ alone' \in [Clients -> BOOLEAN]
    <3>1. age' = [age EXCEPT ![c] = 0] /\ age \in [Clients -> Nat]
      BY DEF Send, CallsInv, TypeInv
    <3>2. \E s : alone' = [d \in Clients |-> IF d = c THEN s = {} ELSE FALSE]
      BY DEF Send
    <3> QED BY <3>1, <3>2
  <2>4. \A d \in Clients : answer'[d].kind \in {"none", "ok", "refused", "timeout"}
    BY <1>1, <1>2 DEF CallsInv, TypeInv, NoAnswer
  <2> QED BY <1>5, <1>8, <2>1, <2>2, <2>3, <2>4 DEF TypeInv
<1>10. QueueInv'
  <2>1. ASSUME NEW b \in ToSet(queue')
        PROVE  /\ b.id \in 1 .. Len(reqs')
               /\ b.variant = Len(reqs'[b.id].runs) + 1 /\ b.variant <= reqs'[b.id].variants
               /\ b.k < Jobs(reqs'[b.id].games)
               /\ \A k \in DOMAIN reqs'[b.id].run : k < b.k
    <3>1. CASE b \in ToSet(queue)
      <4>1. b.id \in 1 .. n /\ reqs'[b.id] = reqs[b.id] /\ b.id \in 1 .. id
        BY <1>5, <1>6, <1>7, <3>1
      <4>2. /\ b.variant = Len(reqs[b.id].runs) + 1 /\ b.variant <= reqs[b.id].variants
            /\ b.k < Jobs(reqs[b.id].games) /\ \A k \in DOMAIN reqs[b.id].run : k < b.k
        BY <3>1 DEF CallsInv, QueueInv
      <4> QED BY <1>5, <4>1, <4>2
    <3>2. CASE b \in Entered(id, 1, g)
      <4>1. PICK k \in 0 .. g - 1 : b = [id |-> id, variant |-> 1, k |-> k]
        BY <3>2 DEF Entered
      <4>2. b.id = id /\ b.variant = 1 /\ b.k = k
        BY <4>1
      <4>3. k < g
        BY <1>1
      <4>4. 1 = Len(new.runs) + 1 /\ 1 <= new.variants
        BY <1>1, <1>4
      <4> QED BY <1>4, <1>5, <1>6, <4>2, <4>3, <4>4 DEF g
    <3> QED BY <1>8, <3>1, <3>2
  <2>2. ASSUME NEW d \in 1 .. Len(reqs'), Len(reqs'[d].runs) < reqs'[d].variants,
               NEW k \in 0 .. Jobs(reqs'[d].games) - 1
        PROVE  k \in DOMAIN reqs'[d].run \/ \E b \in ToSet(queue') : b.id = d /\ b.k = k
    <3>1. CASE d \in 1 .. n
      <4>1. reqs'[d] = reqs[d]
        BY <1>5, <3>1
      <4>2. k \in DOMAIN reqs[d].run \/ \E b \in ToSet(queue) : b.id = d /\ b.k = k
        BY <2>2, <3>1, <4>1 DEF CallsInv, QueueInv
      <4> QED BY <1>8, <4>1, <4>2
    <3>2. CASE d = id
      <4>1. k \in 0 .. g - 1
        BY <1>4, <1>5, <3>2 DEF g
      <4>2. [id |-> id, variant |-> 1, k |-> k] \in ToSet(queue')
        BY <1>8, <4>1 DEF Entered
      <4>3. /\ [id |-> id, variant |-> 1, k |-> k].id = d
            /\ [id |-> id, variant |-> 1, k |-> k].k = k
        BY <3>2
      <4> QED BY <4>2, <4>3
    <3> QED BY <1>5, <1>6, <3>1, <3>2
  <2> QED BY <1>8, <2>1, <2>2 DEF QueueInv
<1>11. RunsInv'
  <2> SUFFICES ASSUME NEW d \in 1 .. Len(reqs')
               PROVE  /\ Len(reqs'[d].runs) <= reqs'[d].variants
                      /\ Played(reqs'[d].run, Len(reqs'[d].runs) + 1)
                      /\ \A v \in 1 .. Len(reqs'[d].runs) :
                           /\ DOMAIN reqs'[d].runs[v] = 0 .. Jobs(reqs'[d].games) - 1
                           /\ Played(reqs'[d].runs[v], v)
    BY DEF RunsInv, Played
  <2>1. CASE d \in 1 .. n
    BY <1>5, <2>1 DEF CallsInv, RunsInv
  <2>2. CASE d = id
    <3>1. \A v : v \notin 1 .. Len(new.runs)
      BY <1>4
    <3>2. Len(new.runs) <= new.variants
      BY <1>1, <1>4
    <3> QED BY <1>4, <1>5, <2>2, <3>1, <3>2 DEF Played
  <2> QED BY <1>5, <1>6, <2>1, <2>2
<1>12. AnswerInv'
  <2> SUFFICES ASSUME NEW d \in Clients
               PROVE  /\ call'[d] # 0 => reqs'[call'[d]].client = d /\ LastOf(d, call[d])'
                      /\ answer'[d].kind = "ok" =>
                           LET i == answer'[d].id IN
                           /\ call'[d] = 0 /\ i \in 1 .. Len(reqs')
                           /\ reqs'[i].client = d /\ LastOf(d, answer[d].id)'
                           /\ Len(reqs'[i].runs) = reqs'[i].variants
                           /\ answer'[d].report =
                                [j \in DOMAIN reqs'[i].runs |->
                                   Report(reqs'[i].runs[j], reqs'[i].runs[1])]
    BY DEF AnswerInv, LastOf
  <2>1. CASE d = c
    <3>1. call'[d] = id /\ answer'[d] = NoAnswer
      BY <1>1, <1>2, <2>1
    <3>2. answer'[d].kind # "ok"
      BY <3>1 DEF NoAnswer
    <3>3. \A e \in 1 .. id : e <= id
      BY <1>1
    <3> QED BY <1>4, <1>5, <2>1, <3>1, <3>2, <3>3 DEF LastOf
  <2>2. CASE d # c
    <3>1. call'[d] = call[d] /\ answer'[d] = answer[d] /\ call[d] \in 0 .. n
      BY <1>1, <1>2, <2>2
    <3>2. ASSUME NEW e, LastOf(d, e)
          PROVE  \A f \in 1 .. Len(reqs') : reqs'[f].client = d => f <= e
      BY <1>4, <1>5, <1>6, <2>2, <3>2 DEF LastOf
    <3>3. call[d] # 0 => call[d] \in 1 .. n
      BY <1>1, <3>1
    <3>4. /\ call[d] # 0 => reqs[call[d]].client = d /\ LastOf(d, call[d])
          /\ answer[d].kind = "ok" =>
               /\ call[d] = 0 /\ answer[d].id \in 1 .. n
               /\ reqs[answer[d].id].client = d /\ LastOf(d, answer[d].id)
               /\ Len(reqs[answer[d].id].runs) = reqs[answer[d].id].variants
               /\ answer[d].report =
                    [j \in DOMAIN reqs[answer[d].id].runs |->
                       Report(reqs[answer[d].id].runs[j], reqs[answer[d].id].runs[1])]
      BY DEF CallsInv, AnswerInv
    <3>5. ASSUME call[d] # 0
          PROVE  reqs'[call[d]].client = d /\ LastOf(d, call[d])'
      <4>1. reqs'[call[d]] = reqs[call[d]] /\ LastOf(d, call[d])
        BY <1>5, <3>3, <3>4, <3>5
      <4> QED BY <3>1, <3>2, <3>4, <3>5, <4>1 DEF LastOf
    <3>6. ASSUME answer[d].kind = "ok"
          PROVE  /\ answer[d].id \in 1 .. Len(reqs') /\ reqs'[answer[d].id] = reqs[answer[d].id]
                 /\ LastOf(d, answer[d].id)'
      <4>1. answer[d].id \in 1 .. n /\ LastOf(d, answer[d].id)
        BY <3>4, <3>6
      <4>2. \A f \in 1 .. Len(reqs') : reqs'[f].client = d => f <= answer[d].id
        BY <3>2, <4>1
      <4> QED BY <1>5, <1>6, <3>1, <4>1, <4>2 DEF LastOf
    <3> QED BY <3>1, <3>4, <3>5, <3>6
  <2> QED BY <2>1, <2>2
<1> QED BY <1>9, <1>10, <1>11, <1>12 DEF CallsInv

-----------------------------------------------------------------------------
(* A battle is over.                                                        *)

\* What the first battle of the queue leaves its run with.
RunWith(b, r, lost) ==
  [k \in 0 .. b.k |-> IF k < b.k THEN r.run[k]
                      ELSE IF lost THEN Lost ELSE Outcome(b.variant, k)]

\* It is the one its run waits for: all battles before it are recorded.
LEMMA NextBattle ==
  ASSUME CallsInv, queue # <<>>, NEW lost \in BOOLEAN
  PROVE  LET b == Head(queue)
             r == reqs[b.id]
             run == RunWith(b, r, lost)
         IN  /\ b \in Battle /\ b.id \in 1 .. Len(reqs) /\ b.k < Jobs(r.games)
             /\ b.variant = Len(r.runs) + 1 /\ b.variant <= r.variants
             /\ run \in Recorded /\ DOMAIN run = 0 .. b.k /\ Played(run, b.variant)
             /\ DOMAIN r.run \subseteq 0 .. b.k
<1> DEFINE b == Head(queue)
           r == reqs[b.id]
           run == RunWith(b, r, lost)
           n == Jobs(r.games)
<1>1. /\ b \in Battle /\ ToSet(queue) = {b} \cup ToSet(Tail(queue))
      /\ \A x \in ToSet(Tail(queue)) : x.id = b.id => b.k < x.k
  BY HeadPlayed DEF CallsInv, TypeInv, QueueInv
<1>2. /\ b.id \in 1 .. Len(reqs) /\ b.variant = Len(r.runs) + 1 /\ b.variant <= r.variants
      /\ b.k < n /\ \A k \in DOMAIN r.run : k < b.k
  BY <1>1 DEF CallsInv, QueueInv
<1>3. b.k \in Nat /\ r \in Request /\ r.run \in Recorded /\ n \in Nat
  <2>1. b.k \in Nat
    BY <1>1 DEF Battle
  <2>2. r \in Request
    BY <1>2, ElementOfSeq DEF CallsInv, TypeInv
  <2> QED BY <2>1, <2>2, RequestParts
<1>4. Len(r.runs) \in Nat /\ r.variants \in Nat
  BY <1>3, RequestParts
<1>5. Len(r.runs) < r.variants
  BY <1>2, <1>4
<1>6. \A k \in 0 .. n - 1 : k \in DOMAIN r.run \/ \E x \in ToSet(queue) : x.id = b.id /\ x.k = k
  BY <1>2, <1>5 DEF CallsInv, QueueInv
<1> HIDE DEF b, r, n
<1>7. ASSUME NEW k \in 0 .. b.k, k < b.k
      PROVE  k \in DOMAIN r.run
  <2>1. k \in 0 .. n - 1
    BY <1>2, <1>3, <1>7
  <2>2. ASSUME NEW x \in ToSet(queue), x.id = b.id, x.k = k
        PROVE  FALSE
    <3>1. x = b \/ b.k < x.k
      BY <1>1, <2>2
    <3> QED BY <1>3, <1>7, <2>2, <3>1
  <2> QED BY <1>6, <2>1, <2>2
<1>8. PICK m \in Nat : r.run \in [0 .. m - 1 -> {0, 1, Lost}]
  BY <1>3 DEF Recorded
<1>9. \A k \in DOMAIN r.run : r.run[k] \in {0, 1, Lost} /\ k \in 0 .. b.k
  <2>1. \A k \in DOMAIN r.run : r.run[k] \in {0, 1, Lost} /\ k \in Nat
    BY <1>8
  <2> QED BY <1>2, <1>3, <2>1
<1>10. Played(r.run, b.variant)
  BY <1>2 DEF CallsInv, RunsInv, r
<1>11. /\ run = [k \in 0 .. b.k |-> run[k]]
       /\ \A k \in 0 .. b.k : run[k] \in {0, 1, Lost} /\ run[k] \in {Outcome(b.variant, k), Lost}
  <2>1. run = [k \in 0 .. b.k |-> IF k < b.k THEN r.run[k]
                                  ELSE IF lost THEN Lost ELSE Outcome(b.variant, k)]
    BY DEF RunWith
  <2> HIDE DEF run
  <2>2. ASSUME NEW k \in 0 .. b.k
        PROVE  run[k] \in {0, 1, Lost} /\ run[k] \in {Outcome(b.variant, k), Lost}
    <3>1. CASE k < b.k
      BY <1>7, <1>9, <1>10, <2>1, <3>1 DEF Played
    <3>2. CASE ~(k < b.k)
      BY <2>1, <3>2, OutcomeType
    <3> QED BY <3>1, <3>2
  <2> QED BY <2>1, <2>2
<1> HIDE DEF run
<1>12. run \in Recorded /\ DOMAIN run = 0 .. b.k
  <2>1. run \in [0 .. (b.k + 1) - 1 -> {0, 1, Lost}]
    <3>1. (b.k + 1) - 1 = b.k
      BY <1>3
    <3> QED BY <1>11, <3>1
  <2>2. b.k + 1 \in Nat
    BY <1>3
  <2> QED BY <1>11, <2>1, <2>2, RecordedAt
<1>13. Played(run, b.variant)
  BY SMTT(30), <1>11, <1>12 DEF Played
<1> QED BY <1>1, <1>2, <1>9, <1>12, <1>13 DEF b, r, run, n

LEMMA PlayStep ==
  ASSUME CallsInv, NEW lost \in BOOLEAN, Play(lost)
  PROVE  CallsInv'
<1> DEFINE b == Head(queue)
           r == reqs[b.id]
           run == RunWith(b, r, lost)
           over == b.k = Jobs(r.games) - 1
           runs == IF over THEN Append(r.runs, run) ELSE r.runs
           ended == over /\ Ended(r, b.variant)
           waiting == Waiting(r, b.id)
           left == IF over THEN [k \in {} |-> 0] ELSE run
           n == Len(reqs)
           t == Tail(queue)
           g == Jobs(r.games)
           all == [i \in DOMAIN runs |-> Report(runs[i], runs[1])]
<1>1. /\ queue # <<>> /\ reqs' = Updated(reqs, b.id, runs, left)
      /\ queue' = t \o (IF over /\ ~ended THEN Run(b.id, b.variant + 1, r.games) ELSE <<>>)
      /\ call' = (IF ended /\ waiting THEN [call EXCEPT ![r.client] = 0] ELSE call)
      /\ answer' = (IF ended /\ waiting
                    THEN [answer EXCEPT ![r.client] = [kind |-> "ok", id |-> b.id, report |-> all]]
                    ELSE answer)
  BY ZenonT(60) DEF Play, Updated, RunWith
<1>2. /\ b \in Battle /\ b.id \in 1 .. n /\ b.k < g
      /\ b.variant = Len(r.runs) + 1 /\ b.variant <= r.variants
      /\ run \in Recorded /\ DOMAIN run = 0 .. b.k /\ Played(run, b.variant)
      /\ DOMAIN r.run \subseteq 0 .. b.k
  BY ZenonT(60), <1>1, NextBattle
<1>3. /\ t \in Seq(Battle) /\ InOrder(t) /\ ToSet(queue) = {b} \cup ToSet(t)
      /\ \A x \in ToSet(t) : x.id = b.id => b.k < x.k
  BY <1>1, HeadPlayed DEF CallsInv, TypeInv, QueueInv
<1>4. b.k \in Nat /\ b.id \in Nat /\ b.id # 0 /\ r \in Request /\ reqs \in Seq(Request) /\ n \in Nat
  <2>1. b.k \in Nat /\ b.id \in Nat
    BY <1>2 DEF Battle
  <2>2. reqs \in Seq(Request) /\ n \in Nat
    BY LenProperties DEF CallsInv, TypeInv
  <2>3. r \in Request
    BY <1>2, <2>2, ElementOfSeq
  <2> QED BY <1>2, <2>1, <2>2, <2>3
<1>5. /\ r.client \in Clients /\ r.games \in 1 .. MaxGames /\ r.variants \in Nat \ {0}
      /\ r.runs \in Seq(Recorded) /\ Len(r.runs) \in Nat /\ r.run \in Recorded /\ g \in Nat \ {0}
  BY <1>4, RequestParts
<1>6. /\ runs \in Seq(Recorded) /\ left \in Recorded
      /\ over => /\ Len(runs) = b.variant /\ runs[b.variant] = run
                 /\ \A v \in 1 .. Len(r.runs) : runs[v] = r.runs[v]
      /\ ~over => runs = r.runs
  <2> HIDE DEF b, r, run, over
  <2> QED BY <1>2, <1>5, AppendProperties, NoneRecorded
<1> HIDE DEF b, r, run, over, runs, left, n, t, g
<1>7. /\ reqs' \in Seq(Request) /\ Len(reqs') = n
      /\ \A d \in 1 .. n : d # b.id => reqs'[d] = reqs[d]
      /\ reqs'[b.id].runs = runs /\ reqs'[b.id].run = left
      /\ reqs'[b.id].client = r.client /\ reqs'[b.id].variants = r.variants
      /\ reqs'[b.id].games = r.games
  <2>1. reqs' = Updated(reqs, b.id, runs, left)
    BY <1>1
  <2>2. LET ns == Updated(reqs, b.id, runs, left)
        IN  /\ ns \in Seq(Request) /\ Len(ns) = Len(reqs)
            /\ \A d \in 1 .. Len(reqs) : d # b.id => ns[d] = reqs[d]
            /\ ns[b.id].runs = runs /\ ns[b.id].run = left
            /\ ns[b.id].client = reqs[b.id].client /\ ns[b.id].variants = reqs[b.id].variants
            /\ ns[b.id].games = reqs[b.id].games
    <3>1. b.id \in 1 .. Len(reqs)
      BY <1>2 DEF n
    <3>2. \A i \in 1 .. Len(reqs) : LET ns == Updated(reqs, i, runs, left)
            IN  /\ ns \in Seq(Request) /\ Len(ns) = Len(reqs)
                /\ \A d \in 1 .. Len(reqs) : d # i => ns[d] = reqs[d]
                /\ ns[i].runs = runs /\ ns[i].run = left
                /\ ns[i].client = reqs[i].client /\ ns[i].variants = reqs[i].variants
                /\ ns[i].games = reqs[i].games
      <4>1. reqs \in Seq(Request) /\ runs \in Seq(Recorded) /\ left \in Recorded
        BY <1>4, <1>6
      <4> QED BY <4>1, RequestUpdated
    <3> QED BY <3>1, <3>2
  <2> QED BY <2>1, <2>2 DEF r, n
<1>8. over => \A x \in ToSet(t) : x.id # b.id
  <2> SUFFICES ASSUME over, NEW x \in ToSet(t), x.id = b.id
               PROVE  FALSE
    OBVIOUS
  <2>1. b.k < x.k /\ x.k < g
    <3>1. x.k < Jobs(reqs[x.id].games)
      BY <1>3 DEF CallsInv, QueueInv
    <3> QED BY <1>3, <3>1 DEF g, r
  <2>2. x.k \in Nat
    <3>1. x \in Battle
      BY <1>3 DEF ToSet
    <3> QED BY <3>1 DEF Battle
  <2>3. b.k = g - 1
    BY DEF over, g
  <2> QED BY <1>4, <1>5, <2>1, <2>2, <2>3
<1>9. /\ queue' \in Seq(Battle) /\ InOrder(queue')
      /\ over /\ ~ended => ToSet(queue') = ToSet(t) \cup Entered(b.id, b.variant + 1, g)
      /\ ~(over /\ ~ended) => ToSet(queue') = ToSet(t)
  <2>1. CASE over /\ ~ended
    <3>1. b.variant + 1 \in Nat
      BY <1>2, <1>5
    <3>2. LET q == t \o Run(b.id, b.variant + 1, r.games)
          IN  q \in Seq(Battle) /\ InOrder(q)
              /\ ToSet(q) = ToSet(t) \cup Entered(b.id, b.variant + 1, Jobs(r.games))
      <4>1. \A x \in ToSet(t) : x.id # b.id
        BY <1>8, <2>1
      <4>2. /\ t \in Seq(Battle) /\ InOrder(t) /\ b.id \in Nat
            /\ r.games \in 1 .. MaxGames
        BY <1>3, <1>4, <1>5
      <4>3. \A i, v \in Nat, h \in 1 .. MaxGames :
              (\A x \in ToSet(t) : x.id # i) =>
                LET q == t \o Run(i, v, h)
                IN  /\ q \in Seq(Battle) /\ InOrder(q)
                    /\ ToSet(q) = ToSet(t) \cup Entered(i, v, Jobs(h))
        BY <4>2, RunQueued
      <4> QED BY <3>1, <4>1, <4>2, <4>3
    <3>3. queue' = t \o Run(b.id, b.variant + 1, r.games)
      BY <1>1, <2>1
    <3>4. InOrder(queue') = InOrder(t \o Run(b.id, b.variant + 1, r.games))
      BY <3>3 DEF InOrder
    <3> QED BY <2>1, <3>2, <3>3, <3>4 DEF g
  <2>2. CASE ~(over /\ ~ended)
    <3>1. queue' = t
      BY <1>1, <1>3, <2>2, ConcatEmptySeq
    <3>2. InOrder(queue') = InOrder(t)
      BY <3>1 DEF InOrder
    <3> QED BY <1>3, <2>2, <3>1, <3>2
  <2> QED BY <2>1, <2>2
<1>10. ended <=> over /\ b.variant = r.variants
  BY DEF Ended
<1> HIDE DEF ended, waiting, all
<1>11. call \in [Clients -> 0 .. n] /\ DOMAIN answer = Clients /\ answer = [c \in Clients |-> answer[c]]
  BY DEF CallsInv, TypeInv, n
<1>12. TypeInv'
  <2>1. call' \in [Clients -> 0 .. n]
    <3>1. 0 \in 0 .. n
      BY <1>4
    <3> QED BY <1>1, <1>5, <1>11, <3>1
  <2>2. DOMAIN answer' = Clients /\ answer' = [c \in Clients |-> answer'[c]]
    BY SMTT(30), <1>1, <1>11
  <2>3. age' \in [Clients -> Nat] /\ alone' \in [Clients -> BOOLEAN]
    <3>1. /\ age' = [c \in Clients |-> IF call'[c] # 0 THEN age[c] + 1 ELSE age[c]]
          /\ alone' = alone
      BY DEF Play
    <3>2. age \in [Clients -> Nat] /\ alone \in [Clients -> BOOLEAN]
      BY DEF CallsInv, TypeInv
    <3> QED BY SMTT(30), <3>1, <3>2
  <2>4. \A c \in Clients : answer'[c].kind \in {"none", "ok", "refused", "timeout"}
    <3>1. \A c \in Clients : answer[c].kind \in {"none", "ok", "refused", "timeout"}
      BY DEF CallsInv, TypeInv
    <3> QED BY <1>1, <1>5, <1>11, <3>1
  <2> QED BY <1>7, <1>9, <2>1, <2>2, <2>3, <2>4 DEF TypeInv
<1>13. QueueInv'
  <2>1. ASSUME NEW x \in ToSet(queue')
        PROVE  /\ x.id \in 1 .. Len(reqs')
               /\ x.variant = Len(reqs'[x.id].runs) + 1 /\ x.variant <= reqs'[x.id].variants
               /\ x.k < Jobs(reqs'[x.id].games)
               /\ \A k \in DOMAIN reqs'[x.id].run : k < x.k
    <3>1. CASE x \in ToSet(t)
      <4>1. /\ x.id \in 1 .. n
            /\ x.variant = Len(reqs[x.id].runs) + 1 /\ x.variant <= reqs[x.id].variants
            /\ x.k < Jobs(reqs[x.id].games) /\ \A k \in DOMAIN reqs[x.id].run : k < x.k
        BY <1>3, <3>1 DEF CallsInv, QueueInv, n
      <4>2. CASE x.id # b.id
        BY <1>7, <4>1, <4>2
      <4>3. CASE x.id = b.id
        <5>1. ~over /\ runs = r.runs /\ left = run
          BY <1>6, <1>8, <3>1, <4>3 DEF left
        <5>2. b.k < x.k /\ x.k \in Nat
          <6>1. x \in Battle
            BY <1>3, <3>1 DEF ToSet
          <6> QED BY <1>3, <3>1, <4>3, <6>1 DEF Battle
        <5>3. \A k \in 0 .. b.k : k < x.k
          BY <1>4, <5>2
        <5> QED BY <1>2, <1>7, <4>1, <4>3, <5>1, <5>3 DEF r
      <4> QED BY <4>2, <4>3
    <3>2. CASE over /\ ~ended /\ x \in Entered(b.id, b.variant + 1, g)
      <4>1. PICK k \in 0 .. g - 1 : x = [id |-> b.id, variant |-> b.variant + 1, k |-> k]
        BY <3>2 DEF Entered
      <4>2. x.id = b.id /\ x.variant = b.variant + 1 /\ x.k = k
        BY <4>1
      <4>3. k < g /\ b.variant + 1 <= r.variants
        BY <1>2, <1>5, <1>10, <3>2
      <4>4. DOMAIN left = {}
        BY <3>2 DEF left
      <4> QED BY <1>2, <1>6, <1>7, <3>2, <4>2, <4>3, <4>4 DEF g
    <3> QED BY <1>9, <3>1, <3>2
  <2>2. ASSUME NEW d \in 1 .. Len(reqs'), Len(reqs'[d].runs) < reqs'[d].variants,
               NEW k \in 0 .. Jobs(reqs'[d].games) - 1
        PROVE  k \in DOMAIN reqs'[d].run \/ \E x \in ToSet(queue') : x.id = d /\ x.k = k
    <3>0. d \in 1 .. n /\ \A x \in ToSet(t) : x \in ToSet(queue')
      BY <1>7, <1>9
    <3>1. CASE d # b.id
      <4>1. reqs'[d] = reqs[d]
        BY <1>7, <3>0, <3>1
      <4>2. k \in DOMAIN reqs[d].run \/ \E x \in ToSet(queue) : x.id = d /\ x.k = k
        BY <2>2, <3>0, <4>1 DEF CallsInv, QueueInv, n
      <4> QED BY <1>3, <3>0, <3>1, <4>1, <4>2
    <3>2. CASE d = b.id /\ ~over
      <4>1. left = run /\ DOMAIN left = 0 .. b.k /\ runs = r.runs
        BY <1>2, <1>6, <3>2 DEF left
      <4>2. k \in DOMAIN r.run \/ \E x \in ToSet(queue) : x.id = d /\ x.k = k
        <5>1. Len(r.runs) < r.variants /\ k \in 0 .. Jobs(r.games) - 1
          BY <1>7, <2>2, <3>2, <4>1
        <5> QED BY <1>2, <3>2, <5>1 DEF CallsInv, QueueInv, n, r
      <4>3. CASE k \in DOMAIN r.run
        BY <1>2, <1>7, <3>2, <4>1, <4>3
      <4>4. ASSUME NEW x \in ToSet(queue), x.id = d, x.k = k
            PROVE  k \in DOMAIN left \/ x \in ToSet(queue')
        <5>1. CASE x = b
          <6>1. k \in 0 .. b.k
            BY <1>4, <4>4, <5>1
          <6> QED BY <4>1, <6>1
        <5>2. CASE x # b
          BY <1>3, <3>0, <5>2
        <5> QED BY <5>1, <5>2
      <4> QED BY <1>7, <3>2, <4>2, <4>3, <4>4
    <3>3. CASE d = b.id /\ over
      <4>1. b.variant < r.variants
        BY <1>6, <1>7, <2>2, <3>3
      <4>2. ~ended /\ k \in 0 .. g - 1
        <5>1. b.variant \in Nat
          BY <1>2, <1>5
        <5> QED BY <1>5, <1>7, <1>10, <3>3, <4>1, <5>1 DEF g
      <4>3. [id |-> b.id, variant |-> b.variant + 1, k |-> k] \in ToSet(queue')
        BY <1>9, <3>3, <4>2 DEF Entered
      <4>4. /\ [id |-> b.id, variant |-> b.variant + 1, k |-> k].id = d
            /\ [id |-> b.id, variant |-> b.variant + 1, k |-> k].k = k
        BY <3>3
      <4> QED BY <4>3, <4>4
    <3> QED BY <3>1, <3>2, <3>3
  <2> QED BY <1>9, <2>1, <2>2 DEF QueueInv
<1>14. RunsInv'
  <2> SUFFICES ASSUME NEW d \in 1 .. Len(reqs')
               PROVE  /\ Len(reqs'[d].runs) <= reqs'[d].variants
                      /\ Played(reqs'[d].run, Len(reqs'[d].runs) + 1)
                      /\ \A v \in 1 .. Len(reqs'[d].runs) :
                           /\ DOMAIN reqs'[d].runs[v] = 0 .. Jobs(reqs'[d].games) - 1
                           /\ Played(reqs'[d].runs[v], v)
    BY DEF RunsInv, Played
  <2>1. CASE d # b.id
    BY <1>7, <2>1 DEF CallsInv, RunsInv, n
  <2>2. /\ Len(r.runs) <= r.variants /\ Played(r.run, Len(r.runs) + 1)
        /\ \A v \in 1 .. Len(r.runs) : DOMAIN r.runs[v] = 0 .. g - 1 /\ Played(r.runs[v], v)
    BY <1>2 DEF CallsInv, RunsInv, n, r, g
  <2>3. CASE d = b.id /\ ~over
    <3>1. left = run /\ runs = r.runs
      BY <1>6, <2>3 DEF left
    <3> QED BY <1>2, <1>7, <2>2, <2>3, <3>1 DEF g
  <2>4. CASE d = b.id /\ over
    <3>1. Played(left, Len(runs) + 1)
      BY <2>4 DEF left, Played
    <3>2. \A v \in 1 .. Len(runs) : v \in 1 .. Len(r.runs) \/ v = b.variant
      BY <1>2, <1>5, <1>6, <2>4
    <3>3. DOMAIN run = 0 .. g - 1
      BY <1>2, <2>4 DEF over, g
    <3> QED BY ZenonT(60), <1>2, <1>6, <1>7, <2>2, <2>4, <3>1, <3>2, <3>3 DEF g
  <2> QED BY <2>1, <2>3, <2>4
<1>15. \A c, e : LastOf(c, e) <=> \A d \in 1 .. Len(reqs') : reqs'[d].client = c => d <= e
  BY <1>7 DEF LastOf, r, n
<1>16. ASSUME NEW c \in Clients
       PROVE  /\ call[c] # 0 => reqs[call[c]].client = c /\ LastOf(c, call[c])
              /\ answer[c].kind = "ok" =>
                   /\ call[c] = 0 /\ answer[c].id \in 1 .. n
                   /\ reqs[answer[c].id].client = c /\ LastOf(c, answer[c].id)
                   /\ Len(reqs[answer[c].id].runs) = reqs[answer[c].id].variants
                   /\ answer[c].report =
                        [i \in DOMAIN reqs[answer[c].id].runs |->
                           Report(reqs[answer[c].id].runs[i], reqs[answer[c].id].runs[1])]
  BY DEF CallsInv, AnswerInv, n
<1>17. AnswerInv'
  <2> SUFFICES ASSUME NEW c \in Clients
               PROVE  /\ call'[c] # 0 => reqs'[call'[c]].client = c /\ LastOf(c, call[c])'
                      /\ answer'[c].kind = "ok" =>
                           /\ call'[c] = 0 /\ answer'[c].id \in 1 .. Len(reqs')
                           /\ reqs'[answer'[c].id].client = c /\ LastOf(c, answer[c].id)'
                           /\ Len(reqs'[answer'[c].id].runs) = reqs'[answer'[c].id].variants
                           /\ answer'[c].report =
                                [i \in DOMAIN reqs'[answer'[c].id].runs |->
                                   Report(reqs'[answer'[c].id].runs[i], reqs'[answer'[c].id].runs[1])]
    BY DEF AnswerInv, LastOf
  <2>1. CASE ended /\ waiting /\ c = r.client
    <3>1. /\ call'[c] = 0 /\ answer'[c] = [kind |-> "ok", id |-> b.id, report |-> all]
      BY <1>1, <1>11, <2>1
    <3>2. answer'[c].id = b.id /\ answer'[c].report = all
      BY <3>1
    <3>3. LastOf(c, b.id)
      BY <1>4, <1>16, <2>1 DEF waiting, Waiting
    <3>4. LastOf(c, answer[c].id)'
      BY <1>15, <3>2, <3>3 DEF LastOf
    <3>5. Len(runs) = r.variants
      BY <1>6, <1>10, <2>1
    <3>6. all = [i \in DOMAIN runs |-> Report(runs[i], runs[1])]
      BY DEF all
    <3> QED BY <1>2, <1>7, <2>1, <3>1, <3>2, <3>4, <3>5, <3>6
  <2>2. CASE ~(ended /\ waiting /\ c = r.client)
    <3>1. call'[c] = call[c] /\ answer'[c] = answer[c] /\ call[c] \in 0 .. n
      BY <1>1, <1>11, <2>2
    <3>2. ASSUME call[c] # 0
          PROVE  reqs'[call[c]].client = c /\ LastOf(c, call[c])'
      <4>1. call[c] \in 1 .. n /\ reqs'[call[c]].client = reqs[call[c]].client
        BY <1>4, <1>7, <3>1, <3>2 DEF r
      <4> QED BY ZenonT(60), <1>15, <1>16, <3>1, <3>2, <4>1 DEF LastOf
    <3>3. ASSUME answer[c].kind = "ok"
          PROVE  /\ answer[c].id \in 1 .. Len(reqs') /\ reqs'[answer[c].id] = reqs[answer[c].id]
                 /\ LastOf(c, answer[c].id)'
      <4>1. answer[c].id # b.id
        <5>1. Len(r.runs) # r.variants
          BY <1>2, <1>5
        <5>2. Len(reqs[answer[c].id].runs) = reqs[answer[c].id].variants
          BY <1>16, <3>3
        <5> QED BY <5>1, <5>2 DEF r
      <4>2. answer[c].id \in 1 .. n /\ LastOf(c, answer[c].id)
        BY <1>16, <3>3
      <4> QED BY <1>7, <1>15, <3>1, <4>1, <4>2 DEF LastOf
    <3> QED BY <1>16, <3>1, <3>2, <3>3
  <2> QED BY <2>1, <2>2
<1> QED BY <1>12, <1>13, <1>14, <1>17 DEF CallsInv

-----------------------------------------------------------------------------
(* The theorems.                                                            *)

\* A client that is not served keeps what the others have.
LEMMA AwayStep ==
  ASSUME CallsInv, NEW c \in Clients, UNCHANGED <<reqs, queue, age, alone>>,
         call' = [call EXCEPT ![c] = 0] \/ call' = call,
         NEW a, a.kind = "refused" \/ a.kind = "timeout", answer' = [answer EXCEPT ![c] = a]
  PROVE  CallsInv'
<1>1. TypeInv'
  <2>1. 0 \in 0 .. Len(reqs)
    BY LenProperties DEF CallsInv, TypeInv
  <2>2. call' \in [Clients -> 0 .. Len(reqs)]
    BY <2>1 DEF CallsInv, TypeInv
  <2>3. DOMAIN answer' = Clients /\ answer' = [d \in Clients |-> answer'[d]]
    BY DEF CallsInv, TypeInv
  <2>4. \A d \in Clients : answer'[d].kind \in {"none", "ok", "refused", "timeout"}
    BY DEF CallsInv, TypeInv
  <2> QED BY <2>2, <2>3, <2>4 DEF CallsInv, TypeInv
<1>2. QueueInv'
  BY DEF CallsInv, QueueInv, InOrder
<1>3. RunsInv'
  BY DEF CallsInv, RunsInv, Played
<1>4. \A d \in Clients : /\ call'[d] = call[d] \/ call'[d] = 0
                         /\ answer'[d].kind = "ok" => answer'[d] = answer[d]
  BY DEF CallsInv, TypeInv
<1>5. \A d, e : LastOf(d, e) <=> \A f \in 1 .. Len(reqs') : reqs'[f].client = d => f <= e
  BY DEF LastOf
<1>6. AnswerInv'
  <2> SUFFICES ASSUME NEW d \in Clients
               PROVE  /\ call'[d] # 0 => reqs[call'[d]].client = d /\ LastOf(d, call[d])'
                      /\ answer'[d].kind = "ok" =>
                           /\ call'[d] = 0 /\ answer'[d].id \in 1 .. Len(reqs)
                           /\ reqs[answer'[d].id].client = d /\ LastOf(d, answer[d].id)'
                           /\ Len(reqs[answer'[d].id].runs) = reqs[answer'[d].id].variants
                           /\ answer'[d].report =
                                [i \in DOMAIN reqs[answer'[d].id].runs |->
                                   Report(reqs[answer'[d].id].runs[i], reqs[answer'[d].id].runs[1])]
    BY DEF AnswerInv, LastOf
  <2>1. ASSUME call'[d] # 0
        PROVE  reqs[call'[d]].client = d /\ LastOf(d, call[d])'
    <3>1. call'[d] = call[d] /\ reqs[call[d]].client = d /\ LastOf(d, call[d])
      BY <1>4, <2>1 DEF CallsInv, AnswerInv
    <3> QED BY <3>1 DEF LastOf
  <2>2. ASSUME answer'[d].kind = "ok"
        PROVE  /\ call'[d] = 0 /\ answer'[d].id \in 1 .. Len(reqs)
               /\ reqs[answer'[d].id].client = d /\ LastOf(d, answer[d].id)'
               /\ Len(reqs[answer'[d].id].runs) = reqs[answer'[d].id].variants
               /\ answer'[d].report =
                    [i \in DOMAIN reqs[answer'[d].id].runs |->
                       Report(reqs[answer'[d].id].runs[i], reqs[answer'[d].id].runs[1])]
    <3>1. answer'[d] = answer[d] /\ answer[d].kind = "ok"
      BY <1>4, <2>2
    <3>2. /\ call[d] = 0 /\ answer[d].id \in 1 .. Len(reqs)
          /\ reqs[answer[d].id].client = d /\ LastOf(d, answer[d].id)
          /\ Len(reqs[answer[d].id].runs) = reqs[answer[d].id].variants
          /\ answer[d].report =
               [i \in DOMAIN reqs[answer[d].id].runs |->
                  Report(reqs[answer[d].id].runs[i], reqs[answer[d].id].runs[1])]
      BY <3>1 DEF CallsInv, AnswerInv
    <3>3. LastOf(d, answer[d].id)'
      BY <3>1, <3>2 DEF LastOf
    <3> QED BY <1>4, <3>1, <3>2, <3>3
  <2> QED BY <2>1, <2>2
<1> QED BY <1>1, <1>2, <1>3, <1>6 DEF CallsInv

LEMMA CallsStep == CallsInv /\ [Next]_vars => CallsInv'
<1> SUFFICES ASSUME CallsInv, [Next]_vars
             PROVE  CallsInv'
  OBVIOUS
<1>1. ASSUME NEW c \in Clients, Call(c)
      PROVE  CallsInv'
  <2>1. PICK variants \in 1 .. MaxVariants, games \in 1 .. MaxGames :
          Refuse(c, variants, games) \/ Send(c, variants, games)
    BY <1>1 DEF Call
  <2>2. CASE Send(c, variants, games)
    BY <1>1, <2>2, SendStep DEF Call
  <2>3. CASE Refuse(c, variants, games)
    <3> DEFINE a == [NoAnswer EXCEPT !.kind = "refused"]
    <3>1. /\ answer' = [answer EXCEPT ![c] = a] /\ call' = call
          /\ UNCHANGED <<reqs, queue, age, alone>>
      BY <2>3 DEF Refuse
    <3>2. a.kind = "refused" \/ a.kind = "timeout"
      BY DEF NoAnswer
    <3> HIDE DEF a
    <3> QED BY <3>1, <3>2, AwayStep
  <2> QED BY <2>1, <2>2, <2>3
<1>2. ASSUME NEW c \in Clients, Expire(c)
      PROVE  CallsInv'
  <2> DEFINE a == [NoAnswer EXCEPT !.kind = "timeout", !.id = call[c]]
  <2>1. /\ answer' = [answer EXCEPT ![c] = a] /\ call' = [call EXCEPT ![c] = 0]
        /\ UNCHANGED <<reqs, queue, age, alone>>
    BY <1>2 DEF Expire
  <2>2. a.kind = "refused" \/ a.kind = "timeout"
    BY DEF NoAnswer
  <2> HIDE DEF a
  <2> QED BY <2>1, <2>2, AwayStep
<1>3. ASSUME NEW lost \in BOOLEAN, Play(lost)
      PROVE  CallsInv'
  BY <1>3, PlayStep
<1>4. CASE UNCHANGED vars
  BY <1>4 DEF vars, CallsInv, TypeInv, QueueInv, InOrder, RunsInv, Played, AnswerInv, LastOf
<1> QED BY <1>1, <1>2, <1>3, <1>4 DEF Next

\* A client that was answered got the report of the last request it sent, with
\* a part for each variant, whichever calls it gave up before and whenever their
\* battles were played.
THEOREM CallAnswersOwn == Spec => []AnswersOwn
<1>1. CallsInv => AnswersOwn
  <2> SUFFICES ASSUME CallsInv, NEW c \in Clients, answer[c].kind = "ok"
               PROVE  /\ \A d \in {e \in DOMAIN reqs : reqs[e].client = c} :
                           d <= answer[c].id \/ call[c] = d
                      /\ Len(answer[c].report) = reqs[answer[c].id].variants
    BY DEF AnswersOwn, Answered
  <2> DEFINE id == answer[c].id
             runs == reqs[id].runs
  <2>1. /\ id \in 1 .. Len(reqs) /\ LastOf(c, id) /\ Len(runs) = reqs[id].variants
        /\ answer[c].report = [i \in DOMAIN runs |-> Report(runs[i], runs[1])]
    BY DEF CallsInv, AnswerInv
  <2>2. DOMAIN reqs = 1 .. Len(reqs) /\ reqs[id] \in Request
    BY <2>1, LenProperties, ElementOfSeq DEF CallsInv, TypeInv
  <2>3. runs \in Seq(Recorded)
    BY <2>2, RequestParts
  <2> HIDE DEF id, runs
  <2>4. DOMAIN runs = 1 .. Len(runs) /\ Len(runs) \in Nat
    BY <2>3, LenProperties
  <2>5. Len(answer[c].report) = Len(runs)
    BY SMTT(30), <2>1, <2>4
  <2> QED BY <2>1, <2>2, <2>5 DEF LastOf, id
<1> QED BY <1>1, CallsInit, CallsStep, PTL DEF Spec

\* A report is made from whole runs: of each variant, all battles of all rounds,
\* each with what that variant does in it or as lost, none twice and none of
\* another variant or request.
ReportsWhole ==
  \A c \in Answered :
    LET r == reqs[answer[c].id] IN
    /\ r.client = c /\ Len(r.runs) = r.variants
    /\ \A v \in 1 .. r.variants :
         /\ DOMAIN r.runs[v] = 0 .. Jobs(r.games) - 1
         /\ \A k \in DOMAIN r.runs[v] : r.runs[v][k] \in {Outcome(v, k), Lost}
         /\ answer[c].report[v] = Report(r.runs[v], r.runs[1])

\* What a client was answered, in terms of the runs of its request.
LEMMA AnswerMeans ==
  ASSUME CallsInv, NEW c \in Clients, answer[c].kind = "ok"
  PROVE  LET r == reqs[answer[c].id] IN
         /\ r.client = c /\ Len(r.runs) = r.variants
         /\ r.variants \in 1 .. MaxVariants /\ r.games \in 1 .. MaxGames
         /\ DOMAIN answer[c].report = 1 .. r.variants /\ Len(answer[c].report) = r.variants
         /\ \A v \in 1 .. r.variants :
              /\ DOMAIN r.runs[v] = 0 .. Jobs(r.games) - 1
              /\ Played(r.runs[v], v)
              /\ answer[c].report[v] = Report(r.runs[v], r.runs[1])
<1> DEFINE id == answer[c].id
           r == reqs[id]
<1>1. /\ id \in 1 .. Len(reqs) /\ r.client = c /\ Len(r.runs) = r.variants
      /\ answer[c].report = [i \in DOMAIN r.runs |-> Report(r.runs[i], r.runs[1])]
  BY DEF CallsInv, AnswerInv
<1>2. r \in Request
  BY <1>1, ElementOfSeq DEF CallsInv, TypeInv
<1>3. /\ r.runs \in Seq(Recorded) /\ r.variants \in Nat /\ r.games \in 1 .. MaxGames
      /\ r.variants \in 1 .. MaxVariants
  BY <1>2, RequestParts DEF Request
<1>4. \A v \in 1 .. Len(r.runs) : DOMAIN r.runs[v] = 0 .. Jobs(r.games) - 1 /\ Played(r.runs[v], v)
  BY <1>1 DEF CallsInv, RunsInv
<1> HIDE DEF r
<1>5. DOMAIN r.runs = 1 .. r.variants
  BY <1>1, <1>3, LenProperties
<1>6. DOMAIN answer[c].report = 1 .. r.variants /\ Len(answer[c].report) = r.variants
  BY <1>1, <1>3, <1>5
<1> QED BY <1>1, <1>3, <1>4, <1>5, <1>6 DEF r

\* A report is made from whole runs of the client's own request: of each variant,
\* all battles of all rounds, each with what that variant does in it or as lost,
\* none twice and none of another variant or request.
THEOREM CallReportsWhole == Spec => []ReportsWhole
<1>1. CallsInv => ReportsWhole
  BY AnswerMeans DEF ReportsWhole, Answered, Played
<1> QED BY <1>1, CallsInit, CallsStep, PTL DEF Spec

-----------------------------------------------------------------------------
(* What a report says.  The battles of a run against one opponent are one of *)
(* each round, since an opponent is in the list of the legal ones but once.  *)

LEMMA OpponentsApart ==
  \A i, j \in 1 .. Len(LegalOpponents) : LegalOpponents[i] = LegalOpponents[j] => i = j
<1> DEFINE S == ToSet(Opponents)
           D == {i \in DOMAIN Opponents : Opponents[i] \in Legal}
           n == Cardinality(D)
<1>1. Opponents \in Seq(S) /\ D \in SUBSET (1 .. Len(Opponents)) /\ Len(Opponents) \in Nat
  BY OpponentsAssumption, LenProperties
<1>2. D \in SUBSET Nat /\ IsFiniteSet(D)
  <2> HIDE DEF D
  <2> QED BY <1>1, IndexSetFinite
<1>3. /\ LegalOpponents = Select(Opponents, D) /\ Len(LegalOpponents) = n /\ n \in Nat
      /\ \A k \in 1 .. n : Nth(D, k) \in D /\ LegalOpponents[k] = Opponents[Nth(D, k)]
  <2> HIDE DEF S, D
  <2> QED BY <1>1, SelectProperties DEF LegalOpponents, D
<1>4. \A k, l \in 1 .. n : k < l => Nth(D, k) < Nth(D, l)
  <2> HIDE DEF D
  <2> QED BY <1>2, NthProperties
<1>5. D \subseteq DOMAIN Opponents
  OBVIOUS
<1> HIDE DEF D, n
<1>6. ASSUME NEW i \in 1 .. n, NEW j \in 1 .. n, LegalOpponents[i] = LegalOpponents[j]
      PROVE  i = j
  <2>1. Nth(D, i) \in DOMAIN Opponents /\ Nth(D, j) \in DOMAIN Opponents
    BY <1>3, <1>5
  <2>2. Nth(D, i) = Nth(D, j)
    BY <1>3, <1>6, <2>1, OpponentsAssumption
  <2>3. Nth(D, i) \in Nat
    BY <1>2, <1>3
  <2>4. ~(i < j) /\ ~(j < i)
    BY <1>4, <2>2, <2>3
  <2> QED BY <1>3, <2>4
<1> QED BY <1>3, <1>6

\* The battles of g rounds against one opponent are at most g.
LEMMA OneEachRound ==
  ASSUME NEW g \in 1 .. MaxGames, NEW o, NEW K \in SUBSET (0 .. Jobs(g) - 1),
         \A k \in K : OpponentOf(k) = o
  PROVE  IsFiniteSet(K) /\ Cardinality(K) <= g
<1> DEFINE n == Len(LegalOpponents)
           round == [k \in K |-> k \div n]
<1>1. n \in Nat \ {0} /\ g \in Nat \ {0} /\ Jobs(g) = g * n
  BY OpponentFacts, BoundsAssumption DEF Jobs
<1>2. \A i, j \in 1 .. n : LegalOpponents[i] = LegalOpponents[j] => i = j
  BY OpponentsApart
<1>3. \A k \in K : LegalOpponents[(k % n) + 1] = o
  BY DEF OpponentOf
<1> HIDE DEF n
<1>4. ASSUME NEW k \in K
      PROVE  /\ k \in Nat /\ k \div n \in 0 .. g - 1
             /\ k % n \in 0 .. n - 1 /\ k = ((k \div n) * n) + (k % n)
  <2>1. k \in Nat /\ k < g * n
    <3>1. g * n \in Nat
      BY <1>1
    <3> QED BY <1>1, <3>1
  <2>2. /\ k \div n \in Nat /\ (k \div n) * n <= k
        /\ k % n \in 0 .. n - 1 /\ k = (n * (k \div n)) + (k % n)
    BY <1>1, <2>1
  <2> DEFINE q == k \div n
  <2>3. q \in Nat /\ q * n < g * n
    <3>1. q * n \in Nat /\ g * n \in Nat
      BY <1>1, <2>2
    <3> QED BY <2>1, <2>2, <3>1
  <2> HIDE DEF q
  <2>4. q < g
    BY <1>1, <2>3
  <2>5. q \in 0 .. g - 1
    BY <1>1, <2>3, <2>4
  <2> QED BY <1>1, <2>1, <2>2, <2>5 DEF q
<1>5. round \in Injection(K, 0 .. g - 1)
  <2>1. round \in [K -> 0 .. g - 1]
    BY <1>4
  <2>2. ASSUME NEW k \in K, NEW l \in K, round[k] = round[l]
        PROVE  k = l
    <3>1. (k % n) + 1 \in 1 .. n /\ (l % n) + 1 \in 1 .. n
      BY <1>1, <1>4
    <3>2. (k % n) + 1 = (l % n) + 1
      BY <1>2, <1>3, <3>1
    <3>3. k % n = l % n
      BY <1>1, <1>4, <3>2
    <3>4. k \div n = l \div n
      BY <2>2
    <3> QED BY <1>4, <3>3, <3>4
  <2> QED BY <2>1, <2>2 DEF Injection, IsInjective
<1>6. IsFiniteSet(0 .. g - 1) /\ Cardinality(0 .. g - 1) = g
  BY <1>1, FS_Interval
<1>7. IsFiniteSet(K) /\ Cardinality(K) <= Cardinality(0 .. g - 1)
  <2> HIDE DEF round
  <2> QED BY <1>5, <1>6, FS_Injection
<1> QED BY <1>6, <1>7

\* A pair of a battle with itself counts as that battle.
LEMMA Twins ==
  ASSUME NEW A, IsFiniteSet(A)
  PROVE  Cardinality({<<k, k>> : k \in A}) = Cardinality(A)
<1> DEFINE T == {<<k, k>> : k \in A}
           twin == [k \in A |-> <<k, k>>]
<1>1. twin \in [A -> T] /\ \A k, l \in A : twin[k] = twin[l] => k = l
  OBVIOUS
<1>2. \A t \in T : \E k \in A : twin[k] = t
  OBVIOUS
<1>3. twin \in Bijection(A, T)
  <2> HIDE DEF twin, T
  <2> QED BY <1>1, <1>2 DEF Bijection, Injection, IsInjective, Surjection
<1>4. ExistsBijection(A, T)
  BY <1>3 DEF ExistsBijection
<1> QED BY <1>4, FS_Bijection

\* What a report says of a run, in terms of what is recorded of its battles.
LEMMA ReportMeans ==
  ASSUME NEW run, NEW base
  PROVE  LET rep == Report(run, base)
             both == Done(run) \cap Done(base)
         IN  /\ \A o \in ToSet(Opponents) :
                  LET K == {k \in Done(run) : OpponentOf(k) = o}
                  IN  /\ rep.games[o] = Cardinality(K)
                      /\ rep.wins[o] = Cardinality({k \in K : run[k] = 1})
             /\ rep.paired = Cardinality({<<k, k>> : k \in both})
             /\ rep.delta = Cardinality({<<k, k>> : k \in {l \in both : run[l] > base[l]}})
                              - Cardinality({<<k, k>> : k \in {l \in both : run[l] < base[l]}})
<1> DEFINE both == Done(run) \cap Done(base)
           P == {<<k, k>> : k \in both}
<1>1. \A o \in ToSet(Opponents) :
         LET K == {k \in Done(run) : OpponentOf(k) = o}
         IN  /\ Report(run, base).games[o] = Cardinality(K)
             /\ Report(run, base).wins[o] = Cardinality({k \in K : run[k] = 1})
  BY DEF Report
<1>2. /\ Report(run, base).paired = Cardinality(P)
      /\ Report(run, base).delta = Cardinality({p \in P : run[p[1]] > base[p[2]]})
                                     - Cardinality({p \in P : run[p[1]] < base[p[2]]})
  BY DEF Report, Pairs
<1>3. {p \in P : run[p[1]] > base[p[2]]} = {<<k, k>> : k \in {l \in both : run[l] > base[l]}}
  OBVIOUS
<1>4. {p \in P : run[p[1]] < base[p[2]]} = {<<k, k>> : k \in {l \in both : run[l] < base[l]}}
  OBVIOUS
<1> HIDE DEF P
<1>5. P = {<<k, k>> : k \in both}
  BY DEF P
<1> QED BY <1>1, <1>2, <1>3, <1>4, <1>5

\* In a run of variant v every battle not lost has what v does against its
\* opponent.
LEMMA DoneMeans ==
  ASSUME NEW run, NEW v, NEW n \in Nat, DOMAIN run = 0 .. n - 1, Played(run, v)
  PROVE  /\ Done(run) \in SUBSET (0 .. n - 1) /\ IsFiniteSet(Done(run))
         /\ \A k \in 0 .. n - 1 : k \in Done(run) <=> run[k] # Lost
         /\ \A k \in Done(run) : run[k] = IF OpponentOf(k) \in Beats[v] THEN 1 ELSE 0
<1>1. Done(run) \in SUBSET (0 .. n - 1)
  BY DEF Done
<1>2. IsFiniteSet(0 .. n - 1)
  BY FS_Interval
<1>3. IsFiniteSet(Done(run))
  BY <1>1, <1>2, FS_Subset
<1>4. \A k \in Done(run) : run[k] = Outcome(v, k)
  BY DEF Done, Played
<1> QED BY <1>1, <1>3, <1>4 DEF Done, Outcome, OpponentOf

\* The counts against each opponent are those of CreditedToOpponent.
LEMMA ReportCredits ==
  ASSUME NEW run, NEW base, NEW v, NEW g \in 1 .. MaxGames,
         DOMAIN run = 0 .. Jobs(g) - 1, Played(run, v), NEW o \in ToSet(Opponents)
  PROVE  LET rep == Report(run, base)
         IN  /\ o \notin Legal => rep.games[o] = 0
             /\ rep.games[o] <= g
             /\ rep.wins[o] = IF o \in Beats[v] THEN rep.games[o] ELSE 0
<1> DEFINE K == {k \in Done(run) : OpponentOf(k) = o}
           W == {k \in K : run[k] = 1}
<1>1. Report(run, base).games[o] = Cardinality(K) /\ Report(run, base).wins[o] = Cardinality(W)
  <2>1. \A p \in ToSet(Opponents) :
          LET L == {k \in Done(run) : OpponentOf(k) = p}
          IN  /\ Report(run, base).games[p] = Cardinality(L)
              /\ Report(run, base).wins[p] = Cardinality({k \in L : run[k] = 1})
    BY ZenonT(60), ReportMeans
  <2> QED BY <2>1
<1>2. Jobs(g) \in Nat
  BY JobsType
<1>3. /\ Done(run) \in SUBSET (0 .. Jobs(g) - 1)
      /\ \A k \in Done(run) : run[k] = IF OpponentOf(k) \in Beats[v] THEN 1 ELSE 0
  BY <1>2, DoneMeans
<1>4. \A k \in Done(run) : OpponentOf(k) \in Legal
  BY <1>3, OpponentFacts
<1>5. o \notin Legal => Cardinality(K) = 0
  <2> SUFFICES ASSUME o \notin Legal PROVE K = {}
    BY FS_EmptySet
  <2> QED BY <1>4
<1>6. Cardinality(K) <= g
  <2>1. K \in SUBSET (0 .. Jobs(g) - 1) /\ \A k \in K : OpponentOf(k) = o
    BY <1>3
  <2> HIDE DEF K
  <2> QED BY <2>1, OneEachRound
<1>7. Cardinality(W) = IF o \in Beats[v] THEN Cardinality(K) ELSE 0
  <2>1. CASE o \in Beats[v]
    <3>1. W = K
      BY <1>3, <2>1
    <3> QED BY <2>1, <3>1
  <2>2. CASE o \notin Beats[v]
    <3>1. W = {}
      BY <1>3, <2>2
    <3> QED BY <2>2, <3>1, FS_EmptySet
  <2> QED BY <2>1, <2>2
<1> HIDE DEF K, W
<1> QED BY <1>1, <1>5, <1>6, <1>7

\* The battles that neither of two runs lost.
BothPlayed(run, base, n) == {k \in 0 .. n - 1 : Lost \notin {base[k], run[k]}}

\* What PairedByBattle says of one report.
PairsRight(rep, both, v) ==
  LET against(os) == {k \in both : OpponentOf(k) \in os}
  IN  /\ rep.paired = Cardinality(both)
      /\ rep.delta = Cardinality(against(Beats[v] \ Beats[1]))
                       - Cardinality(against(Beats[1] \ Beats[v]))

LEMMA ReportPairs ==
  ASSUME NEW run, NEW base, NEW v, NEW n \in Nat,
         DOMAIN run = 0 .. n - 1, Played(run, v), DOMAIN base = 0 .. n - 1, Played(base, 1)
  PROVE  PairsRight(Report(run, base), BothPlayed(run, base, n), v)
<1> DEFINE both == {k \in 0 .. n - 1 : Lost \notin {base[k], run[k]}}
           more == {k \in both : run[k] > base[k]}
           less == {k \in both : run[k] < base[k]}
<1>1. /\ Done(run) \in SUBSET (0 .. n - 1) /\ IsFiniteSet(Done(run))
      /\ \A k \in 0 .. n - 1 : k \in Done(run) <=> run[k] # Lost
      /\ \A k \in Done(run) : run[k] = IF OpponentOf(k) \in Beats[v] THEN 1 ELSE 0
  BY DoneMeans
<1>2. /\ Done(base) \in SUBSET (0 .. n - 1)
      /\ \A k \in 0 .. n - 1 : k \in Done(base) <=> base[k] # Lost
      /\ \A k \in Done(base) : base[k] = IF OpponentOf(k) \in Beats[1] THEN 1 ELSE 0
  BY DoneMeans
<1>3. both = Done(run) \cap Done(base)
  BY <1>1, <1>2
<1>4. IsFiniteSet(both) /\ IsFiniteSet(more) /\ IsFiniteSet(less)
  <2>1. IsFiniteSet(both)
    BY <1>1, <1>3, FS_Subset
  <2>2. more \in SUBSET both /\ less \in SUBSET both
    OBVIOUS
  <2> HIDE DEF both, more, less
  <2> QED BY <2>1, <2>2, FS_Subset
<1>5. more = {k \in both : OpponentOf(k) \in Beats[v] \ Beats[1]}
  <2>1. \A k \in both : run[k] > base[k] <=> OpponentOf(k) \in Beats[v] \ Beats[1]
    BY <1>1, <1>2, <1>3
  <2> HIDE DEF both
  <2> QED BY <2>1
<1>6. less = {k \in both : OpponentOf(k) \in Beats[1] \ Beats[v]}
  <2>1. \A k \in both : run[k] < base[k] <=> OpponentOf(k) \in Beats[1] \ Beats[v]
    BY <1>1, <1>2, <1>3
  <2> HIDE DEF both
  <2> QED BY <2>1
<1>7. /\ Report(run, base).paired = Cardinality({<<k, k>> : k \in both})
      /\ Report(run, base).delta = Cardinality({<<k, k>> : k \in more})
                                     - Cardinality({<<k, k>> : k \in less})
  <2> DEFINE done == Done(run) \cap Done(base)
  <2>1. /\ Report(run, base).paired = Cardinality({<<k, k>> : k \in done})
        /\ Report(run, base).delta =
             Cardinality({<<k, k>> : k \in {l \in done : run[l] > base[l]}})
               - Cardinality({<<k, k>> : k \in {l \in done : run[l] < base[l]}})
    BY ZenonT(60), ReportMeans
  <2>2. done = both
    BY <1>3
  <2> HIDE DEF both, done
  <2> QED BY <2>1, <2>2
<1> HIDE DEF both, more, less
<1>8. /\ Report(run, base).paired = Cardinality(both)
      /\ Report(run, base).delta = Cardinality(more) - Cardinality(less)
  BY <1>4, <1>7, Twins
<1> QED BY <1>5, <1>6, <1>8 DEF both, BothPlayed, PairsRight

\* What a report says of a team, and of its difference to the base, is about the
\* battles that were played, whichever of them a crash took: each is credited to
\* the opponent it was against, and compared with the same battle of the base.
THEOREM CallReportsSound == Spec => []ReportsSound
<1>1. ASSUME CallsInv PROVE TypeOK
  <2>1. \A i \in DOMAIN queue : queue[i].id \in DOMAIN reqs
    <3>1. \A i \in DOMAIN queue : queue[i] \in ToSet(queue)
      BY DEF ToSet
    <3>2. DOMAIN reqs = 1 .. Len(reqs)
      BY <1>1, LenProperties DEF CallsInv, TypeInv
    <3> QED BY <1>1, <3>1, <3>2 DEF CallsInv, QueueInv
  <2>2. \A id \in DOMAIN reqs : Len(reqs[id].runs) <= reqs[id].variants
    BY <1>1, LenProperties DEF CallsInv, TypeInv, RunsInv
  <2> QED BY <1>1, <2>1, <2>2 DEF CallsInv, TypeInv, TypeOK
<1>2. ASSUME CallsInv, NEW c \in Answered, NEW i \in DOMAIN answer[c].report
      PROVE  LET r == reqs[answer[c].id] IN
             /\ i \in 1 .. r.variants /\ 1 \in 1 .. r.variants /\ r.games \in 1 .. MaxGames
             /\ DOMAIN r.runs[i] = 0 .. Jobs(r.games) - 1 /\ Played(r.runs[i], i)
             /\ DOMAIN r.runs[1] = 0 .. Jobs(r.games) - 1 /\ Played(r.runs[1], 1)
             /\ answer[c].report[i] = Report(r.runs[i], r.runs[1])
  <2> DEFINE r == reqs[answer[c].id]
  <2>1. /\ r.variants \in 1 .. MaxVariants /\ r.games \in 1 .. MaxGames
        /\ DOMAIN answer[c].report = 1 .. r.variants
        /\ \A v \in 1 .. r.variants :
             /\ DOMAIN r.runs[v] = 0 .. Jobs(r.games) - 1 /\ Played(r.runs[v], v)
             /\ answer[c].report[v] = Report(r.runs[v], r.runs[1])
    BY <1>2, AnswerMeans DEF Answered
  <2>2. 1 \in 1 .. r.variants
    BY <2>1, BoundsAssumption
  <2> HIDE DEF r
  <2>3. i \in 1 .. r.variants
    BY <1>2, <2>1
  <2> QED BY <2>1, <2>2, <2>3 DEF r
<1>3. ASSUME CallsInv PROVE CreditedToOpponent
  BY SMTT(30), <1>2, <1>3, ReportCredits DEF CreditedToOpponent
<1>4. ASSUME CallsInv PROVE PairedByBattle
  <2> SUFFICES ASSUME NEW c \in Answered, NEW i \in DOMAIN answer[c].report
               PROVE  LET rep == answer[c].report[i]
                          r == reqs[answer[c].id]
                          both == {k \in 0 .. Jobs(r.games) - 1 :
                                     Lost \notin {r.runs[1][k], r.runs[i][k]}}
                          against(os) == {k \in both : OpponentOf(k) \in os}
                      IN  /\ rep.paired = Cardinality(both)
                          /\ rep.delta = Cardinality(against(Beats[i] \ Beats[1]))
                                           - Cardinality(against(Beats[1] \ Beats[i]))
    BY DEF PairedByBattle
  <2> DEFINE run == reqs[answer[c].id].runs[i]
             base == reqs[answer[c].id].runs[1]
             n == Jobs(reqs[answer[c].id].games)
  <2>1. /\ n \in Nat /\ DOMAIN run = 0 .. n - 1 /\ Played(run, i)
        /\ DOMAIN base = 0 .. n - 1 /\ Played(base, 1)
        /\ answer[c].report[i] = Report(run, base)
    BY <1>2, <1>4, JobsType
  <2> HIDE DEF run, base, n
  <2>2. PairsRight(Report(run, base), BothPlayed(run, base, n), i)
    <3>1. \A a, b : DOMAIN a = 0 .. n - 1 /\ Played(a, i) /\ DOMAIN b = 0 .. n - 1 /\ Played(b, 1) =>
            PairsRight(Report(a, b), BothPlayed(a, b, n), i)
      BY <2>1, ReportPairs
    <3> QED BY <2>1, <3>1
  <2> QED BY ZenonT(60), <2>1, <2>2 DEF PairsRight, BothPlayed, run, base, n
<1>5. CallsInv => ReportsSound
  BY <1>1, <1>3, <1>4 DEF ReportsSound
<1> QED BY <1>5, CallsInit, CallsStep, PTL DEF Spec
-----------------------------------------------------------------------------
(* The views: what policies are shown, and the inductive invariant.         *)
LogLines == {"item", "ability", "mega"} \X Mons

\* What a believed foe is shown as.
Shown(q, m) ==
  /\ q \in Pokemon /\ q.hp <= q.max
  /\ q.form = real[m].form /\ q.stats = <<q.form, "usual">>
  /\ used[m] \subseteq q.moves
  /\ <<"item", m>> \in known => q.item = real[m].item
  /\ <<"ability", m>> \in known => q.ability = real[m].ability

AsViewed(q, m) == IF m \in Believed THEN Shown(q, m) ELSE q = real[m]

\* A Pokemon without its projection.
Behind(m) == IF pc = "thinks" /\ m \in DOMAIN saved.mega THEN saved.mega[m] ELSE mon[m]

\* The battle's Pokemon.
RealMons ==
  /\ real \in [Mons -> Pokemon]
  /\ \A m \in Mons : real[m].hp <= real[m].max /\ used[m] \subseteq real[m].moves

\* What has been read of the log is known.
Known ==
  /\ log \in Seq(LogLines) /\ scanned \in 0 .. Len(log) /\ known \subseteq {"item", "ability"} \X Mons
  /\ mode # "omniscient" =>
       \A i \in 1 .. scanned : log[i][1] # "mega" => log[i] \in known

\* What is overwritten can be taken back.
Overwritten ==
  /\ pc = "battle" => mon = real
  /\ pc # "battle" =>
       /\ saved.view = [m \in Believed |-> real[m]]
       /\ \A m \in Mons : AsViewed(Behind(m), m)
       /\ mode # "omniscient" => scanned = Len(log)
  /\ pc = "thinks" =>
       /\ DOMAIN saved.mega \subseteq Mons
       /\ \A m \in DOMAIN saved.mega : mon[m] = AsMega(saved.mega[m], m)

ViewsInv ==
  /\ mode \in {"open_sheets", "closed", "omniscient"} /\ pc \in {"battle", "viewed", "thinks"}
  /\ mon \in [Mons -> Pokemon] /\ \A m \in Mons : mon[m].hp <= mon[m].max
  /\ used \in [Mons -> SUBSET AllMoves]
  /\ cache \in [Mons -> {"none", "base", "mega"}]
  /\ saved = [view |-> saved.view, mega |-> saved.mega]
  /\ RealMons /\ Known /\ Overwritten

-----------------------------------------------------------------------------
\* What becomes of a Pokemon is a Pokemon.
LEMMA MegaIsPokemon ==
  ASSUME NEW q \in Pokemon, NEW m \in Mons
  PROVE  /\ AsMega(q, m) \in Pokemon
         /\ AsMega(q, m).hp = q.hp /\ AsMega(q, m).max = q.max /\ AsMega(q, m).moves = q.moves
         /\ [AsMega(q, m) EXCEPT !.form = q.form, !.ability = q.ability, !.stats = q.stats] = q
<1>1. MegaAbility[m] \in Abilities
  BY DEF Abilities
<1> HIDE DEF Abilities
<1> QED BY <1>1 DEF AsMega, Pokemon

LEMMA FreshIsPokemon ==
  ASSUME ViewsAssumption, NEW m \in Mons
  PROVE  Fresh(m) \in Pokemon /\ Fresh(m).hp <= Fresh(m).max
<1>1. Set[m].ability \in Abilities /\ Set[m].item \in Carried /\ Set[m].moves \in SUBSET AllMoves
  BY DEF Abilities, Carried, AllMoves
<1>2. Set[m].hp \in Nat \ {0}
  BY DEF ViewsAssumption
<1> QED BY <1>1, <1>2 DEF Fresh, Pokemon

\* A share of the assumed maximum is at most that, and a foe that stands is not
\* seen with none.
LEMMA RoundedShare ==
  ASSUME NEW a \in Nat, NEW b \in Nat \ {0}, NEW c \in Nat \ {0}, a <= c * b
  PROVE  Round(a, b) \in Int /\ Round(a, b) <= c
<1> DEFINE q == (2 * a + b) \div (2 * b)
<1>1. q \in Int /\ q * (2 * b) <= 2 * a + b
  OBVIOUS
<1>2. 2 * a + b < (c + 1) * (2 * b)
  OBVIOUS
<1>3. q < c + 1
  <2> SUFFICES ASSUME q >= c + 1 PROVE FALSE
    BY <1>1
  <2>1. q * (2 * b) >= (c + 1) * (2 * b)
    BY <1>1
  <2> QED BY <1>1, <1>2, <2>1
<1> QED BY <1>1, <1>3 DEF Round

LEMMA SeenHpFits ==
  ASSUME ViewsAssumption, NEW m \in Mons, m \in DOMAIN Beliefs,
         mon[m] \in Pokemon, mon[m].hp <= mon[m].max
  PROVE  SeenHp(m) \in Nat \ {0} /\ SeenHp(m) <= Beliefs[m].hp
<1>1. Beliefs[m].hp \in Nat \ {0} /\ mon[m].hp \in Nat \ {0} /\ mon[m].max \in Nat \ {0}
  BY DEF ViewsAssumption, Pokemon
<1> DEFINE b == Beliefs[m].hp h == mon[m].hp x == mon[m].max
<1>2. h * b \in Nat /\ h * b <= b * x
  BY <1>1
<1>3. Round(h * b, x) \in Int /\ Round(h * b, x) <= b
  BY <1>1, <1>2, RoundedShare
<1> QED BY <1>1, <1>3 DEF SeenHp

\* What a believed foe is seen as.
LEMMA SeenIsShown ==
  ASSUME ViewsAssumption, ViewsInv, pc = "battle", NEW m \in Believed, NEW q \in SeenAs(m)
  PROVE  /\ q \in Pokemon /\ q.hp <= q.max
         /\ q.form = real[m].form /\ q.stats = <<q.form, "usual">>
         /\ used[m] \subseteq q.moves
         /\ <<"item", m>> \in Revealed => q.item = real[m].item
         /\ <<"ability", m>> \in Revealed => q.ability = real[m].ability
<1>1. m \in Mons /\ m \in DOMAIN Beliefs
  BY DEF Believed, Mons, ViewsAssumption
<1>2. mon[m] = real[m] /\ mon[m] \in Pokemon /\ mon[m].hp <= mon[m].max
      /\ used[m] \subseteq mon[m].moves /\ used[m] \subseteq AllMoves
  BY <1>1 DEF ViewsInv, Overwritten, RealMons
<1>3. SeenHp(m) \in Nat \ {0} /\ SeenHp(m) <= Beliefs[m].hp /\ Beliefs[m].hp \in Nat \ {0}
  BY <1>1, <1>2, SeenHpFits DEF ViewsAssumption
<1>4. GuessedAbility(m) \in Abilities /\ GuessedItem(m) \in Carried
  <2>1. Beliefs[m].ability \in Abilities /\ Beliefs[m].item \in Carried
    BY <1>1 DEF Abilities, Carried
  <2>2. mon[m].ability \in Abilities /\ mon[m].item \in Carried
    BY <1>2 DEF Pokemon
  <2> QED BY <2>1, <2>2 DEF GuessedAbility, GuessedItem
<1>5. \A v \in GuessedMoves(m) : v \in SUBSET AllMoves /\ used[m] \subseteq v
  <2>1. Beliefs[m].moves \subseteq AllMoves
    BY <1>1 DEF AllMoves
  <2>2. mon[m].moves \subseteq AllMoves
    BY <1>2 DEF Pokemon
  <2> QED BY <2>1, <2>2, <1>2 DEF GuessedMoves
<1>6. /\ <<"item", m>> \in Revealed => GuessedItem(m) = mon[m].item
      /\ <<"ability", m>> \in Revealed => GuessedAbility(m) = mon[m].ability
  BY DEF GuessedItem, GuessedAbility
<1> DEFINE seen == [mon[m] EXCEPT !.stats = <<SpreadForm(m), "usual">>,
                                  !.max = Beliefs[m].hp, !.hp = SeenHp(m)]
<1>7. /\ seen \in Pokemon /\ seen.hp <= seen.max /\ seen.form = mon[m].form
      /\ seen.stats = <<seen.form, "usual">> /\ seen.moves = mon[m].moves
      /\ seen.item = mon[m].item /\ seen.ability = mon[m].ability
  BY <1>2, <1>3 DEF Pokemon, SpreadForm
<1>8. CASE q = seen
  BY <1>2, <1>7, <1>8
<1>9. CASE \E v \in GuessedMoves(m) :
             q = [seen EXCEPT !.ability = GuessedAbility(m), !.item = GuessedItem(m), !.moves = v]
  <2>1. PICK v \in GuessedMoves(m) :
          q = [seen EXCEPT !.ability = GuessedAbility(m), !.item = GuessedItem(m), !.moves = v]
    BY <1>9
  <2> HIDE DEF seen
  <2>2. /\ q \in Pokemon /\ q.hp = seen.hp /\ q.max = seen.max /\ q.form = seen.form
        /\ q.stats = seen.stats /\ q.moves = v
        /\ q.item = GuessedItem(m) /\ q.ability = GuessedAbility(m)
    BY <2>1, <1>4, <1>5, <1>7 DEF Pokemon
  <2> QED BY <2>2, <1>2, <1>5, <1>6, <1>7
<1> QED BY <1>8, <1>9 DEF SeenAs

-----------------------------------------------------------------------------
\* An event happens to the battle's Pokemon, and adds to the log at most.
LEMMA EventKept ==
  ASSUME ViewsInv, NEW m \in Mons, NEW kind \in {"none", "item", "ability", "mega"},
         NEW q \in Pokemon, q.hp <= q.max, Event(m, kind, q, q),
         used' \in [Mons -> SUBSET AllMoves], used'[m] \subseteq q.moves,
         \A o \in Mons \ {m} : used'[o] = used[o]
  PROVE  ViewsInv'
<1> USE DEF ViewsInv
<1>1. pc = "battle" /\ UNCHANGED <<mode, scanned, known, cache, saved, pc>>
  BY DEF Event
<1>2. mon' = [mon EXCEPT ![m] = q] /\ real' = [real EXCEPT ![m] = q] /\ mon = real
  BY <1>1 DEF Event, Overwritten
<1>3. mon' \in [Mons -> Pokemon] /\ mon' = real' /\ \A o \in Mons : mon'[o].hp <= mon'[o].max
  BY <1>2
<1>4. RealMons'
  <2>1. \A o \in Mons : used'[o] \subseteq real'[o].moves
    BY <1>2, <1>3 DEF RealMons
  <2> QED BY <2>1, <1>3 DEF RealMons
<1>5. Known'
  <2>1. CASE log' = log
    BY <1>1, <2>1 DEF Known
  <2>2. CASE log' = Append(log, <<kind, m>>) /\ kind # "none"
    <3>1. <<kind, m>> \in LogLines
      BY <2>2 DEF LogLines
    <3>2. log' \in Seq(LogLines) /\ Len(log') = Len(log) + 1
          /\ \A i \in 1 .. Len(log) : log'[i] = log[i]
      BY <2>2, <3>1 DEF Known
    <3>3. scanned \in 0 .. Len(log') /\ \A i \in 1 .. scanned : log'[i] = log[i]
      BY <3>2 DEF Known
    <3> QED BY <1>1, <3>2, <3>3 DEF Known
  <2> QED BY <2>1, <2>2 DEF Event
<1>6. Overwritten'
  BY <1>1, <1>3 DEF Overwritten
<1> QED BY <1>1, <1>3, <1>4, <1>5, <1>6

LEMMA EventsKept ==
  ASSUME ViewsInv, NEW m \in Mons,
         ShowsAbility(m) \/ ShowsItem(m) \/ UsesMove(m) \/ MegaEvolves(m)
  PROVE  ViewsInv'
<1> USE DEF ViewsInv
<1>0. pc = "battle"
  BY DEF ShowsAbility, ShowsItem, UsesMove, MegaEvolves, Event
<1>1. mon[m] = real[m] /\ mon[m] \in Pokemon /\ mon[m].hp <= mon[m].max
      /\ used[m] \subseteq mon[m].moves
  BY <1>0 DEF Overwritten, RealMons
<1>2. CASE ShowsAbility(m)
  BY <1>1, <1>2, EventKept DEF ShowsAbility
<1>3. CASE ShowsItem(m)
  <2>1. PICK left : /\ left \in {mon[m].item, NoItem}
                    /\ Event(m, "item", [mon[m] EXCEPT !.item = left], [real[m] EXCEPT !.item = left])
    BY <1>3 DEF ShowsItem
  <2>2. left \in Carried
    BY <2>1, <1>1 DEF Pokemon, Carried
  <2> DEFINE q == [mon[m] EXCEPT !.item = left]
  <2>3. q \in Pokemon /\ q.hp = mon[m].hp /\ q.max = mon[m].max /\ q.moves = mon[m].moves
    BY <2>2, <1>1 DEF Pokemon
  <2>4. Event(m, "item", q, q) /\ used' = used
    BY <2>1, <1>1, <1>3 DEF ShowsItem
  <2> HIDE DEF q
  <2> QED BY <2>3, <2>4, <1>1, EventKept
<1>4. CASE UsesMove(m)
  <2>1. PICK v \in mon[m].moves, hp \in 1 .. mon[m].hp :
          /\ Event(m, "none", [mon[m] EXCEPT !.hp = hp], [real[m] EXCEPT !.hp = hp])
          /\ used' = [used EXCEPT ![m] = @ \cup {v}]
    BY <1>4 DEF UsesMove
  <2> DEFINE q == [mon[m] EXCEPT !.hp = hp]
  <2>2. mon[m].hp \in Nat /\ mon[m].max \in Nat /\ mon[m].moves \subseteq AllMoves
    BY <1>1 DEF Pokemon
  <2>3. q \in Pokemon /\ q.hp = hp /\ q.max = mon[m].max /\ q.moves = mon[m].moves
    <3>1. hp \in Nat \ {0}
      BY <2>1, <2>2
    <3> QED BY <1>1, <3>1 DEF Pokemon
  <2>4. Event(m, "none", q, q) /\ q.hp <= q.max
    BY <2>1, <2>2, <2>3, <1>1
  <2>5. /\ used' \in [Mons -> SUBSET AllMoves] /\ used'[m] \subseteq q.moves
        /\ \A o \in Mons \ {m} : used'[o] = used[o]
    BY <2>1, <2>2, <2>3, <1>1
  <2> HIDE DEF q
  <2> QED BY <2>3, <2>4, <2>5, EventKept
<1>5. CASE MegaEvolves(m)
  <2> DEFINE q == AsMega(mon[m], m)
  <2>1. q \in Pokemon /\ q.hp = mon[m].hp /\ q.max = mon[m].max /\ q.moves = mon[m].moves
    BY <1>1, MegaIsPokemon
  <2>2. Event(m, "mega", q, q) /\ used' = used
    BY <1>1, <1>5 DEF MegaEvolves
  <2> HIDE DEF q
  <2> QED BY <2>1, <2>2, <1>1, EventKept
<1> QED BY <1>2, <1>3, <1>4, <1>5

\* The view shows a believed foe as such, and remembers what it is.
LEMMA ApplyViewKept ==
  ASSUME ViewsAssumption, ViewsInv, ApplyView
  PROVE  ViewsInv'
<1> USE DEF ViewsInv
<1>1. /\ pc = "battle" /\ pc' = "viewed" /\ mon = real
      /\ UNCHANGED <<mode, used, log, real>>
      /\ saved'.view = [m \in Believed |-> real[m]] /\ saved' = [view |-> saved'.view, mega |-> saved'.mega]
  BY DEF ApplyView, Overwritten
<1>2. Believed' = Believed /\ Believed \subseteq Mons
  BY <1>1 DEF Believed, Mons
<1>3. \A m \in Mons : IF m \in Believed THEN mon'[m] \in SeenAs(m) ELSE mon'[m] = mon[m]
  BY DEF ApplyView
<1>4. mode # "omniscient" => scanned' = Len(log) /\ known' = Revealed
  BY DEF ApplyView
<1>5. mode = "omniscient" => scanned' = scanned /\ known' = known /\ Believed = {}
  BY DEF ApplyView, Believed
<1>6. RealMons'
  BY <1>1 DEF RealMons
<1>7. Known'
  <2>1. CASE mode = "omniscient"
    BY <2>1, <1>1, <1>5 DEF Known
  <2>2. CASE mode # "omniscient"
    <3>1. \A i \in 1 .. Len(log) : log[i] \in LogLines
      BY DEF Known
    <3>2. Revealed \subseteq {"item", "ability"} \X Mons
      BY <3>1 DEF Revealed, Known, LogLines
    <3>3. \A i \in 1 .. Len(log) : log[i][1] # "mega" => log[i] \in Revealed
      BY <2>2 DEF Revealed, Known
    <3>4. Len(log) \in 0 .. Len(log)
      BY DEF Known
    <3> QED BY <1>1, <1>4, <2>2, <3>2, <3>3, <3>4 DEF Known
  <2> QED BY <2>1, <2>2
<1>8. ASSUME NEW m \in Believed
      PROVE  Shown(mon[m], m)'
  <2>1. mon'[m] \in SeenAs(m) /\ mode # "omniscient"
    BY <1>2, <1>3, <1>8 DEF Believed
  <2> QED BY <2>1, <1>1, <1>4, SeenIsShown DEF Shown
<1>9. mon' \in [Mons -> Pokemon] /\ \A m \in Mons : mon'[m].hp <= mon'[m].max
  <2>1. DOMAIN mon' = Mons /\ mon' = [m \in Mons |-> mon'[m]]
    BY DEF ApplyView
  <2>2. \A m \in Mons : mon'[m] \in Pokemon /\ mon'[m].hp <= mon'[m].max
    BY <1>3, <1>8 DEF Shown
  <2> QED BY <2>1, <2>2
<1>10. cache' \in [Mons -> {"none", "base", "mega"}]
  <2>1. \A m \in Mons : SpreadForm(m) \in {"base", "mega"}
    BY DEF SpreadForm, Pokemon
  <2> QED BY <2>1 DEF ApplyView
<1>11. Overwritten'
  <2>1. \A m \in Mons : AsViewed(mon[m], m)'
    BY <1>1, <1>2, <1>3, <1>8 DEF AsViewed
  <2>2. \A m \in Mons : Behind(m)' = mon'[m]
    BY <1>1 DEF Behind
  <2>3. \A m \in Mons : AsViewed(Behind(m), m)'
    BY <2>1, <2>2 DEF AsViewed, Shown
  <2> QED BY <1>1, <1>2, <1>4, <2>3 DEF Overwritten
<1> QED BY <1>1, <1>6, <1>7, <1>9, <1>10, <1>11

\* The projection overwrites what the view shows.
LEMMA ProjectKept ==
  ASSUME ViewsInv, Project
  PROVE  ViewsInv'
<1> USE DEF ViewsInv
<1>1. PICK ms \in Projected \cup {{}} :
        /\ saved' = [saved EXCEPT !.mega = [m \in ms |-> mon[m]]]
        /\ mon' = [m \in Mons |-> IF m \notin ms THEN mon[m] ELSE AsMega(mon[m], m)]
  BY DEF Project
<1>2. /\ pc = "viewed" /\ pc' = "thinks"
      /\ UNCHANGED <<mode, used, log, scanned, known, cache, real>>
  BY DEF Project
<1>3. ms \subseteq Mons
  BY <1>1 DEF Projected
<1>4. saved'.view = saved.view /\ saved'.mega = [m \in ms |-> mon[m]]
      /\ saved' = [view |-> saved'.view, mega |-> saved'.mega]
  BY <1>1
<1>5. mon' \in [Mons -> Pokemon] /\ \A m \in Mons : mon'[m].hp <= mon'[m].max
  <2>1. \A m \in Mons : mon'[m] \in Pokemon /\ mon'[m].hp <= mon'[m].max
    <3> SUFFICES ASSUME NEW m \in Mons PROVE mon'[m] \in Pokemon /\ mon'[m].hp <= mon'[m].max
      OBVIOUS
    <3>1. mon[m] \in Pokemon /\ mon[m].hp <= mon[m].max
      OBVIOUS
    <3>2. mon'[m] = mon[m] \/ mon'[m] = AsMega(mon[m], m)
      BY <1>1
    <3>3. AsMega(mon[m], m) \in Pokemon /\ AsMega(mon[m], m).hp <= AsMega(mon[m], m).max
      BY <3>1, MegaIsPokemon
    <3> QED BY <3>1, <3>2, <3>3
  <2> QED BY <1>1, <2>1
<1>6. RealMons' /\ Known'
  BY <1>2 DEF RealMons, Known
<1>7. Overwritten'
  <2>1. \A m \in Mons : Behind(m)' = mon[m] /\ Behind(m) = mon[m]
    BY <1>1, <1>2, <1>4 DEF Behind
  <2>2. Believed' = Believed
    BY <1>2 DEF Believed
  <2>3. \A m \in Mons : AsViewed(Behind(m), m)'
    <3> SUFFICES ASSUME NEW m \in Mons PROVE AsViewed(Behind(m), m)'
      OBVIOUS
    <3>1. AsViewed(Behind(m), m)
      BY <1>2 DEF Overwritten
    <3> QED BY <3>1, <2>1, <2>2, <1>2 DEF AsViewed, Shown
  <2>4. \A m \in ms : mon'[m] = AsMega(mon[m], m) /\ saved'.mega[m] = mon[m]
    BY <1>1, <1>3, <1>4
  <2>5. \A m \in DOMAIN saved'.mega : mon'[m] = AsMega(saved'.mega[m], m)
    BY <2>4, <1>4
  <2> QED BY <1>2, <1>3, <1>4, <2>2, <2>3, <2>5 DEF Overwritten, AsMega
<1> QED BY <1>2, <1>4, <1>5, <1>6, <1>7

\* The two are taken back in the order that leaves the battle's Pokemon.
LEMMA RestoreKept ==
  ASSUME ViewsInv, Restore
  PROVE  ViewsInv'
<1> USE DEF ViewsInv
<1>1. /\ pc = "thinks" /\ pc' = "battle"
      /\ UNCHANGED <<mode, used, log, scanned, known, cache, real>>
      /\ saved' = [view |-> saved'.view, mega |-> saved'.mega]
  BY DEF Restore
<1>2. DOMAIN mon' = Mons /\ mon' = [m \in Mons |-> mon'[m]]
  BY DEF Restore
<1>3. ASSUME NEW m \in Mons PROVE mon'[m] = real[m]
  <2>1. AsViewed(Behind(m), m) /\ real[m] \in Pokemon
    BY <1>1, <1>3 DEF Overwritten, RealMons
  <2>2. Behind(m) \in Pokemon /\ Behind(m).form = real[m].form
        /\ (m \notin Believed => Behind(m) = real[m])
    BY <2>1 DEF AsViewed, Shown
  <2>3. Unprojected(m) = Behind(m)
    <3>1. CASE m \notin DOMAIN saved.mega
      BY <3>1 DEF Behind, Unprojected
    <3>2. CASE m \in DOMAIN saved.mega
      <4>1. mon[m] = AsMega(Behind(m), m) /\ Behind(m) = saved.mega[m]
        BY <1>1, <3>2 DEF Overwritten, Behind
      <4>2. [AsMega(Behind(m), m) EXCEPT !.form = Behind(m).form, !.ability = Behind(m).ability,
                                         !.stats = Behind(m).stats] = Behind(m)
        BY <2>2, MegaIsPokemon
      <4> QED BY <4>1, <4>2, <3>2 DEF Unprojected
    <3> QED BY <3>1, <3>2
  <2>4. DOMAIN saved.view = Believed /\ (m \in Believed => saved.view[m] = real[m])
    BY <1>1 DEF Overwritten
  <2>5. [real[m] EXCEPT !.form = real[m].form] = real[m]
    BY <2>1 DEF Pokemon
  <2>6. mon'[m] = IF m \notin DOMAIN saved.view THEN Unprojected(m) ELSE
                    [saved.view[m] EXCEPT !.form = Unprojected(m).form]
    BY DEF Restore
  <2> QED BY <2>2, <2>3, <2>4, <2>5, <2>6
<1>4. mon' = real
  <2>1. real = [m \in Mons |-> real[m]] /\ mon' = [m \in Mons |-> mon'[m]]
    BY <1>2 DEF RealMons
  <2> QED BY <2>1, <1>3
<1>5. RealMons' /\ Known' /\ Overwritten'
  BY <1>1, <1>4 DEF RealMons, Known, Overwritten
<1>6. mon' \in [Mons -> Pokemon] /\ \A m \in Mons : mon'[m].hp <= mon'[m].max
  BY <1>4 DEF RealMons
<1> QED BY <1>1, <1>5, <1>6

-----------------------------------------------------------------------------
LEMMA ViewsBegin ==
  ASSUME ViewsAssumption, ViewsInit
  PROVE  ViewsInv
<1>1. mon \in [Mons -> Pokemon] /\ \A m \in Mons : mon[m].hp <= mon[m].max
  BY FreshIsPokemon DEF ViewsInit
<1>2. used = [m \in Mons |-> {}] /\ real = mon
  BY DEF ViewsInit
<1>3. RealMons
  BY <1>1, <1>2 DEF RealMons
<1>4. Known
  BY DEF ViewsInit, Known
<1>5. Overwritten
  BY <1>2 DEF ViewsInit, Overwritten
<1> QED BY <1>1, <1>2, <1>3, <1>4, <1>5 DEF ViewsInit, ViewsInv

LEMMA ViewsSteps ==
  ASSUME ViewsAssumption, ViewsInv, [ViewsNext]_viewVars
  PROVE  ViewsInv'
<1>1. CASE ViewsNext
  BY <1>1, EventsKept, ApplyViewKept, ProjectKept, RestoreKept DEF ViewsNext
<1>2. CASE UNCHANGED viewVars
  BY <1>2 DEF viewVars, ViewsInv, RealMons, Known, Overwritten, AsViewed, Shown, Behind, Believed
<1> QED BY <1>1, <1>2

LEMMA ViewsTold ==
  ASSUME ViewsAssumption, ViewsInv
  PROVE  ViewsSound
<1> USE DEF ViewsInv
<1>1. ViewsTypeOK
  BY DEF RealMons, Known, ViewsTypeOK
<1>2. RealSetsPlayed
  BY DEF Overwritten, RealSetsPlayed
<1>3. ASSUME pc = "viewed", NEW m \in Mons
      PROVE  AsViewed(mon[m], m)
  <2>1. AsViewed(Behind(m), m)
    BY <1>3 DEF Overwritten
  <2> QED BY <2>1, <1>3 DEF Behind
<1>4. BeliefFitsForm
  BY <1>3 DEF BeliefFitsForm, AsViewed, Shown, Believed, Mons
<1>5. RevealedKept
  <2> SUFFICES ASSUME pc = "viewed", NEW m \in Foes
               PROVE  /\ <<"item", m>> \in {log[i] : i \in DOMAIN log} => mon[m].item = real[m].item
                      /\ <<"ability", m>> \in {log[i] : i \in DOMAIN log} =>
                           mon[m].ability = real[m].ability
                      /\ used[m] \subseteq mon[m].moves
    BY DEF RevealedKept
  <2>1. m \in Mons /\ AsViewed(mon[m], m)
    BY <1>3 DEF Mons
  <2>2. CASE m \in Believed
    <3>1. mode # "omniscient" /\ scanned = Len(log)
      BY <2>2 DEF Believed, Overwritten
    <3>2. \A k \in {"item", "ability"} : <<k, m>> \in {log[i] : i \in DOMAIN log} => <<k, m>> \in known
      <4> SUFFICES ASSUME NEW k \in {"item", "ability"}, NEW i \in DOMAIN log, log[i] = <<k, m>>
                   PROVE  <<k, m>> \in known
        OBVIOUS
      <4>1. i \in 1 .. scanned /\ log[i][1] # "mega"
        BY <3>1 DEF Known
      <4> QED BY <4>1, <3>1 DEF Known
    <3> QED BY <2>1, <2>2, <3>2 DEF AsViewed, Shown
  <2>3. CASE m \notin Believed
    BY <2>1, <2>3 DEF AsViewed, RealMons
  <2> QED BY <2>2, <2>3
<1> QED BY <1>1, <1>2, <1>4, <1>5 DEF ViewsSound

\* For any Pokemon, sets, beliefs and events: what a policy believes of the
\* opponent and the Mega Evolutions it thinks through, overwritten on top of each
\* other (policies.js, applyView and applyMegaProjection), are taken back whole
\* before the battle goes on; and no belief contradicts what the battle has shown.
THEOREM ViewsAreSound == ViewsAssumption /\ ViewsSpec => []ViewsSound
<1> SUFFICES ASSUME ViewsAssumption PROVE ViewsSpec => []ViewsSound
  OBVIOUS
<1>1. ViewsInit => ViewsInv
  BY ViewsBegin
<1>2. ViewsInv /\ [ViewsNext]_viewVars => ViewsInv'
  BY ViewsSteps
<1>3. ViewsInv => ViewsSound
  BY ViewsTold
<1> QED BY <1>1, <1>2, <1>3, PTL DEF ViewsSpec
-----------------------------------------------------------------------------
(* A battle (BattlePlay), for any teams, orders, policies and number of     *)
(* slots.  What a policy chooses is compared with the rules at once; that  *)
(* no battle is cut short is counted: every pass of the loop plays on.      *)
Asking ==
  /\ req \in [Sides -> [ask : {"team", "move", "switch", "wait"}, slots : SUBSET Positions]]
  /\ \A s \in Sides : req[s].ask = "team" => \A q \in Sides : req[q].ask = "team"

\* The parties have everybody in a place, the field is full once a team is chosen,
\* and a choice that was made is one the rules allow.
Fielded ==
  /\ party \in [Sides -> Seq(Members)]
  /\ \A s \in Sides : IF req[s].ask = "team" THEN Len(party[s]) = Cardinality(Members)
                                             ELSE Slots <= Len(party[s])
  /\ choice = [s \in Sides |-> choice[s]]
  /\ \A s \in Sides : choice[s] = <<>> \/ choice[s] \in Allowed(s)

BattleInv == Asking /\ Fielded /\ ~refused

\* The plays there were at least, if none asks for more than two replacements.
Plays == IF turn = 0 THEN 0 ELSE 3 * turn - 2 + breaks

Counted ==
  /\ turn \in Nat /\ breaks \in 0 .. MaxBreaks /\ pass \in Nat \ {0} /\ at \in 0 .. 3
  /\ \A s \in Sides : req[s].ask = "team" <=> turn = 0
  /\ turn = 0 => breaks = 0
  /\ result = "none" =>
       /\ \E s \in Sides : Asked(s)
       /\ at = 1 => pass <= 1 + Plays
       /\ at = 2 => pass <= Plays \/ (pass <= 1 + Plays /\ Asked(2) /\ ~Asked(1))
       /\ at = 3 => pass <= Plays
       /\ at = 0 => turn > MaxTurns

\* Of a set of places, as many are among the first n as there are, up to n.
LEMMA FirstPlaces ==
  ASSUME NEW D \in SUBSET Nat, IsFiniteSet(D), NEW n \in 0 .. Cardinality(D)
  PROVE  Cardinality({k \in D : Cardinality(UpTo(D, k)) <= n}) = n
<1> DEFINE E == {k \in D : Cardinality(UpTo(D, k)) <= n}
           F == D \ E
           m == Cardinality(D)
           e == [k \in E |-> Cardinality(UpTo(D, k))]
           f == [k \in F |-> Cardinality(UpTo(D, k))]
<1>1. m \in Nat /\ n \in Nat /\ n <= m /\ \A i \in D : i \in Nat
  BY FS_CardinalityType
<1>2. /\ \A i \in D : Cardinality(UpTo(D, i)) \in 1 .. m
      /\ \A i, j \in D : j < i => Cardinality(UpTo(D, j)) < Cardinality(UpTo(D, i))
  BY RankGrows
<1>3. \A i, j \in D : Cardinality(UpTo(D, j)) = Cardinality(UpTo(D, i)) => i = j
  <2>1. ASSUME NEW i \in D, NEW j \in D, i # j
        PROVE  Cardinality(UpTo(D, j)) # Cardinality(UpTo(D, i))
    <3>1. i < j \/ j < i
      BY <1>1, <2>1
    <3>2. Cardinality(UpTo(D, j)) \in Nat /\ Cardinality(UpTo(D, i)) \in Nat
      BY <1>1, <1>2
    <3> QED
      BY <1>2, <3>1, <3>2
  <2> QED
    BY <2>1
<1>4. e \in Injection(E, 1 .. n)
  <2>1. e \in [E -> 1 .. n]
    <3>1. ASSUME NEW i \in E PROVE Cardinality(UpTo(D, i)) \in 1 .. n
      <4>1. Cardinality(UpTo(D, i)) \in 1 .. m /\ Cardinality(UpTo(D, i)) <= n
        BY <1>2
      <4> HIDE DEF E, m
      <4> QED
        BY <1>1, <4>1
    <3> QED
      BY <3>1
  <2> QED
    BY <1>3, <2>1 DEF Injection, IsInjective
<1>5. f \in Injection(F, n + 1 .. m)
  <2>1. f \in [F -> n + 1 .. m]
    <3>1. ASSUME NEW i \in F PROVE Cardinality(UpTo(D, i)) \in n + 1 .. m
      <4>1. Cardinality(UpTo(D, i)) \in 1 .. m /\ ~(Cardinality(UpTo(D, i)) <= n)
        BY <1>2
      <4> HIDE DEF F, E, m
      <4> QED
        BY <1>1, <4>1
    <3> QED
      BY <3>1
  <2> QED
    BY <1>3, <2>1 DEF Injection, IsInjective
<1>6. /\ IsFiniteSet(1 .. n) /\ Cardinality(1 .. n) = n
      /\ IsFiniteSet(n + 1 .. m) /\ Cardinality(n + 1 .. m) = m - n
  <2>1. \A a, b \in Int : IsFiniteSet(a .. b) /\ Cardinality(a .. b) = IF a > b THEN 0 ELSE b - a + 1
    BY FS_Interval
  <2>2. 1 \in Int /\ n \in Int /\ n + 1 \in Int /\ m \in Int
    BY <1>1
  <2>3. /\ IsFiniteSet(1 .. n) /\ Cardinality(1 .. n) = IF 1 > n THEN 0 ELSE n - 1 + 1
        /\ IsFiniteSet(n + 1 .. m)
        /\ Cardinality(n + 1 .. m) = IF n + 1 > m THEN 0 ELSE m - (n + 1) + 1
    BY <2>1, <2>2
  <2> HIDE DEF m
  <2> QED
    BY <1>1, <2>3
<1>7. IsFiniteSet(E) /\ Cardinality(E) <= n
  BY <1>4, <1>6, FS_Injection
<1>8. IsFiniteSet(F) /\ Cardinality(F) <= m - n
  BY <1>5, <1>6, FS_Injection
<1>9. Cardinality(E) \in Nat /\ Cardinality(F) \in Nat
  BY <1>7, <1>8, FS_CardinalityType
<1>10. m = Cardinality(E) + Cardinality(F)
  <2>1. E \cup F = D /\ E \cap F = {}
    OBVIOUS
  <2>2. Cardinality(E \cup F) = Cardinality(E) + Cardinality(F) - Cardinality(E \cap F)
    BY <1>7, <1>8, FS_Union
  <2>3. Cardinality(E \cap F) = 0
    BY <2>1, FS_EmptySet
  <2>4. Cardinality(D) = Cardinality(E) + Cardinality(F) - 0
    BY <2>1, <2>2, <2>3
  <2> HIDE DEF E, F
  <2> QED
    BY <1>9, <2>4
<1> HIDE DEF E, F, m
<1> QED
  BY <1>1, <1>7, <1>8, <1>9, <1>10 DEF E

\* With the Mega kept by one slot at most, what a policy puts together slot by
\* slot is what the rules ask for.
LEMMA TurnIsAllowed ==
  ASSUME NEW s \in Sides, req[s].ask # "team", req[s].ask # "switch",
         NEW c \in TurnChoices(s), NEW keep \in SUBSET Positions,
         \A j, k \in keep : j = k
  PROVE  KeepMega(c, keep) \in Allowed(s)
<1> DEFINE d == KeepMega(c, keep)
           Acts == {Nothing} \cup {Switch(i) : i \in Bench(s)} \cup [do : {"move"}, mega : BOOLEAN, to : {0}]
<1>1. /\ DOMAIN c = Positions /\ Apart(c)
      /\ \A k \in Positions : IF Alive(s, k) THEN c[k] \in SlotOptions(s, k) ELSE c[k] = Nothing
  BY DEF TurnChoices, SlotChoices
<1>2. d = [k \in Positions |->
            [do |-> c[k].do, mega |-> IF k \in keep THEN c[k].mega ELSE FALSE, to |-> c[k].to]]
  BY <1>1 DEF KeepMega
<1>3. ASSUME NEW k \in Positions
      PROVE  /\ d[k] \in Acts
             /\ d[k].do = c[k].do /\ d[k].to = c[k].to
             /\ d[k].mega => k \in keep /\ CanMega(s, k)
             /\ (d[k] = Nothing) <=> ~Alive(s, k)
             /\ d[k].do = "switch" => k \notin trapped[s]
  <2>1. d[k] = [do |-> c[k].do, mega |-> IF k \in keep THEN c[k].mega ELSE FALSE, to |-> c[k].to]
    BY <1>2
  <2>2. CASE ~Alive(s, k)
    <3>1. c[k] = Nothing
      BY <1>1, <2>2 DEF Nothing
    <3>2. d[k] = Nothing
      BY <2>1, <3>1 DEF Nothing
    <3> QED
      BY <2>2, <3>1, <3>2 DEF Nothing
  <2>3. CASE Alive(s, k) /\ c[k] = [do |-> "move", mega |-> CanMega(s, k), to |-> 0]
    <3>1. CanMega(s, k) \in BOOLEAN
      BY DEF CanMega
    <3>2. PICK m \in BOOLEAN : d[k] = [do |-> "move", mega |-> m, to |-> 0] /\ (m => k \in keep /\ CanMega(s, k))
      <4>1. CASE k \in keep
        BY <2>1, <2>3, <3>1, <4>1
      <4>2. CASE k \notin keep
        <5>1. d[k] = [do |-> "move", mega |-> FALSE, to |-> 0]
          BY <2>1, <2>3, <4>2
        <5> QED
          BY <5>1
      <4> QED
        BY <4>1, <4>2
    <3> HIDE DEF d
    <3>3. d[k].do = "move" /\ d[k].to = 0 /\ (d[k].mega => k \in keep /\ CanMega(s, k))
      BY <3>2
    <3>4. d[k] \in [do : {"move"}, mega : BOOLEAN, to : {0}]
      BY <3>2
    <3>5. d[k] # Nothing
      BY <3>3 DEF Nothing
    <3> QED
      BY <2>3, <3>3, <3>4, <3>5
  <2>4. CASE Alive(s, k) /\ k \notin trapped[s] /\ \E i \in Bench(s) : c[k] = Switch(i)
    <3>1. PICK i \in Bench(s) : c[k] = Switch(i)
      BY <2>4
    <3>3. d[k] = Switch(i)
      BY <2>1, <3>1 DEF Switch
    <3>4. d[k] # Nothing /\ d[k].mega = FALSE
      BY <3>3 DEF Switch, Nothing
    <3> QED
      BY <2>4, <3>1, <3>3, <3>4 DEF Switch
  <2>5. Alive(s, k) => \/ c[k] = [do |-> "move", mega |-> CanMega(s, k), to |-> 0]
                       \/ k \notin trapped[s] /\ \E i \in Bench(s) : c[k] = Switch(i)
    <3>1. Alive(s, k) => c[k] \in SlotOptions(s, k)
      BY <1>1
    <3> QED
      BY <3>1 DEF SlotOptions
  <2> QED
    BY <2>2, <2>3, <2>4, <2>5
<1>4. DOMAIN d = Positions /\ d \in [Positions -> Acts]
  BY <1>2, <1>3
<1>5. Apart(d)
  <2>1. Switches(d) = Switches(c)
    BY <1>1, <1>3, <1>4 DEF Switches
  <2>2. \A k \in Switches(c) : k \in Positions
    BY <1>1 DEF Switches
  <2> QED
    BY <1>1, <1>3, <2>1, <2>2 DEF Apart
<1>6. Cardinality(Megas(d)) <= 1
  <2>1. \A j \in Megas(d) : j \in keep
    BY <1>3, <1>4 DEF Megas
  <2>2. CASE Megas(d) = {}
    BY <2>2, FS_EmptySet
  <2>3. CASE Megas(d) # {}
    <3>1. PICK k \in Megas(d) : TRUE
      BY <2>3
    <3>2. Megas(d) = {k}
      BY <2>1, <3>1
    <3>3. Cardinality({k}) = 1
      BY FS_Singleton
    <3> QED
      BY <3>2, <3>3
  <2> QED
    BY <2>2, <2>3
<1> HIDE DEF d
<1>7. d \in {x \in [Positions -> Acts] :
               /\ Apart(x) /\ Cardinality(Megas(x)) <= 1
               /\ \A k \in Positions :
                    /\ (x[k] = Nothing) <=> ~Alive(s, k)
                    /\ x[k].mega => CanMega(s, k)
                    /\ x[k].do = "switch" => k \notin trapped[s]}
  BY <1>3, <1>4, <1>5, <1>6
<1> QED
  BY <1>7 DEF Allowed, d

\* A slot keeps the Mega alone: the first, or the one that attacks.
LEMMA TurnsAreAllowed ==
  ASSUME NEW s \in Sides, req[s].ask # "team", req[s].ask # "switch"
  PROVE  SimpleTurn(s) \subseteq Allowed(s) /\ HeuristicTurn(s) \subseteq Allowed(s)
<1>1. \A c \in TurnChoices(s) : Megas(c) \in SUBSET Positions /\ \A k \in Megas(c) : k \in Int
  <2>1. \A k \in Positions : k \in Int
    BY DEF Positions
  <2>2. \A c \in TurnChoices(s) : DOMAIN c = Positions
    BY DEF TurnChoices, SlotChoices
  <2> QED
    BY <2>1, <2>2 DEF Megas
<1>2. ASSUME NEW d \in SimpleTurn(s) PROVE d \in Allowed(s)
  <2>1. PICK c \in TurnChoices(s) : d = KeepMega(c, {k \in Megas(c) : \A j \in Megas(c) : k <= j})
    BY DEF SimpleTurn
  <2> DEFINE keep == {k \in Megas(c) : \A j \in Megas(c) : k <= j}
  <2>2. keep \in SUBSET Positions /\ \A j, k \in keep : j = k
    BY <1>1
  <2> HIDE DEF keep
  <2> QED
    BY <2>1, <2>2, TurnIsAllowed DEF keep
<1>3. ASSUME NEW d \in HeuristicTurn(s) PROVE d \in Allowed(s)
  <2>1. PICK c \in TurnChoices(s) :
          d \in {KeepMega(c, keep) : keep \in IF Megas(c) = {} THEN {{}} ELSE {{k} : k \in Megas(c)}}
    BY DEF HeuristicTurn
  <2>2. PICK keep \in (IF Megas(c) = {} THEN {{}} ELSE {{k} : k \in Megas(c)}) : d = KeepMega(c, keep)
    BY <2>1
  <2>3. keep \in SUBSET Positions /\ \A j, k \in keep : j = k
    BY <1>1, <2>2
  <2> QED
    BY <2>2, <2>3, TurnIsAllowed
<1> QED
  BY <1>2, <1>3

\* Replacements are sent slot after slot: to all that ask, or all there are.
LEMMA ForcedIsAllowed ==
  ASSUME NEW s \in Sides, req[s].ask = "switch", req[s].slots \in SUBSET Positions,
         IsFiniteSet(Bench(s)), NEW c \in ForcedSwitch(s)
  PROVE  c \in Allowed(s)
<1> DEFINE D == req[s].slots
           b == Cardinality(Bench(s))
           T == {c[k].to : k \in Switches(c)}
<1>1. /\ c \in [Positions -> {Nothing} \cup {Switch(i) : i \in Bench(s)}] /\ Apart(c)
      /\ \A k \in Positions : (c[k].do = "switch") <=> (k \in D /\ Cardinality(UpTo(D, k)) <= b)
  BY DEF ForcedSwitch, Must, UpTo
<1>2. Switches(c) = {k \in D : Cardinality(UpTo(D, k)) <= b}
  BY <1>1 DEF Switches
<1>3. D \in SUBSET Nat /\ IsFiniteSet(D) /\ Cardinality(D) \in Nat /\ b \in Nat
  BY BattleAssumption, IndexSetFinite, FS_CardinalityType DEF Positions
<1>4. ASSUME NEW k \in Switches(c) PROVE c[k].to \in Bench(s)
  <2>1. k \in Positions /\ c[k].do = "switch"
    BY <1>1 DEF Switches
  <2>2. c[k] # Nothing
    BY <2>1 DEF Nothing
  <2>3. PICK i \in Bench(s) : c[k] = Switch(i)
    BY <1>1, <2>1, <2>2
  <2> QED
    BY <2>3 DEF Switch
<1>5. CASE Cardinality(D) <= b
  <2>1. \A k \in D : Cardinality(UpTo(D, k)) \in 1 .. Cardinality(D)
    BY <1>3, RankGrows
  <2>2. \A k \in D : Cardinality(UpTo(D, k)) <= b
    BY <1>3, <1>5, <2>1
  <2>3. Switches(c) = D
    BY <1>2, <2>2
  <2> QED
    BY <1>1, <2>3 DEF Allowed
<1>6. CASE ~(Cardinality(D) <= b)
  <2>1. b \in 0 .. Cardinality(D)
    BY <1>3, <1>6
  <2>2. Cardinality(Switches(c)) = b
    BY <1>2, <1>3, <2>1, FirstPlaces
  <2>3. IsFiniteSet(Switches(c)) /\ Switches(c) \subseteq D
    BY <1>2, <1>3, FS_Subset
  <2> DEFINE g == [k \in Switches(c) |-> c[k].to]
  <2>4. g \in Injection(Switches(c), Bench(s))
    <3>1. g \in [Switches(c) -> Bench(s)]
      BY <1>4
    <3>2. \A j, k \in Switches(c) : g[j] = g[k] => j = k
      BY <1>1 DEF Apart
    <3> HIDE DEF g
    <3> QED
      BY <3>1, <3>2 DEF Injection, IsInjective
  <2>5. g \in Surjection(Switches(c), Bench(s))
    BY <2>2, <2>4, FS_Injection
  <2>6. T = Bench(s)
    <3>1. \A i \in Bench(s) : \E k \in Switches(c) : g[k] = i
      <4> HIDE DEF g
      <4> QED
        BY <2>5 DEF Surjection
    <3> QED
      BY <1>4, <3>1
  <2> QED
    BY <1>1, <1>2, <2>3, <2>6 DEF Allowed
<1> QED
  BY <1>5, <1>6

LEMMA EverybodyInLine ==
  SetToSeq(Members) \in Seq(Members) /\ Len(SetToSeq(Members)) = Cardinality(Members)
<1> DEFINE n == Cardinality(Members)
<1>1. IsFiniteSet(Members) /\ n \in Nat
  BY BattleAssumption, FS_CardinalityType
<1>2. PICK f \in [1 .. n -> Members] : IsInjective(f)
  <2>1. ExistsBijection(1 .. n, Members)
    <3>1. PICK k \in Nat : ExistsBijection(1 .. k, Members)
      BY <1>1, FS_NatBijection
    <3>2. n = k
      BY <3>1, FS_CountingElements
    <3> QED
      BY <3>1, <3>2
  <2>2. PICK f : f \in Bijection(1 .. n, Members)
    BY <2>1 DEF ExistsBijection
  <2>3. f \in Injection(1 .. n, Members)
    BY <2>2 DEF Bijection
  <2> QED
    BY <2>3 DEF Injection
<1>3. SetToSeq(Members) \in [1 .. n -> Members]
  BY <1>2 DEF SetToSeq
<1> HIDE DEF n
<1>4. Len(SetToSeq(Members)) = n /\ SetToSeq(Members) \in Seq(Members)
  BY <1>1, <1>3
<1> QED
  BY <1>4 DEF n

\* A battle's rules for a side are of its team, and who of it is out, trapped or
\* evolved.
LEMMA RulesStay ==
  ASSUME NEW s \in Sides,
         UNCHANGED <<party, fainted, evolved, req, trapped>>
  PROVE  Allowed(s)' = Allowed(s)
<1>1. party' = party /\ fainted' = fainted /\ evolved' = evolved /\ req' = req /\ trapped' = trapped
  OBVIOUS
<1>2. Bench(s)' = Bench(s)
  BY <1>1 DEF Bench, Alive
<1>3. \A k \in Positions : (Alive(s, k)' <=> Alive(s, k)) /\ (CanMega(s, k)' <=> CanMega(s, k))
  BY <1>1 DEF Alive, CanMega
<1> QED
  BY <1>1, <1>2, <1>3 DEF Allowed

\* A choice that is allowed moves somebody of the field, and sends in who is there.
LEMMA AllowedActs ==
  ASSUME BattleInv, NEW s \in Sides, req[s].ask # "team", NEW c \in Allowed(s)
  PROVE  /\ c # <<>> /\ DOMAIN c = Positions
         /\ \A k \in Switches(c) : k \in DOMAIN party[s] /\ c[k].to \in DOMAIN party[s]
<1> DEFINE Acts == {Nothing} \cup {Switch(i) : i \in Bench(s)} \cup [do : {"move"}, mega : BOOLEAN, to : {0}]
<1>1. c \in [Positions -> Acts]
  <2>1. CASE req[s].ask = "switch"
    <3>1. c \in [Positions -> {Nothing} \cup {Switch(i) : i \in Bench(s)}]
      BY <2>1 DEF Allowed
    <3> QED
      BY <3>1
  <2>2. CASE req[s].ask # "switch"
    BY <2>2 DEF Allowed
  <2> QED
    BY <2>1, <2>2
<1>2. Slots \in Nat \ {0} /\ Len(party[s]) \in Nat /\ Slots <= Len(party[s])
      /\ DOMAIN party[s] = 1 .. Len(party[s])
  BY BattleAssumption DEF BattleInv, Fielded
<1>3. DOMAIN c = Positions /\ c # <<>>
  <2>1. 1 \in Positions /\ DOMAIN c = Positions
    BY <1>1, <1>2 DEF Positions
  <2> QED
    BY <2>1
<1>4. ASSUME NEW k \in Switches(c) PROVE k \in DOMAIN party[s] /\ c[k].to \in DOMAIN party[s]
  <2>1. k \in Positions /\ c[k].do = "switch"
    BY <1>3 DEF Switches
  <2>2. c[k] # Nothing /\ c[k] \notin [do : {"move"}, mega : BOOLEAN, to : {0}]
    BY <2>1 DEF Nothing
  <2>3. PICK i \in Bench(s) : c[k] = Switch(i)
    BY <1>1, <2>1, <2>2
  <2>4. c[k].to = i /\ i \in Slots + 1 .. Len(party[s])
    BY <2>3 DEF Switch, Bench
  <2> QED
    BY <1>2, <2>1, <2>4 DEF Positions
<1> QED
  BY <1>3, <1>4

LEMMA SwapKeeps ==
  ASSUME NEW p \in Seq(Members), NEW c,
         \A k \in Switches(c) : k \in DOMAIN p /\ c[k].to \in DOMAIN p
  PROVE  Swapped(p, c) \in Seq(Members) /\ Len(Swapped(p, c)) = Len(p)
<1>1. ASSUME NEW i \in DOMAIN p PROVE Swapped(p, c)[i] \in Members
  <2>1. CASE i \in Switches(c)
    BY <2>1 DEF Swapped
  <2>2. CASE i \notin Switches(c) /\ \E k \in Switches(c) : c[k].to = i
    <3> DEFINE j == CHOOSE k \in Switches(c) : c[k].to = i
    <3>1. j \in Switches(c)
      BY <2>2
    <3>2. Swapped(p, c)[i] = p[j]
      BY <2>2 DEF Swapped
    <3> HIDE DEF j
    <3> QED
      BY <3>1, <3>2
  <2>3. CASE i \notin Switches(c) /\ ~\E k \in Switches(c) : c[k].to = i
    BY <2>3 DEF Swapped
  <2> QED
    BY <2>1, <2>2, <2>3
<1>2. DOMAIN Swapped(p, c) = 1 .. Len(p) /\ Len(p) \in Nat
  BY DEF Swapped
<1>3. Swapped(p, c) = [i \in 1 .. Len(p) |-> Swapped(p, c)[i]]
  BY DEF Swapped
<1>4. Swapped(p, c) \in [1 .. Len(p) -> Members]
  <2> DEFINE q == Swapped(p, c)
  <2>1. q = [i \in 1 .. Len(p) |-> q[i]]
    BY <1>3
  <2>2. \A i \in 1 .. Len(p) : q[i] \in Members
    BY <1>1
  <2> HIDE DEF q
  <2>3. q \in [1 .. Len(p) -> Members]
    BY <2>1, <2>2
  <2> QED
    BY <2>3 DEF q
<1> QED
  BY <1>2, <1>4

\* What playing on leaves: nobody has chosen; the battle is over, or the next turn
\* or replacements are asked for.
LEMMA PlaysOn ==
  ASSUME NEW p, PlayOn(p)
  PROVE  /\ party' = p /\ choice' = [s \in Sides |-> <<>>]
         /\ \/ /\ result' # "none" /\ req' = [s \in Sides |-> Wait]
               /\ turn' = turn /\ breaks' = breaks
            \/ /\ result' = result /\ req' = [s \in Sides |-> [ask |-> "move", slots |-> {}]]
               /\ turn' = turn + 1 /\ breaks' = 0
            \/ /\ result' = result /\ turn' = turn /\ breaks < MaxBreaks /\ breaks' = breaks + 1
               /\ \E slots \in [Sides -> SUBSET Positions] :
                    /\ \E s \in Sides : slots[s] # {}
                    /\ req' = [s \in Sides |-> IF slots[s] = {} THEN Wait
                                               ELSE [ask |-> "switch", slots |-> slots[s]]]
<1>1. PICK out \in [Sides -> SUBSET Members] :
        LET gone == [s \in Sides |-> fainted[s] \cup out[s]]
            lost == {s \in Sides : ToSet(p[s]) \subseteq gone[s]}
            gaps == [s \in Sides |-> Gaps(p[s], gone[s])]
        IN
        /\ fainted' = gone /\ party' = p /\ choice' = [s \in Sides |-> <<>>]
        /\ IF lost # {}
           THEN /\ result' = IF lost = Sides THEN "tie" ELSE IF lost = {1} THEN "second" ELSE "first"
                /\ req' = [s \in Sides |-> Wait]
                /\ UNCHANGED <<turn, breaks, trapped>>
           ELSE IF \E s \in Sides : gaps[s] # {} THEN AskReplacements(gaps)
           ELSE \/ AskMoves
                \/ \E s \in Sides, k \in Positions :
                     /\ p[s][k] \notin gone[s]
                     /\ \E i \in Slots + 1 .. Len(p[s]) : p[s][i] \notin gone[s]
                     /\ AskReplacements([q \in Sides |-> IF q = s THEN {k} ELSE {}])
  BY DEF PlayOn
<1> DEFINE gone == [s \in Sides |-> fainted[s] \cup out[s]]
           lost == {s \in Sides : ToSet(p[s]) \subseteq gone[s]}
           gaps == [s \in Sides |-> Gaps(p[s], gone[s])]
<1>2. party' = p /\ choice' = [s \in Sides |-> <<>>]
  BY <1>1
<1>3. gaps \in [Sides -> SUBSET Positions]
  BY DEF Gaps
<1>4. CASE lost # {}
  <2>1. /\ result' = IF lost = Sides THEN "tie" ELSE IF lost = {1} THEN "second" ELSE "first"
        /\ req' = [s \in Sides |-> Wait] /\ turn' = turn /\ breaks' = breaks
    BY <1>1, <1>4
  <2> HIDE DEF lost
  <2> QED
    BY <1>2, <2>1
<1>5. CASE lost = {} /\ \E s \in Sides : gaps[s] # {}
  <2>1. AskReplacements(gaps)
    BY <1>1, <1>5
  <2> HIDE DEF gaps, lost
  <2> QED
    BY <1>2, <1>3, <1>5, <2>1 DEF AskReplacements
<1>6. CASE lost = {} /\ ~\E s \in Sides : gaps[s] # {}
  <2>1. \/ AskMoves
        \/ \E s \in Sides, k \in Positions : AskReplacements([q \in Sides |-> IF q = s THEN {k} ELSE {}])
    BY <1>1, <1>6
  <2>2. CASE AskMoves
    BY <1>2, <2>2 DEF AskMoves
  <2>3. ASSUME NEW s \in Sides, NEW k \in Positions,
               AskReplacements([q \in Sides |-> IF q = s THEN {k} ELSE {}])
        PROVE  /\ result' = result /\ turn' = turn /\ breaks < MaxBreaks /\ breaks' = breaks + 1
               /\ \E slots \in [Sides -> SUBSET Positions] :
                    /\ \E q \in Sides : slots[q] # {}
                    /\ req' = [q \in Sides |-> IF slots[q] = {} THEN Wait
                                               ELSE [ask |-> "switch", slots |-> slots[q]]]
    <3> DEFINE slots == [q \in Sides |-> IF q = s THEN {k} ELSE {}]
    <3>1. slots \in [Sides -> SUBSET Positions] /\ slots[s] # {}
      OBVIOUS
    <3> HIDE DEF slots
    <3> QED
      BY <2>3, <3>1 DEF AskReplacements, slots
  <2> QED
    BY <1>2, <2>1, <2>2, <2>3
<1> QED
  BY <1>4, <1>5, <1>6

\* After a side's allowed choice the battle waits for the other side, or plays on.
LEMMA Accepted ==
  ASSUME BattleInv, NEW s \in Sides, Asked(s), NEW c \in Allowed(s), Accept(s, c)
  PROVE  /\ Asking' /\ Fielded'
         /\ \/ /\ c # <<>> /\ choice' = [choice EXCEPT ![s] = c]
               /\ req' = req /\ turn' = turn /\ breaks' = breaks /\ result' = result
               /\ \E q \in Sides \ {s} : Asked(q)
            \/ /\ req[s].ask # "team" /\ turn' = turn /\ breaks' = breaks /\ result' # "none"
               /\ \A q \in Sides : req'[q].ask = "wait"
            \/ /\ choice' = [q \in Sides |-> <<>>] /\ result' = result
               /\ turn' = turn + 1 /\ breaks' = 0
               /\ \A q \in Sides : req'[q].ask = "move"
            \/ /\ choice' = [q \in Sides |-> <<>>] /\ result' = result
               /\ req[s].ask # "team" /\ turn' = turn /\ breaks < MaxBreaks /\ breaks' = breaks + 1
               /\ \A q \in Sides : req'[q].ask \in {"switch", "wait"}
               /\ \E q \in Sides : req'[q].ask = "switch"
<1> DEFINE all == [choice EXCEPT ![s] = c]
<1>0. choice = [q \in Sides |-> choice[q]] /\ DOMAIN choice = Sides
  BY DEF BattleInv, Fielded
<1>1. all[s] = c /\ (\A q \in Sides \ {s} : all[q] = choice[q]) /\ DOMAIN all = Sides
  BY <1>0
<1>2. c # <<>>
  <2>1. CASE req[s].ask = "team"
    <3>1. c \in Orders
      BY <2>1 DEF Allowed
    <3>2. Slots \in Nat \ {0} /\ c \in Seq(1 .. Cardinality(Members)) /\ Slots <= Len(c)
      BY <3>1, BattleAssumption
    <3> QED
      BY <3>2
  <2>2. CASE req[s].ask # "team"
    BY <2>2, AllowedActs
  <2> QED
    BY <2>1, <2>2
<1>3. CASE \E q \in Sides \ {s} : Asked(q)
  <2>1. choice' = all /\ party' = party /\ fainted' = fainted /\ evolved' = evolved /\ req' = req
        /\ trapped' = trapped /\ turn' = turn /\ breaks' = breaks /\ result' = result
    BY <1>3 DEF Accept
  <2>2. \A q \in Sides : Allowed(q)' = Allowed(q)
    BY <2>1, RulesStay
  <2>3. Asking'
    BY <2>1 DEF BattleInv, Asking, Positions
  <2>4. \A q \in Sides : choice'[q] = <<>> \/ choice'[q] \in Allowed(q)'
    BY <1>1, <2>1, <2>2 DEF BattleInv, Fielded
  <2>5. choice' = [q \in Sides |-> choice'[q]]
    BY <1>0, <2>1
  <2>6. Fielded'
    BY <2>1, <2>4, <2>5 DEF BattleInv, Fielded
  <2> QED
    BY <1>2, <1>3, <2>1, <2>3, <2>6
<1>4. CASE ~(\E q \in Sides \ {s} : Asked(q)) /\ req[s].ask = "team"
  <2> DEFINE line == [q \in Sides |-> [i \in DOMAIN all[q] |-> party[q][all[q][i]]]]
  <2>1. party' = line /\ choice' = [q \in Sides |-> <<>>] /\ AskMoves
    BY <1>3, <1>4 DEF Accept
  <2>2. ASSUME NEW q \in Sides PROVE line[q] \in Seq(Members) /\ Slots <= Len(line[q])
    <3>1. req[q].ask = "team"
      BY <1>4 DEF BattleInv, Asking
    <3>2. all[q] \in Allowed(q)
      <4>1. q # s => choice[q] # <<>>
        BY <1>4, <3>1 DEF Asked
      <4> QED
        BY <1>1, <4>1 DEF BattleInv, Fielded
    <3>3. all[q] \in Orders
      BY <3>1, <3>2 DEF Allowed
    <3>4. all[q] \in Seq(1 .. Cardinality(Members)) /\ Slots <= Len(all[q])
      BY <3>3, BattleAssumption
    <3>5. party[q] \in Seq(Members) /\ Len(party[q]) = Cardinality(Members)
      BY <3>1 DEF BattleInv, Fielded
    <3> DEFINE o == all[q]
    <3>6. line[q] = [i \in 1 .. Len(o) |-> party[q][o[i]]]
      BY <3>4
    <3> HIDE DEF all, line, o
    <3>7. \A i \in 1 .. Len(o) : o[i] \in 1 .. Cardinality(Members)
      <4>1. o \in Seq(1 .. Cardinality(Members))
        BY <3>4 DEF o
      <4> QED
        BY <4>1, ElementOfSeq
    <3>8. \A i \in 1 .. Len(o) : party[q][o[i]] \in Members
      BY <3>5, <3>7
    <3>9. Len(o) \in Nat
      BY <3>4 DEF o
    <3>10. line[q] \in Seq(Members) /\ Len(line[q]) = Len(o)
      BY <3>6, <3>8, <3>9
    <3> QED
      BY <3>4, <3>10 DEF o
  <2>3. line \in [Sides -> Seq(Members)]
    BY <2>2
  <2> HIDE DEF line, all
  <2>4. /\ req' = [q \in Sides |-> [ask |-> "move", slots |-> {}]]
        /\ turn' = turn + 1 /\ breaks' = 0 /\ result' = result
    BY <2>1 DEF AskMoves
  <2>5. \A q \in Sides : req'[q].ask = "move" /\ choice'[q] = <<>>
    BY <2>1, <2>4
  <2>6. req' \in [Sides -> [ask : {"team", "move", "switch", "wait"}, slots : SUBSET Positions]]
    BY <2>4
  <2>7. Asking'
    BY <2>5, <2>6 DEF Asking, Positions
  <2>8. Fielded'
    BY <2>1, <2>2, <2>3, <2>5 DEF Fielded
  <2> QED
    BY <2>1, <2>4, <2>5, <2>7, <2>8
<1>5. CASE ~(\E q \in Sides \ {s} : Asked(q)) /\ req[s].ask # "team"
  <2> DEFINE line == [q \in Sides |-> Swapped(party[q], all[q])]
  <2>1. PlayOn(line)
    BY <1>5 DEF Accept
  <2>2. ASSUME NEW q \in Sides PROVE line[q] \in Seq(Members) /\ Slots <= Len(line[q])
    <3>1. req[q].ask # "team"
      BY <1>5 DEF BattleInv, Asking
    <3>2. party[q] \in Seq(Members) /\ Slots <= Len(party[q])
      BY <3>1 DEF BattleInv, Fielded
    <3>3. \A k \in Switches(all[q]) : k \in DOMAIN party[q] /\ all[q][k].to \in DOMAIN party[q]
      <4>1. CASE all[q] \in Allowed(q)
        BY <3>1, <4>1, AllowedActs
      <4>2. CASE all[q] = <<>>
        BY <4>2 DEF Switches
      <4> QED
        BY <1>1, <4>1, <4>2 DEF BattleInv, Fielded
    <3>4. line[q] = Swapped(party[q], all[q])
      OBVIOUS
    <3> HIDE DEF line, all
    <3>5. Swapped(party[q], all[q]) \in Seq(Members) /\ Len(Swapped(party[q], all[q])) = Len(party[q])
      BY <3>2, <3>3, SwapKeeps
    <3> QED
      BY <3>2, <3>4, <3>5
  <2>3. line \in [Sides -> Seq(Members)]
    BY <2>2
  <2> HIDE DEF line, all
  <2> DEFINE Ask == [ask : {"team", "move", "switch", "wait"}, slots : SUBSET Positions]
  <2>4. party' = line /\ choice' = [q \in Sides |-> <<>>]
    BY <2>1, PlaysOn
  <2>5. \/ /\ result' # "none" /\ req' = [q \in Sides |-> Wait]
           /\ turn' = turn /\ breaks' = breaks
        \/ /\ result' = result /\ req' = [q \in Sides |-> [ask |-> "move", slots |-> {}]]
           /\ turn' = turn + 1 /\ breaks' = 0
        \/ /\ result' = result /\ turn' = turn /\ breaks < MaxBreaks /\ breaks' = breaks + 1
           /\ \E slots \in [Sides -> SUBSET Positions] :
                /\ \E q \in Sides : slots[q] # {}
                /\ req' = [q \in Sides |-> IF slots[q] = {} THEN Wait
                                           ELSE [ask |-> "switch", slots |-> slots[q]]]
    BY <2>1, PlaysOn
  <2>6. ASSUME req' = [q \in Sides |-> Wait]
        PROVE  req' \in [Sides -> Ask] /\ \A q \in Sides : req'[q].ask = "wait"
    BY <2>6 DEF Wait
  <2>7. ASSUME req' = [q \in Sides |-> [ask |-> "move", slots |-> {}]]
        PROVE  req' \in [Sides -> Ask] /\ \A q \in Sides : req'[q].ask = "move"
    BY <2>7
  <2>8. ASSUME NEW slots \in [Sides -> SUBSET Positions], \E q \in Sides : slots[q] # {},
               req' = [q \in Sides |-> IF slots[q] = {} THEN Wait
                                       ELSE [ask |-> "switch", slots |-> slots[q]]]
        PROVE  /\ req' \in [Sides -> Ask]
               /\ \A q \in Sides : req'[q].ask \in {"switch", "wait"}
               /\ \E q \in Sides : req'[q].ask = "switch"
    <3>1. ASSUME NEW q \in Sides
          PROVE  /\ req'[q] \in Ask /\ req'[q].ask \in {"switch", "wait"}
                 /\ slots[q] # {} => req'[q].ask = "switch"
      <4>1. CASE slots[q] = {}
        <5>1. req'[q] = [ask |-> "wait", slots |-> {}]
          BY <2>8, <4>1 DEF Wait
        <5> QED
          BY <4>1, <5>1
      <4>2. CASE slots[q] # {}
        <5>1. req'[q] = [ask |-> "switch", slots |-> slots[q]] /\ slots[q] \in SUBSET Positions
          BY <2>8, <4>2
        <5> QED
          BY <4>2, <5>1
      <4> QED
        BY <4>1, <4>2
    <3>2. req' = [q \in Sides |-> req'[q]]
      BY <2>8
    <3> HIDE DEF Ask
    <3>3. req' \in [Sides -> Ask]
      BY <3>1, <3>2
    <3> QED
      BY <2>8, <3>1, <3>3
  <2> HIDE DEF Ask
  <2>9. req' \in [Sides -> Ask] /\ \A q \in Sides : req'[q].ask # "team"
    BY <2>5, <2>6, <2>7, <2>8
  <2>10. Asking'
    BY <2>9 DEF Asking, Ask, Positions
  <2>11. \A q \in Sides : choice'[q] = <<>>
    BY <2>4
  <2>12. Fielded'
    BY <2>2, <2>3, <2>4, <2>9, <2>11 DEF Fielded
  <2> QED
    BY <1>5, <2>4, <2>5, <2>6, <2>7, <2>8, <2>10, <2>12
<1> HIDE DEF all
<1> QED
  BY <1>3, <1>4, <1>5

\* What a policy chooses is allowed, whatever it is asked for.
LEMMA ChosenIsAllowed ==
  ASSUME BattleInv, NEW s \in Sides, Asked(s)
  PROVE  Choose(s) \subseteq Allowed(s)
<1>1. CASE req[s].ask = "team"
  BY <1>1 DEF Choose, Allowed
<1>2. CASE req[s].ask = "switch"
  <2>1. req[s].slots \in SUBSET Positions
    BY DEF BattleInv, Asking
  <2>2. IsFiniteSet(Bench(s))
    <3>1. Slots + 1 \in Int /\ Len(party[s]) \in Int
      BY BattleAssumption DEF BattleInv, Fielded
    <3>2. IsFiniteSet(Slots + 1 .. Len(party[s]))
      BY <3>1, FS_Interval
    <3>3. Bench(s) \subseteq Slots + 1 .. Len(party[s])
      BY DEF Bench
    <3> QED
      BY <3>2, <3>3, FS_Subset
  <2>3. \A c \in ForcedSwitch(s) : c \in Allowed(s)
    BY <1>2, <2>1, <2>2, ForcedIsAllowed
  <2> QED
    BY <1>2, <2>3 DEF Choose
<1>3. CASE req[s].ask # "team" /\ req[s].ask # "switch"
  <2>1. SimpleTurn(s) \subseteq Allowed(s) /\ HeuristicTurn(s) \subseteq Allowed(s)
    BY <1>3, TurnsAreAllowed
  <2>2. Choose(s) = IF Policy[s] = "heuristic" THEN HeuristicTurn(s) ELSE SimpleTurn(s)
    BY <1>3 DEF Choose
  <2> QED
    BY <2>1, <2>2
<1> QED
  BY <1>1, <1>2, <1>3

\* So a choice is replaced only where the policy threw.
LEMMA Decided ==
  ASSUME BattleInv, Decide
  PROVE  /\ at \in Sides /\ Asked(at) /\ at' = at + 1 /\ pass' = pass /\ refused' = refused
         /\ \E c \in Allowed(at) : Accept(at, c)
<1>1. at \in Sides /\ Asked(at) /\ at' = at + 1 /\ pass' = pass
  BY DEF Decide
<1>2. \A c \in Choose(at) : c \in Allowed(at)
  BY <1>1, ChosenIsAllowed
<1>3. \/ \E c \in Choose(at) : c \in Allowed(at) /\ Accept(at, c) /\ refused' = refused
      \/ \E c \in Choose(at) : c \notin Allowed(at)
      \/ \E c \in Allowed(at) : Accept(at, c) /\ refused' = refused
  BY DEF Decide
<1> QED
  BY <1>1, <1>2, <1>3

\* The rules are the same, and so is all that waits for a side.
LEMMA BattleRests ==
  ASSUME BattleInv, UNCHANGED battle, refused' = refused
  PROVE  BattleInv' /\ \A s \in Sides : Asked(s)' <=> Asked(s)
<1>1. /\ party' = party /\ fainted' = fainted /\ evolved' = evolved /\ req' = req
      /\ trapped' = trapped /\ choice' = choice
  BY DEF battle
<1>2. \A s \in Sides : Allowed(s)' = Allowed(s)
  BY <1>1, RulesStay
<1>3. Asking'
  BY <1>1 DEF BattleInv, Asking, Positions
<1>4. Fielded'
  BY <1>1, <1>2 DEF BattleInv, Fielded
<1> QED
  BY <1>1, <1>3, <1>4 DEF BattleInv, Asked

LEMMA BattleBegins ==
  ASSUME BattleInit
  PROVE  BattleInv /\ (\A s \in Sides : req[s].ask = "team" /\ Asked(s))
<1>1. /\ party \in [Sides -> {SetToSeq(Members)}]
      /\ req = [s \in Sides |-> [ask |-> "team", slots |-> {}]]
      /\ choice = [s \in Sides |-> <<>>] /\ ~refused
  BY DEF BattleInit
<1>2. \A s \in Sides : req[s].ask = "team" /\ choice[s] = <<>>
  BY <1>1
<1>3. Asking
  BY <1>1, <1>2 DEF Asking
<1>4. \A s \in Sides : party[s] = SetToSeq(Members)
  BY <1>1
<1>5. party \in [Sides -> Seq(Members)]
  BY <1>1, EverybodyInLine
<1>6. Fielded
  BY <1>1, <1>2, <1>4, <1>5, EverybodyInLine DEF Fielded
<1> QED
  BY <1>1, <1>2, <1>3, <1>6 DEF BattleInv, Asked

LEMMA BattleStep ==
  ASSUME BattleInv, [BattleNext]_battleVars
  PROVE  BattleInv'
<1>1. CASE Skip
  BY <1>1, BattleRests DEF Skip
<1>2. CASE PassEnds
  BY <1>2, BattleRests DEF PassEnds
<1>3. CASE UNCHANGED battleVars
  BY <1>3, BattleRests DEF battleVars
<1>4. CASE Decide
  <2>1. at \in Sides /\ Asked(at) /\ refused' = refused /\ \E c \in Allowed(at) : Accept(at, c)
    BY <1>4, Decided
  <2>2. PICK c \in Allowed(at) : Accept(at, c)
    BY <2>1
  <2>3. Asking' /\ Fielded'
    BY <2>1, <2>2, Accepted
  <2> QED
    BY <2>1, <2>3 DEF BattleInv
<1> QED
  BY <1>1, <1>2, <1>3, <1>4 DEF BattleNext

\* What a policy of docker/sim/policies.js chooses is never refused by the rules:
\* for any teams, orders and number of active slots, and however often a turn asks
\* for replacements.
THEOREM PoliciesAreLegal == BattleSpec => []ChoicesAreLegal
<1>1. BattleInit => BattleInv
  BY BattleBegins
<1>2. BattleInv /\ [BattleNext]_battleVars => BattleInv'
  BY BattleStep
<1>3. BattleInv => ChoicesAreLegal
  BY DEF BattleInv, ChoicesAreLegal
<1> QED
  BY <1>1, <1>2, <1>3, PTL DEF BattleSpec

-----------------------------------------------------------------------------
(* The passes of the loop.  Each plays on, since a side that chooses last   *)
(* starts play; so there are no more than the plays, and those are counted  *)
(* by the turn and the replacements asked for within it.                    *)

\* A choice that is waited for is a pass not played yet; the last one plays.
LEMMA CountedDecide ==
  ASSUME BattleInv, Counted, MaxBreaks <= 2, Decide
  PROVE  Counted'
<1>1. /\ at \in Sides /\ Asked(at) /\ at' = at + 1 /\ pass' = pass
      /\ \E c \in Allowed(at) : Accept(at, c)
  BY Decided
<1>2. PICK c \in Allowed(at) : Accept(at, c)
  BY <1>1
<1>3. /\ turn \in Nat /\ breaks \in 0 .. MaxBreaks /\ pass \in Nat \ {0} /\ at \in {1, 2}
      /\ MaxBreaks \in {0, 1, 2} /\ breaks \in {0, 1, 2}
  BY <1>1, BattleAssumption DEF Counted, Sides
<1>4. \A s \in Sides : req[s].ask = "team" <=> turn = 0
  BY DEF Counted
<1>5. result = "none" => /\ pass <= 1 + Plays
                         /\ at = 2 => pass <= Plays \/ ~Asked(1)
  <2>1. at = 1 \/ at = 2
    BY <1>3
  <2>2. Plays \in Int
    BY <1>3 DEF Plays
  <2>3. CASE at = 1
    BY <2>3 DEF Counted
  <2>4. CASE at = 2
    BY <1>3, <2>2, <2>4 DEF Counted
  <2> QED
    BY <2>1, <2>3, <2>4
<1>6. Plays \in Int /\ (turn = 0 => Plays = 0 /\ breaks = 0)
  BY <1>3 DEF Plays, Counted
<1>7. pass' \in Nat \ {0} /\ at' \in {2, 3}
  BY <1>1, <1>3
<1>8. CASE /\ c # <<>> /\ choice' = [choice EXCEPT ![at] = c]
           /\ req' = req /\ turn' = turn /\ breaks' = breaks /\ result' = result
           /\ \E q \in Sides \ {at} : Asked(q)
  <2>1. PICK q \in Sides \ {at} : Asked(q)
    BY <1>8
  <2>2. DOMAIN choice = Sides
    BY DEF BattleInv, Fielded
  <2>3. (\A s \in Sides : s = at => ~Asked(s)') /\ Asked(q)'
    <3>1. choice'[at] = c /\ choice'[q] = choice[q]
      BY <1>1, <1>8, <2>1, <2>2
    <3>2. Asked(q)'
      BY <1>8, <2>1, <3>1 DEF Asked
    <3>3. ASSUME NEW s \in Sides, s = at PROVE ~Asked(s)'
      BY <1>8, <3>1, <3>3 DEF Asked
    <3> QED
      BY <3>2, <3>3
  <2>4. Plays' = Plays
    BY <1>8 DEF Plays
  <2> QED
    BY <1>1, <1>3, <1>4, <1>5, <1>6, <1>7, <1>8, <2>1, <2>3, <2>4 DEF Counted, Sides
<1>9. CASE /\ req[at].ask # "team" /\ turn' = turn /\ breaks' = breaks /\ result' # "none"
           /\ \A q \in Sides : req'[q].ask = "wait"
  BY <1>1, <1>3, <1>4, <1>7, <1>9 DEF Counted
<1> DEFINE asks == {q \in Sides : req'[q].ask # "wait" /\ choice'[q] = <<>>}
<1>10. CASE /\ choice' = [q \in Sides |-> <<>>] /\ result' = result
            /\ turn' = turn + 1 /\ breaks' = 0
            /\ \A q \in Sides : req'[q].ask = "move"
  <2>1. Plays' = 3 * turn + 1 /\ turn' \in Nat /\ turn' # 0
    BY <1>3, <1>10 DEF Plays
  <2>2. Plays + 1 <= Plays'
    <3>1. CASE turn = 0
      BY <1>6, <2>1, <3>1
    <3>2. CASE turn # 0
      <4>1. Plays = 3 * turn - 2 + breaks
        BY <3>2 DEF Plays
      <4> QED
        BY <1>3, <2>1, <4>1
    <3> QED
      BY <3>1, <3>2
  <2>3. \E s \in Sides : Asked(s)'
    <3>1. 1 \in Sides /\ choice'[1] = <<>> /\ req'[1].ask = "move"
      BY <1>10 DEF Sides
    <3> QED
      BY <3>1 DEF Asked
  <2>4. result' = "none" => pass' <= Plays'
    BY <1>1, <1>3, <1>5, <1>6, <1>10, <2>1, <2>2
  <2>5. \A s \in Sides : req'[s].ask # "team"
    BY <1>10
  <2>6. 0 \in 0 .. MaxBreaks
    BY BattleAssumption
  <2> HIDE DEF asks
  <2> QED
    BY <1>7, <1>10, <2>1, <2>3, <2>4, <2>5, <2>6 DEF Counted
<1>11. CASE /\ choice' = [q \in Sides |-> <<>>] /\ result' = result
            /\ req[at].ask # "team" /\ turn' = turn /\ breaks < MaxBreaks /\ breaks' = breaks + 1
            /\ \A q \in Sides : req'[q].ask \in {"switch", "wait"}
            /\ \E q \in Sides : req'[q].ask = "switch"
  <2>1. turn # 0 /\ Plays' = Plays + 1
    BY <1>1, <1>3, <1>4, <1>11 DEF Plays
  <2>2. \E s \in Sides : Asked(s)'
    <3>1. PICK q \in Sides : req'[q].ask = "switch"
      BY <1>11
    <3>2. choice'[q] = <<>>
      BY <1>11
    <3> QED
      BY <3>1, <3>2 DEF Asked
  <2>3. breaks' \in 0 .. MaxBreaks
    BY <1>3, <1>11
  <2>4. result' = "none" => pass' <= Plays'
    BY <1>1, <1>3, <1>5, <1>6, <1>11, <2>1
  <2>5. \A s \in Sides : req'[s].ask # "team"
    BY <1>11
  <2> HIDE DEF asks
  <2> QED
    BY <1>3, <1>7, <1>11, <2>1, <2>2, <2>3, <2>4, <2>5 DEF Counted
<1> QED
  BY <1>1, <1>2, <1>8, <1>9, <1>10, <1>11, Accepted

LEMMA CountedStep ==
  ASSUME BattleInv, Counted, MaxBreaks <= 2, [BattleNext]_battleVars
  PROVE  Counted'
<1>1. CASE Decide
  BY <1>1, CountedDecide
<1> SUFFICES ASSUME ~Decide PROVE Counted'
  BY <1>1
<1>2. /\ UNCHANGED battle /\ refused' = refused
      /\ \/ at \in Sides /\ ~Asked(at) /\ at' = at + 1 /\ pass' = pass
         \/ at = 3 /\ GoesOn /\ at' = 1 /\ pass' = pass + 1
         \/ at = 3 /\ ~GoesOn /\ at' = 0 /\ pass' = pass
         \/ at' = at /\ pass' = pass
  BY DEF BattleNext, Skip, PassEnds, battleVars
<1>3. /\ req' = req /\ turn' = turn /\ breaks' = breaks /\ result' = result
  BY <1>2 DEF battle
<1>4. /\ \A s \in Sides : Asked(s)' <=> Asked(s)
      /\ Plays' = Plays
  BY <1>2, <1>3, BattleRests DEF Plays
<1>5. 1 \in Sides /\ 2 \in Sides /\ \A s \in Sides : s = 1 \/ s = 2
  BY DEF Sides
<1>6. (Asked(1)' <=> Asked(1)) /\ (Asked(2)' <=> Asked(2)) /\ ((\E s \in Sides : Asked(s)) => Asked(1) \/ Asked(2))
  BY <1>4, <1>5
<1>7. turn \in Nat /\ breaks \in 0 .. MaxBreaks /\ pass \in Nat \ {0} /\ Plays \in Int
  BY BattleAssumption DEF Counted, Plays
<1>8. CASE at \in Sides /\ ~Asked(at) /\ at' = at + 1 /\ pass' = pass
  BY <1>3, <1>4, <1>5, <1>6, <1>7, <1>8 DEF Counted
<1>9. CASE at = 3 /\ GoesOn /\ at' = 1 /\ pass' = pass + 1
  BY <1>3, <1>4, <1>7, <1>9 DEF Counted
<1>10. CASE at = 3 /\ ~GoesOn /\ at' = 0 /\ pass' = pass
  <2>1. result = "none" => turn > MaxTurns
    <3>1. ASSUME result = "none", turn <= MaxTurns PROVE FALSE
      <4>1. MaxTurns \in Nat \ {0} /\ 4 * MaxTurns <= pass
        BY <1>7, <1>10, <3>1, BattleAssumption DEF GoesOn
      <4>2. pass <= Plays
        BY <1>10, <3>1 DEF Counted
      <4>3. Plays <= 3 * turn
        <5>1. breaks <= 2
          BY <1>7, BattleAssumption
        <5> QED
          BY <1>7, <5>1 DEF Plays
      <4> QED
        BY <1>7, <3>1, <4>1, <4>2, <4>3
    <3> QED
      BY <1>7, <3>1, BattleAssumption
  <2> QED
    BY <1>3, <1>4, <1>7, <1>10, <2>1 DEF Counted
<1>11. CASE at' = at /\ pass' = pass
  BY <1>3, <1>4, <1>5, <1>6, <1>7, <1>11 DEF Counted
<1> QED
  BY <1>2, <1>8, <1>9, <1>10, <1>11

\* A battle is the one its policies were asked to play, for any teams, orders and
\* number of active slots: each of their choices counts, and the bound on passes
\* of runBattle cuts none short, if no turn asks for replacements more than twice.
THEOREM BattleIsSound ==
  ASSUME MaxBreaks <= 2
  PROVE  BattleSpec => []BattleSound
<1>1. BattleInit => BattleInv /\ Counted
  <2>1. SUFFICES ASSUME BattleInit PROVE BattleInv /\ Counted
    OBVIOUS
  <2>2. BattleInv /\ \A s \in Sides : req[s].ask = "team" /\ Asked(s)
    BY <2>1, BattleBegins
  <2>3. turn = 0 /\ breaks = 0 /\ pass = 1 /\ at = 1 /\ 1 \in Sides /\ Plays = 0
    BY <2>1 DEF BattleInit, Sides, Plays
  <2>4. Counted
    BY <2>2, <2>3, BattleAssumption DEF Counted
  <2> QED
    BY <2>2, <2>4
<1>2. (BattleInv /\ Counted) /\ [BattleNext]_battleVars => (BattleInv /\ Counted)'
  BY BattleStep, CountedStep
<1>3. BattleInv /\ Counted => BattleSound
  BY DEF BattleInv, Counted, BattleSound, ChoicesAreLegal, CutByTurnsOnly, Over
<1> QED
  BY <1>1, <1>2, <1>3, PTL DEF BattleSpec
-----------------------------------------------------------------------------
(* Opponents.  Each entry is what a row gives, and a row gives it once.       *)

\* An entry is what a row of the one table gives, or of the other.
IsPublished(t, i) ==
  /\ i \in DOMAIN db.full /\ db.full[i].format = want.format
  /\ FullTeamEntry(db.full[i]) = <<t>>

IsObserved(t, i) ==
  i \in DOMAIN db.teams /\ CorpusTeamEntry(db.teams[i], db.teams[i].format) = <<t>>

\* Two entries are of different rows, and of different lists of one format.
Unlike(x, y) ==
  /\ x.id # y.id
  /\ x.from = y.from /\ HashOf(x.id) = HashOf(y.id) => HashOf(x.id) = {}

\* No row, and of one format no list, is in it twice.
Once(entries) ==
  \A k, l \in DOMAIN entries : k # l => Unlike(entries[k], entries[l])

PoolTypes ==
  /\ db \in Databases /\ want \in [format : Formats, limit : Nat]
  /\ source \in {"none", "report"} \cup Formats
  /\ found \in Seq(ToSet(found)) /\ opponents \in Seq(ToSet(opponents))

\* Of the reports read, the playable ones were found, and none left is better.
ReportsFound ==
  source = "report" =>
    /\ opponents = <<>> /\ Once(found)
    /\ remaining \subseteq {i \in DOMAIN db.full : db.full[i].format = want.format}
    /\ \A k \in DOMAIN found : \E i \in DOMAIN db.full \ remaining : IsPublished(found[k], i)
    /\ \A i \in DOMAIN db.full \ remaining : db.full[i].format = want.format =>
         /\ Playable(db.members[db.full[i].id]) => \E k \in DOMAIN found : found[k].id = db.full[i].id
         /\ \A j \in remaining : db.full[i].rating >= db.full[j].rating

\* What was found of observed teams is of the rows read, whose lists are known.
TeamsFound ==
  source \in Formats =>
    /\ Once(found)
    /\ remaining \subseteq {i \in DOMAIN db.teams : db.teams[i].format = source}
    /\ \A k \in DOMAIN found : \E i \in DOMAIN db.teams \ remaining :
         IsObserved(found[k], i) /\ db.teams[i].format = source /\ db.teams[i].hash \in digests

\* The queries before gave entries of their own kinds.
DrawnBefore ==
  /\ \A k \in DOMAIN opponents :
       (\E i \in DOMAIN db.full : IsPublished(opponents[k], i))
         \/ \E i \in DOMAIN db.teams : IsObserved(opponents[k], i)
  /\ \A k \in DOMAIN opponents :
       /\ source = want.format => opponents[k].from = "report"
       /\ source \in Formats => opponents[k].from # source

OpponentsInv ==
  PoolTypes /\ ReportsFound /\ TeamsFound /\ DrawnBefore /\ PoolDistinct /\ BestReports /\ RematchIsSame

\* A selection has elements of the sequence, each of another index.
LEMMA SelectOnce ==
  ASSUME NEW S, NEW s \in Seq(S), NEW D \in SUBSET (1 .. Len(s))
  PROVE  /\ Select(s, D) \in Seq(S)
         /\ \A k \in DOMAIN Select(s, D) : Nth(D, k) \in D /\ Select(s, D)[k] = s[Nth(D, k)]
         /\ \A k, l \in DOMAIN Select(s, D) : k # l => Nth(D, k) # Nth(D, l)
<1>1. IsFiniteSet(D) /\ Cardinality(D) \in Nat /\ D \in SUBSET Nat
  BY IndexSetFinite, LenProperties
<1>2. /\ Select(s, D) \in Seq(S)
      /\ DOMAIN Select(s, D) = 1 .. Cardinality(D)
      /\ \A k \in 1 .. Cardinality(D) : Nth(D, k) \in D /\ Select(s, D)[k] = s[Nth(D, k)]
  <2>1. DOMAIN Select(s, D) = 1 .. Cardinality(D)
    BY DEF Select
  <2> QED
    BY <2>1, SelectProperties
<1>3. ASSUME NEW k \in 1 .. Cardinality(D), NEW l \in 1 .. Cardinality(D), k # l
      PROVE  Nth(D, k) # Nth(D, l)
  <2>1. /\ k < l => Nth(D, k) < Nth(D, l)
        /\ l < k => Nth(D, l) < Nth(D, k)
    BY <1>1, NthProperties
  <2>2. Nth(D, k) \in Nat /\ Nth(D, l) \in Nat
    BY <1>1, <1>2
  <2>3. k < l \/ l < k
    BY <1>1, <1>3
  <2> QED
    BY <2>1, <2>2, <2>3
<1> QED
  BY <1>2, <1>3

\* The first of those selected are elements of the sequence, each of another index.
LEMMA FirstSelected ==
  ASSUME NEW S, NEW s \in Seq(S), NEW D \in SUBSET (1 .. Len(s)), NEW n
  PROVE  LET new == FirstOf(Select(s, D), n) IN
         /\ new \in Seq(S)
         /\ \E h \in [DOMAIN new -> D] :
              /\ \A k \in DOMAIN new : new[k] = s[h[k]]
              /\ \A k, l \in DOMAIN new : k # l => h[k] # h[l]
<1> DEFINE t == Select(s, D)
           E == {i \in DOMAIN t : i <= n}
           new == FirstOf(t, n)
           h == [k \in DOMAIN new |-> Nth(D, Nth(E, k))]
<1>1. /\ t \in Seq(S)
      /\ \A k \in DOMAIN t : Nth(D, k) \in D /\ t[k] = s[Nth(D, k)]
      /\ \A k, l \in DOMAIN t : k # l => Nth(D, k) # Nth(D, l)
  BY SelectOnce
<1>2. E \in SUBSET (1 .. Len(t)) /\ DOMAIN t = 1 .. Len(t)
  <2>1. DOMAIN t = 1 .. Len(t)
    BY <1>1, LenProperties
  <2> HIDE DEF t
  <2> QED
    BY <2>1
<1>3. new = Select(t, E)
  BY DEF FirstOf
<1> HIDE DEF t, E, new
<1>4. /\ new \in Seq(S)
      /\ \A k \in DOMAIN new : Nth(E, k) \in E /\ new[k] = t[Nth(E, k)]
      /\ \A k, l \in DOMAIN new : k # l => Nth(E, k) # Nth(E, l)
  BY <1>1, <1>2, <1>3, SelectOnce
<1>5. \A k \in DOMAIN new : Nth(E, k) \in DOMAIN t
  BY <1>2, <1>4
<1>6. h \in [DOMAIN new -> D]
  BY <1>1, <1>5
<1>7. \A k \in DOMAIN new : new[k] = s[h[k]]
  BY <1>1, <1>4, <1>5
<1>8. \A k, l \in DOMAIN new : k # l => h[k] # h[l]
  BY <1>1, <1>4, <1>5
<1> HIDE DEF h
<1>9. \E g \in [DOMAIN new -> D] :
        /\ \A k \in DOMAIN new : new[k] = s[g[k]]
        /\ \A k, l \in DOMAIN new : k # l => g[k] # g[l]
  BY <1>6, <1>7, <1>8
<1> QED
  BY <1>4, <1>9 DEF new, t

\* The moves usage fills in are attacks, for a Choice holder.
LEMMA UsualMovesUsable ==
  ASSUME Stored(db), NEW slug \in Roster, NEW fmt \in Formats, NEW item,
         NEW mv \in ToSet(UsageMoves(slug, fmt, item))
  PROVE  Usable(item, mv)
<1> DEFINE D(f) == {i \in DOMAIN db.moves[slug][f] : Usable(item, db.moves[slug][f][i])}
           top(f) == FirstOf(Select(db.moves[slug][f], D(f)), MovesPerMember)
<1>1. ASSUME NEW f \in Formats, NEW k \in DOMAIN top(f)
      PROVE  Usable(item, top(f)[k])
  <2> DEFINE s == db.moves[slug][f]
             E == D(f)
             new == FirstOf(Select(s, E), MovesPerMember)
  <2>1. s \in Seq(ToSet(s))
    BY DEF Stored
  <2>2. E \in SUBSET (1 .. Len(s))
    BY <2>1, LenProperties
  <2>3. \A i \in E : Usable(item, s[i])
    OBVIOUS
  <2>4. top(f) = new
    OBVIOUS
  <2> HIDE DEF s, E
  <2>5. PICK h \in [DOMAIN new -> E] : \A l \in DOMAIN new : new[l] = s[h[l]]
    BY <2>1, <2>2, FirstSelected
  <2>6. k \in DOMAIN new
    BY <1>1, <2>4
  <2> HIDE DEF new
  <2>7. h[k] \in E /\ new[k] = s[h[k]]
    BY <2>5, <2>6
  <2> QED
    BY <2>3, <2>4, <2>7
<1>2. UsageMoves(slug, fmt, item) = top(fmt) \/ UsageMoves(slug, fmt, item) = top(Other(fmt))
  BY DEF UsageMoves
<1>3. Other(fmt) \in Formats
  BY DEF Other, Formats
<1> HIDE DEF top
<1> QED
  BY <1>1, <1>2, <1>3 DEF ToSet

\* A spread is always found.
LEMMA SpreadKnown ==
  ASSUME NEW slug, NEW fmt \in Formats
  PROVE  ModalSpread(slug, fmt) # NoSpread
<1> DEFINE rows == {f \in Formats : db.spread[slug][f] # NoSpread}
<1>1. fmt \in rows => db.spread[slug][fmt] # NoSpread
  OBVIOUS
<1>2. fmt \notin rows /\ rows # {} => Other(fmt) \in rows
  BY DEF Formats, Other
<1>3. Other(fmt) \in rows => db.spread[slug][Other(fmt)] # NoSpread
  OBVIOUS
<1> QED
  BY <1>1, <1>2, <1>3, SpreadAssumption DEF ModalSpread

\* Completed, a team that can be played has what a player needs.
LEMMA CompletedTeam ==
  ASSUME NEW team, AreMembers(team), Playable(team), NEW fmt \in Formats
  PROVE  /\ DOMAIN TeamPaste(team, fmt) = DOMAIN team /\ Len(TeamPaste(team, fmt)) = Len(team)
         /\ \A i \in DOMAIN team :
              LET m == TeamPaste(team, fmt)[i] IN
              /\ m.species = team[i].species /\ m.item = team[i].item /\ m.moves = team[i].moves
              /\ m.species \in Roster /\ m.item \in Items /\ m.spread # NoSpread
              /\ m.moves # <<>> /\ ToSet(m.moves) \subseteq Learns[m.species]
              /\ team[i].spread = NoSpread => m.spread = ModalSpread(m.species, fmt)
<1>1. team \in Seq(ToSet(team)) /\ DOMAIN team = 1 .. Len(team) /\ Len(team) \in Nat
  BY LenProperties DEF AreMembers
<1>2. DOMAIN TeamPaste(team, fmt) = 1 .. Len(team) /\ Len(TeamPaste(team, fmt)) = Len(team)
  <2>1. TeamPaste(team, fmt) = [i \in 1 .. Len(team) |-> CompleteMember(team[i], fmt)]
    BY <1>1 DEF TeamPaste
  <2> QED
    BY <1>1, <2>1
<1>3. ASSUME NEW i \in DOMAIN team
      PROVE  LET m == TeamPaste(team, fmt)[i] IN
             /\ m.species = team[i].species /\ m.item = team[i].item /\ m.moves = team[i].moves
             /\ m.species \in Roster /\ m.item \in Items /\ m.spread # NoSpread
             /\ m.moves # <<>> /\ ToSet(m.moves) \subseteq Learns[m.species]
             /\ team[i].spread = NoSpread => m.spread = ModalSpread(m.species, fmt)
  <2> DEFINE o == team[i]
             m == CompleteMember(o, fmt)
  <2>1. o = [species |-> o.species, item |-> o.item, moves |-> o.moves, spread |-> o.spread]
    BY DEF AreMembers
  <2>2. /\ o.species \in Roster /\ o.item \in Items
        /\ o.moves # <<>> /\ ToSet(o.moves) \subseteq Learns[o.species]
    BY DEF Playable, MemberProblem
  <2>3. ModalSpread(o.species, fmt) # NoSpread
    BY SpreadKnown
  <2>4. TeamPaste(team, fmt)[i] = m
    BY DEF TeamPaste
  <2> HIDE DEF o
  <2>5. /\ m.species = o.species /\ m.item = o.item /\ m.moves = o.moves
        /\ m.spread = IF o.spread = NoSpread THEN ModalSpread(o.species, fmt) ELSE o.spread
    BY <2>1 DEF CompleteMember
  <2> HIDE DEF m
  <2>6. m.spread # NoSpread /\ (o.spread = NoSpread => m.spread = ModalSpread(m.species, fmt))
    BY <2>3, <2>5
  <2> QED
    BY <2>2, <2>4, <2>5, <2>6 DEF o
<1> QED
  BY <1>1, <1>2, <1>3

\* What is said of an entry of the pool, for any call.
Fits(t) ==
  /\ Len(t.paste) = TeamSize
  /\ \A i \in DOMAIN t.paste :
       LET m == t.paste[i] IN
       /\ m.species \in Roster /\ m.item \in Items /\ m.spread # NoSpread
       /\ m.moves # <<>> /\ ToSet(m.moves) \subseteq Learns[m.species]
       /\ db.members[t.id][i].moves = <<>> =>
            \A mv \in ToSet(m.moves) : ~(m.item \in ChoiceItems /\ mv \in StatusMoves)
       /\ t.from \in Formats /\ db.members[t.id][i].spread = NoSpread =>
            m.spread = ModalSpread(m.species, t.from)

\* An entry that a row gives has its id, and fits.
LEMMA PublishedFits ==
  ASSUME Stored(db), want.format \in Formats, NEW t, NEW i, IsPublished(t, i)
  PROVE  /\ t.id = db.full[i].id /\ t.from = "report" /\ Playable(db.members[t.id])
         /\ Fits(t)
<1> DEFINE r == db.full[i]
           team == db.members[r.id]
<1>1. /\ r \in ToSet(db.full) /\ r.format \in Formats
      /\ AreMembers(team) /\ Len(team) = TeamSize
  BY DEF IsPublished, Stored, ToSet
<1>2. /\ Playable(team)
      /\ t = [id |-> r.id, label |-> Label(team), from |-> "report", paste |-> TeamPaste(team, r.format)]
  BY DEF IsPublished, FullTeamEntry, Entry
<1>3. /\ DOMAIN t.paste = DOMAIN team /\ Len(t.paste) = Len(team)
      /\ \A k \in DOMAIN team :
           LET m == t.paste[k] IN
           /\ m.moves = team[k].moves
           /\ m.species \in Roster /\ m.item \in Items /\ m.spread # NoSpread
           /\ m.moves # <<>> /\ ToSet(m.moves) \subseteq Learns[m.species]
  <2> DEFINE fmt == r.format
  <2>1. t.paste = TeamPaste(team, fmt) /\ fmt \in Formats
    BY <1>1, <1>2
  <2>2. AreMembers(team) /\ Playable(team)
    BY <1>1, <1>2
  <2> HIDE DEF r, team, fmt
  <2>3. /\ DOMAIN TeamPaste(team, fmt) = DOMAIN team /\ Len(TeamPaste(team, fmt)) = Len(team)
        /\ \A k \in DOMAIN team :
             LET m == TeamPaste(team, fmt)[k] IN
             /\ m.moves = team[k].moves
             /\ m.species \in Roster /\ m.item \in Items /\ m.spread # NoSpread
             /\ m.moves # <<>> /\ ToSet(m.moves) \subseteq Learns[m.species]
    BY <2>1, <2>2, CompletedTeam
  <2> QED
    BY <2>1, <2>3
<1>4. t.id = r.id /\ t.from = "report" /\ t.from \notin Formats
  BY <1>2 DEF Formats
<1>5. Fits(t)
  <2> db.members[t.id] = team
    BY <1>4
  <2> HIDE DEF r, team
  <2> QED
    BY <1>1, <1>3, <1>4 DEF Fits
<1> QED
  BY <1>2, <1>4, <1>5

LEMMA ObservedFits ==
  ASSUME Stored(db), NEW t, NEW i, IsObserved(t, i)
  PROVE  /\ t.id = db.teams[i].id /\ t.from = db.teams[i].format /\ t.from \in Formats
         /\ Fits(t)
<1> DEFINE r == db.teams[i]
           fmt == r.format
           team == db.members[r.id]
           fill(k) == IF team[k].moves # <<>> \/ team[k].species \notin Roster THEN team[k]
                      ELSE [team[k] EXCEPT !.moves = UsageMoves(team[k].species, fmt, team[k].item)]
           filled == [k \in DOMAIN team |-> fill(k)]
<1>1. /\ r \in ToSet(db.teams) /\ fmt \in Formats /\ AreMembers(team)
  BY DEF IsObserved, Stored, ToSet
<1>2. /\ Len(team) = TeamSize
      /\ Entry([id |-> r.id, from |-> fmt], filled, fmt) = <<t>>
  BY DEF IsObserved, CorpusTeamEntry, WholeTeam
<1>3. /\ Playable(filled)
      /\ t = [id |-> r.id, label |-> Label(filled), from |-> fmt, paste |-> TeamPaste(filled, fmt)]
  <2> HIDE DEF filled
  <2> QED
    BY <1>2 DEF Entry
<1>4. team \in Seq(ToSet(team)) /\ DOMAIN team = 1 .. Len(team) /\ Len(team) \in Nat
  BY <1>1, LenProperties DEF AreMembers
<1>5. ASSUME NEW k \in DOMAIN team
      PROVE  LET o == team[k]  m == fill(k) IN
             /\ m = [species |-> o.species, item |-> o.item, moves |-> m.moves, spread |-> o.spread]
             /\ o.moves # <<>> => m.moves = o.moves
             /\ o.moves = <<>> /\ o.species \in Roster =>
                  m.moves = UsageMoves(o.species, fmt, o.item)
  <2> DEFINE o == team[k]
  <2>1. o = [species |-> o.species, item |-> o.item, moves |-> o.moves, spread |-> o.spread]
    BY <1>1 DEF AreMembers
  <2> HIDE DEF team
  <2>2. CASE o.moves # <<>> \/ o.species \notin Roster
    BY <2>1, <2>2
  <2>3. CASE ~(o.moves # <<>> \/ o.species \notin Roster)
    <3> DEFINE ms == UsageMoves(o.species, fmt, o.item)
    <3>1. fill(k) = [o EXCEPT !.moves = ms]
      BY <2>3
    <3> HIDE DEF ms, o, fill
    <3>2. fill(k) = [species |-> o.species, item |-> o.item, moves |-> ms, spread |-> o.spread]
      BY <2>1, <3>1
    <3> QED
      BY <2>3, <3>2 DEF ms, o
  <2> QED
    BY <2>2, <2>3
<1>6. AreMembers(filled) /\ DOMAIN filled = DOMAIN team /\ Len(filled) = TeamSize
  <2>1. filled = [k \in 1 .. Len(team) |-> fill(k)]
    BY <1>4
  <2>2. filled \in Seq(ToSet(filled)) /\ Len(filled) = TeamSize
    <3> HIDE DEF fill, team
    <3>1. DOMAIN filled = 1 .. Len(team) /\ \A k \in 1 .. Len(team) : filled[k] \in ToSet(filled)
      BY <2>1 DEF ToSet
    <3> QED
      BY <1>2, <1>4, <2>1, <3>1
  <2>3. \A k \in DOMAIN filled :
          LET m == filled[k] IN
          m = [species |-> m.species, item |-> m.item, moves |-> m.moves, spread |-> m.spread]
    <3>1. ASSUME NEW k \in DOMAIN team
          PROVE  LET m == fill(k) IN
                 m = [species |-> m.species, item |-> m.item, moves |-> m.moves, spread |-> m.spread]
      <4> HIDE DEF fill, team
      <4> QED
        BY <1>5
    <3> QED
      BY <3>1
  <2> QED
    BY <2>2, <2>3 DEF AreMembers
<1>7. ASSUME NEW k \in DOMAIN team
      PROVE  LET m == t.paste[k] IN
             /\ m.species \in Roster /\ m.item \in Items /\ m.spread # NoSpread
             /\ m.moves # <<>> /\ ToSet(m.moves) \subseteq Learns[m.species]
             /\ team[k].moves = <<>> =>
                  \A mv \in ToSet(m.moves) : ~(m.item \in ChoiceItems /\ mv \in StatusMoves)
             /\ team[k].spread = NoSpread => m.spread = ModalSpread(m.species, fmt)
  <2> DEFINE m == t.paste[k]
             o == team[k]
  <2>1. k \in DOMAIN filled /\ filled[k] = fill(k) /\ t.paste = TeamPaste(filled, fmt)
    BY <1>3
  <2>2. /\ m.species = fill(k).species /\ m.item = fill(k).item /\ m.moves = fill(k).moves
        /\ m.species \in Roster /\ m.item \in Items /\ m.spread # NoSpread
        /\ m.moves # <<>> /\ ToSet(m.moves) \subseteq Learns[m.species]
        /\ fill(k).spread = NoSpread => m.spread = ModalSpread(m.species, fmt)
    <3> HIDE DEF filled, fill, fmt
    <3> QED
      BY <1>1, <1>3, <1>6, <2>1, CompletedTeam
  <2>3. /\ fill(k).species = o.species /\ fill(k).item = o.item /\ fill(k).spread = o.spread
        /\ o.moves = <<>> /\ o.species \in Roster => fill(k).moves = UsageMoves(o.species, fmt, o.item)
    <3> HIDE DEF fill, team
    <3> QED
      BY <1>5 DEF o
  <2> HIDE DEF m, o, fill, fmt, team
  <2>4. ASSUME o.moves = <<>>, NEW mv \in ToSet(m.moves)
        PROVE  ~(m.item \in ChoiceItems /\ mv \in StatusMoves)
    <3>1. o.species \in Roster /\ mv \in ToSet(UsageMoves(o.species, fmt, o.item)) /\ m.item = o.item
      BY <2>2, <2>3, <2>4
    <3>2. Usable(o.item, mv)
      BY <1>1, <3>1, UsualMovesUsable
    <3> QED
      BY <3>1, <3>2 DEF Usable
  <2> QED
    BY <2>2, <2>3, <2>4 DEF m, o
<1>8. DOMAIN t.paste = DOMAIN team /\ Len(t.paste) = TeamSize /\ t.id = r.id /\ t.from = fmt
  <2> t.paste = TeamPaste(filled, fmt) /\ t.id = r.id /\ t.from = fmt
    BY <1>3
  <2> HIDE DEF filled, fmt
  <2> QED
    BY <1>1, <1>3, <1>6, CompletedTeam
<1>9. Fits(t)
  <2> db.members[t.id] = team
    BY <1>8
  <2> HIDE DEF team, fmt
  <2> QED
    BY <1>7, <1>8 DEF Fits
<1> QED
  BY <1>1, <1>8, <1>9

\* An observed row is known by its id, and has a list; a report has none.
LEMMA HashIs ==
  ASSUME Stored(db)
  PROVE  /\ \A i \in DOMAIN db.teams : HashOf(db.teams[i].id) = {db.teams[i].hash}
         /\ \A i \in DOMAIN db.full : HashOf(db.full[i].id) = {}
         /\ \A i \in DOMAIN db.full, j \in DOMAIN db.teams : db.full[i].id # db.teams[j].id
<1>1. ASSUME NEW i \in DOMAIN db.teams PROVE HashOf(db.teams[i].id) = {db.teams[i].hash}
  <2>1. {j \in DOMAIN db.teams : db.teams[j].id = db.teams[i].id} = {i}
    BY DEF Stored
  <2> QED
    BY <2>1 DEF HashOf
<1>2. ASSUME NEW i \in DOMAIN db.full, NEW j \in DOMAIN db.teams PROVE db.full[i].id # db.teams[j].id
  <2>1. db.full[i] \in ToSet(db.full) /\ db.teams[j] \in ToSet(db.teams)
    BY DEF ToSet
  <2>2. \A r \in ToSet(db.full), t \in ToSet(db.teams) : r.id # t.id
    BY DEF Stored
  <2> QED
    BY <2>1, <2>2
<1>3. ASSUME NEW i \in DOMAIN db.full PROVE HashOf(db.full[i].id) = {}
  BY <1>2 DEF HashOf
<1> QED
  BY <1>1, <1>2, <1>3

LEMMA UnlikeBoth ==
  ASSUME NEW x, NEW y, Unlike(x, y)
  PROVE  Unlike(y, x)
BY DEF Unlike

\* What comes once in each of two lists that have no row or list in common.
LEMMA OnceBoth ==
  ASSUME NEW S, NEW s \in Seq(S), NEW t \in Seq(S), Once(s), Once(t),
         \A k \in DOMAIN s, l \in DOMAIN t : Unlike(s[k], t[l])
  PROVE  Once(s \o t)
<1> DEFINE n == Len(s)
<1>1. /\ n \in Nat /\ Len(t) \in Nat /\ DOMAIN s = 1 .. n /\ DOMAIN t = 1 .. Len(t)
      /\ DOMAIN (s \o t) = 1 .. n + Len(t)
      /\ \A k \in 1 .. n + Len(t) : (s \o t)[k] = IF k <= n THEN s[k] ELSE t[k - n]
  BY ConcatProperties, LenProperties
<1>2. ASSUME NEW k \in DOMAIN (s \o t), NEW l \in DOMAIN (s \o t), k # l
      PROVE  Unlike((s \o t)[k], (s \o t)[l])
  <2> HIDE DEF n
  <2>1. CASE k <= n /\ l <= n
    <3>1. k \in DOMAIN s /\ l \in DOMAIN s
      BY <1>1, <2>1
    <3> QED
      BY <1>1, <1>2, <2>1, <3>1 DEF Once
  <2>2. CASE k <= n /\ ~(l <= n)
    <3>1. k \in DOMAIN s /\ l - n \in DOMAIN t
      BY <1>1, <2>2
    <3> QED
      BY <1>1, <2>2, <3>1
  <2>3. CASE ~(k <= n) /\ l <= n
    <3>1. l \in DOMAIN s /\ k - n \in DOMAIN t
      BY <1>1, <2>3
    <3>2. Unlike(s[l], t[k - n])
      BY <3>1
    <3> QED
      BY <1>1, <2>3, <3>2, UnlikeBoth
  <2>4. CASE ~(k <= n) /\ ~(l <= n)
    <3>1. k - n \in DOMAIN t /\ l - n \in DOMAIN t /\ k - n # l - n
      BY <1>1, <1>2, <2>4
    <3> QED
      BY <1>1, <2>4, <3>1 DEF Once
  <2> QED
    BY <2>1, <2>2, <2>3, <2>4
<1> QED
  BY <1>2 DEF Once

-----------------------------------------------------------------------------
\* A list is one of what is in it, and so is a longer one.
LEMMA ListsJoin ==
  ASSUME NEW s, s \in Seq(ToSet(s)), NEW t, t \in Seq(ToSet(t))
  PROVE  /\ s \in Seq(ToSet(s \o t)) /\ t \in Seq(ToSet(s \o t)) /\ s \o t \in Seq(ToSet(s \o t))
         /\ Len(s) \in Nat /\ Len(t) \in Nat /\ DOMAIN s = 1 .. Len(s) /\ DOMAIN t = 1 .. Len(t)
         /\ DOMAIN (s \o t) = 1 .. Len(s) + Len(t)
         /\ \A k \in DOMAIN s : k \in DOMAIN (s \o t) /\ (s \o t)[k] = s[k]
         /\ \A k \in DOMAIN t : Len(s) + k \in DOMAIN (s \o t) /\ (s \o t)[Len(s) + k] = t[k]
         /\ \A k \in DOMAIN (s \o t) :
              \/ k \in DOMAIN s /\ (s \o t)[k] = s[k]
              \/ k - Len(s) \in DOMAIN t /\ (s \o t)[k] = t[k - Len(s)]
<1> DEFINE S == ToSet(s) \cup ToSet(t)
           u == s \o t
<1>1. s \in Seq(S) /\ t \in Seq(S)
  OBVIOUS
<1>2. /\ Len(s) \in Nat /\ Len(t) \in Nat /\ DOMAIN s = 1 .. Len(s) /\ DOMAIN t = 1 .. Len(t)
      /\ u \in Seq(S) /\ Len(u) = Len(s) + Len(t) /\ DOMAIN u = 1 .. Len(s) + Len(t)
      /\ \A k \in 1 .. Len(s) + Len(t) : u[k] = IF k <= Len(s) THEN s[k] ELSE t[k - Len(s)]
  BY <1>1, ConcatProperties, LenProperties
<1> HIDE DEF u, S
<1>3. /\ \A k \in DOMAIN s : k \in DOMAIN u /\ u[k] = s[k]
      /\ \A k \in DOMAIN t : Len(s) + k \in DOMAIN u /\ u[Len(s) + k] = t[k]
      /\ \A k \in DOMAIN u :
           \/ k \in DOMAIN s /\ u[k] = s[k]
           \/ k - Len(s) \in DOMAIN t /\ u[k] = t[k - Len(s)]
  <2> DEFINE n == Len(s)
             m == Len(t)
  <2>1. /\ n \in Nat /\ m \in Nat /\ DOMAIN s = 1 .. n /\ DOMAIN t = 1 .. m /\ DOMAIN u = 1 .. n + m
        /\ \A k \in 1 .. n + m : u[k] = IF k <= n THEN s[k] ELSE t[k - n]
    BY <1>2
  <2> HIDE DEF n, m
  <2>2. ASSUME NEW k \in DOMAIN s PROVE k \in DOMAIN u /\ u[k] = s[k]
    <3>1. k \in 1 .. n + m /\ k <= n
      BY <2>1
    <3> QED
      BY <2>1, <3>1
  <2>3. ASSUME NEW k \in DOMAIN t PROVE n + k \in DOMAIN u /\ u[n + k] = t[k]
    <3>1. n + k \in 1 .. n + m /\ ~(n + k <= n) /\ n + k - n = k
      BY <2>1
    <3> QED
      BY <2>1, <3>1
  <2>4. ASSUME NEW k \in DOMAIN u
        PROVE  \/ k \in DOMAIN s /\ u[k] = s[k]
               \/ k - n \in DOMAIN t /\ u[k] = t[k - n]
    <3>1. k <= n => k \in 1 .. n
      BY <2>1
    <3>2. ~(k <= n) => k - n \in 1 .. m
      BY <2>1
    <3>3. k \in 1 .. n + m /\ u[k] = IF k <= n THEN s[k] ELSE t[k - n]
      BY <2>1
    <3>4. CASE k <= n
      BY <2>1, <3>1, <3>3, <3>4
    <3>5. CASE ~(k <= n)
      BY <2>1, <3>2, <3>3, <3>5
    <3> QED
      BY <3>4, <3>5
  <2> QED
    BY <2>2, <2>3, <2>4 DEF n
<1>4. \A k \in DOMAIN u : u[k] \in ToSet(u)
  BY DEF ToSet
<1>5. u = [k \in 1 .. Len(u) |-> u[k]] /\ Len(u) \in Nat
  BY <1>2, LenProperties
<1>6. u \in Seq(ToSet(u))
  BY <1>2, <1>4, <1>5
<1>7. s = [k \in 1 .. Len(s) |-> s[k]] /\ t = [k \in 1 .. Len(t) |-> t[k]]
  BY <1>1, LenProperties
<1>8. s \in Seq(ToSet(u)) /\ t \in Seq(ToSet(u))
  <2>1. \A k \in 1 .. Len(s) : s[k] \in ToSet(u)
    BY <1>2, <1>3, <1>4
  <2>2. \A k \in 1 .. Len(t) : t[k] \in ToSet(u)
    BY <1>2, <1>3, <1>4
  <2> QED
    BY <1>2, <1>7, <2>1, <2>2
<1> QED
  BY <1>2, <1>3, <1>6, <1>8 DEF u

LEMMA OneEntry ==
  ASSUME NEW t
  PROVE  <<t>> \in Seq(ToSet(<<t>>)) /\ DOMAIN <<t>> = {1} /\ <<t>>[1] = t /\ Once(<<t>>)
<1>1. <<t>> \in Seq({t}) /\ DOMAIN <<t>> = {1} /\ <<t>>[1] = t
  OBVIOUS
<1>2. ToSet(<<t>>) = {t}
  BY <1>1 DEF ToSet
<1> QED
  BY <1>1, <1>2 DEF Once

\* A list with one more at its end.
LEMMA OneMore ==
  ASSUME NEW s, s \in Seq(ToSet(s)), NEW t
  PROVE  LET u == s \o <<t>> IN
         /\ u \in Seq(ToSet(u)) /\ Len(s) + 1 \in DOMAIN u /\ u[Len(s) + 1] = t
         /\ \A k \in DOMAIN s : k \in DOMAIN u /\ u[k] = s[k]
         /\ \A k \in DOMAIN u : u[k] = t \/ (k \in DOMAIN s /\ u[k] = s[k])
<1> DEFINE e == <<t>>
           u == s \o e
<1>1. e \in Seq(ToSet(e)) /\ DOMAIN e = {1} /\ e[1] = t
  BY OneEntry
<1> HIDE DEF e
<1>4. /\ s \in Seq(ToSet(s \o e)) /\ e \in Seq(ToSet(s \o e)) /\ s \o e \in Seq(ToSet(s \o e))
      /\ Len(s) \in Nat /\ Len(e) \in Nat /\ DOMAIN s = 1 .. Len(s) /\ DOMAIN e = 1 .. Len(e)
      /\ DOMAIN (s \o e) = 1 .. Len(s) + Len(e)
      /\ \A k \in DOMAIN s : k \in DOMAIN (s \o e) /\ (s \o e)[k] = s[k]
      /\ \A k \in DOMAIN e : Len(s) + k \in DOMAIN (s \o e) /\ (s \o e)[Len(s) + k] = e[k]
      /\ \A k \in DOMAIN (s \o e) :
           \/ k \in DOMAIN s /\ (s \o e)[k] = s[k]
           \/ k - Len(s) \in DOMAIN e /\ (s \o e)[k] = e[k - Len(s)]
  BY <1>1, ListsJoin
<1>2. /\ u \in Seq(ToSet(u)) /\ Len(s) \in Nat
      /\ \A k \in DOMAIN s : k \in DOMAIN u /\ u[k] = s[k]
      /\ \A k \in DOMAIN e : Len(s) + k \in DOMAIN u /\ u[Len(s) + k] = e[k]
      /\ \A k \in DOMAIN u :
           \/ k \in DOMAIN s /\ u[k] = s[k]
           \/ k - Len(s) \in DOMAIN e /\ u[k] = e[k - Len(s)]
  BY <1>4
<1> HIDE DEF u
<1>3. 1 \in DOMAIN e /\ \A k \in DOMAIN e : e[k] = t
  BY <1>1
<1> QED
  BY <1>2, <1>3 DEF u, e

\* What comes once in each of two lists that have no row or list in common.
LEMMA OnceInBoth ==
  ASSUME NEW s, s \in Seq(ToSet(s)), NEW t, t \in Seq(ToSet(t)), Once(s), Once(t),
         \A k \in DOMAIN s, l \in DOMAIN t : Unlike(s[k], t[l])
  PROVE  Once(s \o t)
<1> HIDE DEF Once, Unlike
<1>1. s \in Seq(ToSet(s \o t)) /\ t \in Seq(ToSet(s \o t))
  BY ListsJoin
<1> QED
  BY <1>1, OnceBoth

\* A row of either table gives one entry at most, and a playable report one.
LEMMA EntryGiven ==
  /\ \A r : FullTeamEntry(r) = <<>> \/ \E t : FullTeamEntry(r) = <<t>>
  /\ \A r : Playable(db.members[r.id]) => FullTeamEntry(r) # <<>>
  /\ \A r, fmt : CorpusTeamEntry(r, fmt) = <<>> \/ \E t : CorpusTeamEntry(r, fmt) = <<t>>
BY DEF FullTeamEntry, CorpusTeamEntry, Entry

LEMMA StoredHere == PoolTypes => Stored(db) /\ want.format \in Formats /\ want.limit \in Nat
  BY DatabasesAssumption DEF PoolTypes

\* A row gives the same as long as the database is the same.
LEMMA RowsStay ==
  ASSUME UNCHANGED <<db, want>>
  PROVE  /\ \A id : HashOf(id)' = HashOf(id)
         /\ \A t, i : IsPublished(t, i)' <=> IsPublished(t, i)
         /\ \A t, i : IsObserved(t, i)' <=> IsObserved(t, i)
<1>1. ASSUME NEW id PROVE HashOf(id)' = HashOf(id)
  BY DEF HashOf
<1>2. ASSUME NEW slug, NEW fmt PROVE ModalSpread(slug, fmt)' = ModalSpread(slug, fmt)
  BY DEF ModalSpread
<1>3. ASSUME NEW m, NEW fmt PROVE CompleteMember(m, fmt)' = CompleteMember(m, fmt)
  BY <1>2 DEF CompleteMember
<1>4. ASSUME NEW team, NEW fmt PROVE TeamPaste(team, fmt)' = TeamPaste(team, fmt)
  BY <1>3 DEF TeamPaste
<1>5. ASSUME NEW r, NEW team, NEW fmt PROVE Entry(r, team, fmt)' = Entry(r, team, fmt)
  BY <1>4 DEF Entry
<1>6. ASSUME NEW r PROVE FullTeamEntry(r)' = FullTeamEntry(r)
  BY <1>5 DEF FullTeamEntry
<1>7. ASSUME NEW slug, NEW fmt, NEW item PROVE UsageMoves(slug, fmt, item)' = UsageMoves(slug, fmt, item)
  BY DEF UsageMoves
<1>8. ASSUME NEW r, NEW fmt PROVE CorpusTeamEntry(r, fmt)' = CorpusTeamEntry(r, fmt)
  BY <1>5, <1>7 DEF CorpusTeamEntry
<1> QED
  BY <1>1, <1>6, <1>8 DEF IsPublished, IsObserved

LEMMA OnceStays ==
  ASSUME UNCHANGED <<db, want>>, NEW s
  PROVE  Once(s)' <=> Once(s)
BY RowsStay DEF Once, Unlike

\* While the pool stays, so does what is said of it.
LEMMA PoolSame ==
  ASSUME PoolDistinct, BestReports, UNCHANGED <<db, want, opponents>>
  PROVE  (PoolDistinct /\ BestReports)'
<1>1. PoolDistinct'
  BY RowsStay DEF PoolDistinct
<1>2. BestReports'
  BY DEF BestReports, Drawn
<1> QED
  BY <1>1, <1>2

LEMMA PoolStays ==
  ASSUME OpponentsInv, UNCHANGED <<db, want, opponents, rematch>>
  PROVE  (PoolDistinct /\ BestReports /\ RematchIsSame)'
BY PoolSame DEF OpponentsInv, RematchIsSame

\* A report more: those of a lower rating come later.
LEMMA TakeReportKeeps ==
  ASSUME OpponentsInv, TakeReport
  PROVE  OpponentsInv'
<1>1. PICK i \in remaining :
        /\ NextReport(i)
        /\ remaining' = remaining \ {i} /\ found' = found \o FullTeamEntry(db.full[i])
  BY DEF TakeReport
<1>2. /\ source = "report" /\ UNCHANGED <<db, want, source, digests, opponents, rematch>>
  BY DEF TakeReport
<1>3. /\ Stored(db) /\ want.format \in Formats /\ PoolTypes
      /\ opponents = <<>> /\ Once(found)
      /\ remaining \subseteq {j \in DOMAIN db.full : db.full[j].format = want.format}
      /\ \A k \in DOMAIN found : \E j \in DOMAIN db.full \ remaining : IsPublished(found[k], j)
      /\ \A j \in DOMAIN db.full \ remaining : db.full[j].format = want.format =>
           /\ Playable(db.members[db.full[j].id]) => \E k \in DOMAIN found : found[k].id = db.full[j].id
           /\ \A l \in remaining : db.full[j].rating >= db.full[l].rating
  BY <1>2, StoredHere DEF OpponentsInv, ReportsFound
<1>4. i \in DOMAIN db.full /\ db.full[i].format = want.format
  BY <1>3
<1>5. found \in Seq(ToSet(found))
  BY <1>3 DEF PoolTypes
<1> DEFINE e == FullTeamEntry(db.full[i])
           Grown == /\ found' \in Seq(ToSet(found')) /\ Once(found')
                    /\ \A k \in DOMAIN found' : \E j \in DOMAIN db.full \ remaining' : IsPublished(found'[k], j)
                    /\ \A k \in DOMAIN found : \E l \in DOMAIN found' : found'[l] = found[k]
                    /\ Playable(db.members[db.full[i].id]) =>
                         \E k \in DOMAIN found' : found'[k].id = db.full[i].id
<1>6. Grown
  <2>1. CASE e = <<>>
    <3>1. found' = found
      BY <1>1, <1>5, <2>1, ConcatEmptySeq
    <3>2. ~Playable(db.members[db.full[i].id])
      BY <2>1, EntryGiven
    <3> QED
      BY <1>1, <1>3, <1>5, <3>1, <3>2
  <2>2. ASSUME NEW t, e = <<t>>
        PROVE  Grown
    <3>1. found' = found \o <<t>>
      BY <1>1, <2>2
    <3>2. IsPublished(t, i)
      BY <1>4, <2>2 DEF IsPublished
    <3>3. t.id = db.full[i].id
      BY <1>3, <3>2, PublishedFits
    <3>4. ASSUME NEW k \in DOMAIN found
          PROVE  Unlike(found[k], t)
      <4>1. PICK j \in DOMAIN db.full \ remaining : IsPublished(found[k], j)
        BY <1>3
      <4>2. found[k].id = db.full[j].id /\ i # j
        BY <1>3, <4>1, PublishedFits
      <4>3. db.full[j].id # db.full[i].id
        BY <1>3, <1>4, <4>2 DEF Stored
      <4>4. HashOf(found[k].id) = {}
        BY <1>3, <4>2, HashIs
      <4> QED
        BY <3>3, <4>2, <4>3, <4>4 DEF Unlike
    <3>5. <<t>> \in Seq(ToSet(<<t>>)) /\ DOMAIN <<t>> = {1} /\ <<t>>[1] = t /\ Once(<<t>>)
      BY OneEntry
    <3>6. /\ found' \in Seq(ToSet(found')) /\ Len(found) + 1 \in DOMAIN found' /\ found'[Len(found) + 1] = t
          /\ \A k \in DOMAIN found : k \in DOMAIN found' /\ found'[k] = found[k]
          /\ \A k \in DOMAIN found' : found'[k] = t \/ (k \in DOMAIN found /\ found'[k] = found[k])
      BY <1>5, <3>1, OneMore
    <3>7. Once(found')
      BY <1>3, <1>5, <3>1, <3>4, <3>5, OnceInBoth
    <3>8. ASSUME NEW k \in DOMAIN found'
          PROVE  \E j \in DOMAIN db.full \ remaining' : IsPublished(found'[k], j)
      <4>1. CASE k \in DOMAIN found /\ found'[k] = found[k]
        <5>1. PICK j \in DOMAIN db.full \ remaining : IsPublished(found[k], j)
          BY <1>3, <4>1
        <5> QED
          BY <1>1, <4>1, <5>1
      <4>2. CASE found'[k] = t
        BY <1>1, <1>4, <3>2, <4>2
      <4> QED
        BY <3>6, <4>1, <4>2
    <3> QED
      BY <3>3, <3>6, <3>7, <3>8
  <2> QED
    BY <2>1, <2>2, EntryGiven
<1>7. ASSUME NEW j \in remaining, j # i
      PROVE  db.full[i].rating >= db.full[j].rating
  <2>1. j \in DOMAIN db.full /\ db.full[i].rating \in Nat /\ db.full[j].rating \in Nat
    BY <1>3, <1>4 DEF Stored, ToSet
  <2>2. Before(db.full[i], db.full[j]) \/ ~Before(db.full[j], db.full[i])
    BY <1>1, <1>7 DEF NextReport
  <2> QED
    BY <2>1, <2>2 DEF Before
<1>8. ReportsFound'
  <2>1. Once(found)'
    BY <1>2, <1>6, OnceStays
  <2>2. \A k \in DOMAIN found' : \E j \in DOMAIN db.full \ remaining' : IsPublished(found[k], j)'
    BY <1>2, <1>6, RowsStay
  <2>3. ASSUME NEW j \in DOMAIN db.full \ remaining', db.full[j].format = want.format
        PROVE  /\ Playable(db.members[db.full[j].id]) => \E k \in DOMAIN found' : found'[k].id = db.full[j].id
               /\ \A l \in remaining' : db.full[j].rating >= db.full[l].rating
    <3>1. CASE j = i
      BY <1>1, <1>6, <1>7, <3>1
    <3>2. CASE j # i
      <4>1. j \in DOMAIN db.full \ remaining
        BY <1>1, <2>3, <3>2
      <4>2. /\ Playable(db.members[db.full[j].id]) => \E k \in DOMAIN found : found[k].id = db.full[j].id
            /\ \A l \in remaining : db.full[j].rating >= db.full[l].rating
        BY <1>3, <2>3, <4>1
      <4>3. \A k \in DOMAIN found : \E l \in DOMAIN found' : found'[l].id = found[k].id
        BY <1>6
      <4> QED
        BY <1>1, <4>2, <4>3
    <3> QED
      BY <3>1, <3>2
  <2>4. \A j \in DOMAIN db.full : Playable(db.members[db.full[j].id])' <=> Playable(db.members[db.full[j].id])
    BY <1>2 DEF Playable, MemberProblem
  <2> QED
    BY <1>1, <1>2, <1>3, <2>1, <2>2, <2>3, <2>4 DEF ReportsFound
<1>9. PoolTypes'
  BY <1>2, <1>3, <1>6 DEF PoolTypes
<1>10. TeamsFound'
  BY <1>2 DEF TeamsFound, Formats
<1>11. DrawnBefore'
  BY <1>2, <1>3 DEF DrawnBefore
<1> QED
  BY <1>2, <1>8, <1>9, <1>10, <1>11, PoolStays DEF OpponentsInv

LEMMA NoEntries == <<>> \in Seq(ToSet(<<>>)) /\ DOMAIN <<>> = {} /\ Once(<<>>)
<1>1. <<>> \in Seq({}) /\ DOMAIN <<>> = {}
  OBVIOUS
<1>2. ToSet(<<>>) = {}
  BY <1>1 DEF ToSet
<1> QED
  BY <1>1, <1>2 DEF Once

\* A query starts with nothing found.
LEMMA NewQuery ==
  ASSUME PoolTypes, UNCHANGED <<db, want>>, found' = <<>>, opponents' \in Seq(ToSet(opponents')),
         source' \in {"none"} \cup Formats,
         source' \in Formats => remaining' = {i \in DOMAIN db.teams : db.teams[i].format = source'}
  PROVE  (PoolTypes /\ ReportsFound /\ TeamsFound)'
<1>1. source' # "report"
  BY DEF Formats
<1>2. PoolTypes'
  BY NoEntries DEF PoolTypes
<1>3. Once(found)' /\ DOMAIN found' = {}
  BY NoEntries, OnceStays
<1> QED
  BY <1>1, <1>2, <1>3 DEF ReportsFound, TeamsFound

\* An observed team more, if its list is new.
LEMMA TakeTeamKeeps ==
  ASSUME OpponentsInv, TakeTeam
  PROVE  OpponentsInv'
<1> DEFINE entryOf(i) == IF Repeated(db.teams[i]) THEN <<>> ELSE CorpusTeamEntry(db.teams[i], source)
<1>1. PICK i \in remaining :
        /\ remaining' = remaining \ {i} /\ found' = found \o entryOf(i)
        /\ digests' = IF entryOf(i) = <<>> THEN digests ELSE digests \cup {db.teams[i].hash}
  BY DEF TakeTeam
<1>2. /\ source \in Formats /\ UNCHANGED <<db, want, source, opponents, rematch>>
  BY DEF TakeTeam
<1>3. /\ Stored(db) /\ PoolTypes /\ Once(found)
      /\ remaining \subseteq {j \in DOMAIN db.teams : db.teams[j].format = source}
      /\ \A k \in DOMAIN found : \E j \in DOMAIN db.teams \ remaining :
           IsObserved(found[k], j) /\ db.teams[j].format = source /\ db.teams[j].hash \in digests
      /\ found \in Seq(ToSet(found))
  BY <1>2, StoredHere DEF OpponentsInv, TeamsFound, PoolTypes
<1>4. i \in DOMAIN db.teams /\ db.teams[i].format = source
  BY <1>3
<1> DEFINE e == entryOf(i)
           Grown == /\ found' \in Seq(ToSet(found')) /\ Once(found')
                    /\ \A k \in DOMAIN found' : \E j \in DOMAIN db.teams \ remaining' :
                         IsObserved(found'[k], j) /\ db.teams[j].format = source /\ db.teams[j].hash \in digests'
<1>5. Grown
  <2>1. CASE e = <<>>
    <3>1. found' = found /\ digests' = digests
      BY <1>1, <1>3, <2>1, ConcatEmptySeq
    <3> QED
      BY <1>1, <1>3, <3>1
  <2>2. ASSUME NEW t, e = <<t>>
        PROVE  Grown
    <3>1. found' = found \o <<t>>
      BY <1>1, <2>2
    <3>2. e # <<>> /\ db.teams[i].hash \notin digests /\ CorpusTeamEntry(db.teams[i], source) = <<t>>
      BY <2>2 DEF Repeated
    <3>3. IsObserved(t, i) /\ digests' = digests \cup {db.teams[i].hash}
      BY <1>1, <1>4, <3>2 DEF IsObserved
    <3>4. t.id = db.teams[i].id /\ HashOf(t.id) = {db.teams[i].hash}
      BY <1>3, <1>4, <3>3, ObservedFits, HashIs
    <3>5. ASSUME NEW k \in DOMAIN found
          PROVE  Unlike(found[k], t)
      <4>1. PICK j \in DOMAIN db.teams \ remaining : IsObserved(found[k], j) /\ db.teams[j].hash \in digests
        BY <1>3
      <4>2. found[k].id = db.teams[j].id /\ HashOf(found[k].id) = {db.teams[j].hash} /\ i # j
        BY <1>3, <4>1, ObservedFits, HashIs
      <4>3. db.teams[j].id # db.teams[i].id
        BY <1>3, <1>4, <4>2 DEF Stored
      <4> QED
        BY <3>2, <3>4, <4>1, <4>2, <4>3 DEF Unlike
    <3>6. /\ found' \in Seq(ToSet(found'))
          /\ \A k \in DOMAIN found' : found'[k] = t \/ (k \in DOMAIN found /\ found'[k] = found[k])
      BY <1>3, <3>1, OneMore
    <3>7. Once(found')
      BY <1>3, <3>1, <3>5, OneEntry, OnceInBoth
    <3>8. ASSUME NEW k \in DOMAIN found'
          PROVE  \E j \in DOMAIN db.teams \ remaining' :
                   IsObserved(found'[k], j) /\ db.teams[j].format = source /\ db.teams[j].hash \in digests'
      <4>1. CASE k \in DOMAIN found /\ found'[k] = found[k]
        <5>1. PICK j \in DOMAIN db.teams \ remaining :
                IsObserved(found[k], j) /\ db.teams[j].format = source /\ db.teams[j].hash \in digests
          BY <1>3, <4>1
        <5> QED
          BY <1>1, <3>3, <4>1, <5>1
      <4>2. CASE found'[k] = t
        BY <1>1, <1>4, <3>3, <4>2
      <4> QED
        BY <3>6, <4>1, <4>2
    <3> QED
      BY <3>6, <3>7, <3>8
  <2>3. e = <<>> \/ \E t : e = <<t>>
    BY EntryGiven
  <2> QED
    BY <2>1, <2>2, <2>3
<1>6. TeamsFound'
  <2>1. Once(found)'
    BY <1>2, <1>5, OnceStays
  <2>2. \A k \in DOMAIN found' : \E j \in DOMAIN db.teams \ remaining' :
          IsObserved(found[k], j)' /\ db.teams[j].format = source /\ db.teams[j].hash \in digests'
    BY <1>2, <1>5, RowsStay
  <2> QED
    BY <1>1, <1>2, <1>3, <2>1, <2>2 DEF TeamsFound
<1>7. PoolTypes'
  BY <1>2, <1>3, <1>5 DEF PoolTypes
<1>8. ReportsFound'
  BY <1>2 DEF ReportsFound, Formats
<1>9. DrawnBefore'
  BY <1>2, RowsStay DEF OpponentsInv, DrawnBefore
<1> QED
  BY <1>2, <1>6, <1>7, <1>8, <1>9, PoolStays DEF OpponentsInv

\* The reports found become the pool: none left is better.
LEMMA AddReportsKeeps ==
  ASSUME OpponentsInv, AddReports
  PROVE  OpponentsInv'
<1>1. /\ source = "report" /\ opponents' = found /\ UNCHANGED <<db, want, rematch>>
      /\ found' = <<>> /\ source' \in {"none", want.format}
      /\ source' = want.format => remaining' = {i \in DOMAIN db.teams : db.teams[i].format = want.format}
  BY StoredHere DEF OpponentsInv, AddReports, AskTeams, Return, Formats
<1>2. /\ Stored(db) /\ want.format \in Formats /\ PoolTypes /\ Once(found)
      /\ \A k \in DOMAIN found : \E i \in DOMAIN db.full \ remaining : IsPublished(found[k], i)
      /\ \A i \in DOMAIN db.full \ remaining : db.full[i].format = want.format =>
           /\ Playable(db.members[db.full[i].id]) => \E k \in DOMAIN found : found[k].id = db.full[i].id
           /\ \A j \in remaining : db.full[i].rating >= db.full[j].rating
  BY <1>1, StoredHere DEF OpponentsInv, ReportsFound
<1>3. /\ source' \in {"none", "report"} \cup Formats /\ source' # "report"
      /\ want.format # "report" /\ "none" \notin Formats
  BY <1>1, <1>2 DEF Formats
<1>4. \A k \in DOMAIN found : found[k].from = "report"
  BY <1>2, PublishedFits
<1>5. (PoolTypes /\ ReportsFound /\ TeamsFound)'
  <2>1. opponents' \in Seq(ToSet(opponents')) /\ source' \in {"none"} \cup Formats
    BY <1>1, <1>2 DEF PoolTypes
  <2>2. source' \in Formats => remaining' = {i \in DOMAIN db.teams : db.teams[i].format = source'}
    BY <1>1, <1>3
  <2> QED
    BY <1>1, <1>2, <2>1, <2>2, NewQuery
<1>6. DrawnBefore'
  <2>2. \A k \in DOMAIN opponents' : \E i \in DOMAIN db'.full : IsPublished(opponents[k], i)'
    BY <1>1, <1>2, RowsStay
  <2>3. \A k \in DOMAIN opponents' : opponents'[k].from = "report" /\ source' # "report"
    BY <1>1, <1>3, <1>4
  <2> QED
    BY <1>1, <2>2, <2>3 DEF DrawnBefore
<1>7. PoolDistinct'
  <2>2. Once(opponents)'
    BY <1>1, <1>2, OnceStays
  <2>3. \A k \in DOMAIN opponents' : opponents'[k].from # want'.format
    BY <1>1, <1>3, <1>4
  <2> QED
    BY <2>2, <2>3 DEF PoolDistinct, Once, Unlike
<1>8. BestReports'
  <2>1. ASSUME NEW i \in DOMAIN db.full, NEW j \in DOMAIN db.full,
               db.full[i].format = want.format, db.full[j].format = want.format,
               db.full[i].rating > db.full[j].rating, Playable(db.members[db.full[i].id]),
               NEW t \in ToSet(found), t.id = db.full[j].id
        PROVE  \E u \in ToSet(found) : u.id = db.full[i].id
    <3>1. PICK k \in DOMAIN found : t = found[k]
      BY DEF ToSet
    <3>2. PICK l \in DOMAIN db.full \ remaining : IsPublished(t, l)
      BY <1>2, <3>1
    <3>3. t.id = db.full[l].id
      BY <1>2, <3>2, PublishedFits
    <3>4. l = j
      BY <1>2, <2>1, <3>3 DEF Stored
    <3>5. db.full[i].rating \in Nat /\ db.full[j].rating \in Nat
      BY <1>2 DEF Stored, ToSet
    <3>6. i \notin remaining
      BY <1>2, <2>1, <3>2, <3>4, <3>5
    <3>7. PICK m \in DOMAIN found : found[m].id = db.full[i].id
      BY <1>2, <2>1, <3>6
    <3> QED
      BY <3>7 DEF ToSet
  <2> QED
    BY <1>1, <2>1 DEF BestReports, Drawn
<1>9. RematchIsSame'
  BY <1>1 DEF OpponentsInv, RematchIsSame
<1> QED
  BY <1>5, <1>6, <1>7, <1>8, <1>9 DEF OpponentsInv

\* What adding observed teams leaves true of the pool.
PoolGrown ==
  /\ opponents' \in Seq(ToSet(opponents'))
  /\ \A k \in DOMAIN opponents' :
       /\ (\E i \in DOMAIN db'.full : IsPublished(opponents[k], i)')
            \/ \E i \in DOMAIN db'.teams : IsObserved(opponents[k], i)'
       /\ opponents'[k].from = source \/ \E l \in DOMAIN opponents : opponents'[k] = opponents[l]
  /\ (PoolDistinct /\ BestReports /\ RematchIsSame)'

\* Observed teams of a format are added, each once and, of the call's format, of
\* other species than those before.
LEMMA ObservedAdded ==
  ASSUME OpponentsInv, source \in Formats, UNCHANGED <<db, want, rematch>>,
         NEW new, new \in Seq(ToSet(new)), NEW h \in [DOMAIN new -> DOMAIN found],
         \A k \in DOMAIN new : new[k] = found[h[k]],
         \A k, l \in DOMAIN new : k # l => h[k] # h[l],
         source = want.format => \A k \in DOMAIN new : new[k].label \notin Labels,
         opponents' = opponents \o new
  PROVE  PoolGrown
<1>1. /\ Stored(db) /\ want.format \in Formats /\ PoolTypes /\ Once(found)
      /\ opponents \in Seq(ToSet(opponents))
      /\ \A k \in DOMAIN found : \E j \in DOMAIN db.teams :
           IsObserved(found[k], j) /\ db.teams[j].format = source
  BY StoredHere DEF OpponentsInv, TeamsFound, PoolTypes
<1>2. \A k \in DOMAIN new : \E j \in DOMAIN db.teams :
        IsObserved(new[k], j) /\ db.teams[j].format = source
  BY <1>1
<1>3. \A k \in DOMAIN new : new[k].from = source
  BY <1>1, <1>2, ObservedFits
<1>4. /\ opponents' \in Seq(ToSet(opponents'))
      /\ \A k \in DOMAIN opponents : k \in DOMAIN opponents' /\ opponents'[k] = opponents[k]
      /\ \A k \in DOMAIN opponents' :
           \/ k \in DOMAIN opponents /\ opponents'[k] = opponents[k]
           \/ k - Len(opponents) \in DOMAIN new /\ opponents'[k] = new[k - Len(opponents)]
  BY <1>1, ListsJoin
<1>5. \A k \in DOMAIN opponents' :
        (\E l \in DOMAIN new : opponents'[k] = new[l])
          \/ \E l \in DOMAIN opponents : opponents'[k] = opponents[l]
  BY <1>4
<1>6. ASSUME NEW k \in DOMAIN opponents'
      PROVE  /\ (\E i \in DOMAIN db'.full : IsPublished(opponents[k], i)')
                  \/ \E i \in DOMAIN db'.teams : IsObserved(opponents[k], i)'
             /\ opponents'[k].from = source \/ \E l \in DOMAIN opponents : opponents'[k] = opponents[l]
  <2>1. CASE \E l \in DOMAIN new : opponents'[k] = new[l]
    BY <1>2, <1>3, <2>1, RowsStay
  <2>2. CASE \E l \in DOMAIN opponents : opponents'[k] = opponents[l]
    BY <2>2, RowsStay DEF OpponentsInv, DrawnBefore
  <2> QED
    BY <1>5, <2>1, <2>2
<1>7. Once(new)
  BY <1>1 DEF Once
<1>8. Once(opponents)
  BY DEF OpponentsInv, PoolDistinct, Once, Unlike
<1>9. ASSUME NEW k \in DOMAIN opponents, NEW l \in DOMAIN new
      PROVE  Unlike(opponents[k], new[l])
  <2>1. PICK j \in DOMAIN db.teams : IsObserved(new[l], j) /\ db.teams[j].format = source
    BY <1>2
  <2>2. new[l].id = db.teams[j].id /\ new[l].from = source
    BY <1>1, <2>1, ObservedFits
  <2>3. opponents[k].from # source
    BY DEF OpponentsInv, DrawnBefore
  <2>4. opponents[k].id # new[l].id
    <3>1. CASE \E i \in DOMAIN db.full : IsPublished(opponents[k], i)
      <4>1. PICK i \in DOMAIN db.full : IsPublished(opponents[k], i)
        BY <3>1
      <4>2. opponents[k].id = db.full[i].id
        BY <1>1, <4>1, PublishedFits
      <4> QED
        BY <1>1, <2>2, <4>2, HashIs
    <3>2. CASE \E i \in DOMAIN db.teams : IsObserved(opponents[k], i)
      <4>1. PICK i \in DOMAIN db.teams : IsObserved(opponents[k], i)
        BY <3>2
      <4>2. opponents[k].id = db.teams[i].id /\ opponents[k].from = db.teams[i].format
        BY <1>1, <4>1, ObservedFits
      <4>3. i # j
        BY <2>1, <2>3, <4>2
      <4> QED
        BY <1>1, <2>2, <4>2, <4>3 DEF Stored
    <3> QED
      BY <3>1, <3>2 DEF OpponentsInv, DrawnBefore
  <2> QED
    BY <2>2, <2>3, <2>4 DEF Unlike
<1>10. PoolDistinct'
  <2>1. Once(opponents')
    BY <1>1, <1>7, <1>8, <1>9, OnceInBoth
  <2>2. Once(opponents)'
    BY <2>1, OnceStays
  <2>3. ASSUME NEW k \in DOMAIN opponents', NEW l \in DOMAIN opponents', k # l,
               opponents'[k].from = "report", opponents'[l].from = want.format
        PROVE  opponents'[k].label # opponents'[l].label
    <3>1. "report" \notin Formats
      BY DEF Formats
    <3>2. k \in DOMAIN opponents /\ opponents'[k] = opponents[k]
      BY <1>3, <1>4, <2>3, <3>1
    <3>3. CASE l \in DOMAIN opponents /\ opponents'[l] = opponents[l]
      BY <2>3, <3>2, <3>3 DEF OpponentsInv, PoolDistinct
    <3>4. CASE l - Len(opponents) \in DOMAIN new /\ opponents'[l] = new[l - Len(opponents)]
      <4>1. opponents'[l].label \notin Labels
        BY <1>3, <2>3, <3>4
      <4>2. opponents'[k].label \in Labels
        BY <3>2 DEF Labels
      <4> QED
        BY <4>1, <4>2
    <3> QED
      BY <1>4, <3>3, <3>4
  <2> QED
    BY <2>2, <2>3 DEF PoolDistinct, Once, Unlike
<1>11. BestReports'
  <2>1. ASSUME NEW i \in DOMAIN db.full, NEW j \in DOMAIN db.full,
               db.full[i].format = want.format, db.full[j].format = want.format,
               db.full[i].rating > db.full[j].rating, Playable(db.members[db.full[i].id]),
               NEW t \in ToSet(opponents'), t.id = db.full[j].id
        PROVE  \E u \in ToSet(opponents') : u.id = db.full[i].id
    <3>1. PICK k \in DOMAIN opponents' : t = opponents'[k]
      BY DEF ToSet
    <3>2. ASSUME NEW l \in DOMAIN new, t = new[l] PROVE FALSE
      <4>1. PICK m \in DOMAIN db.teams : IsObserved(new[l], m)
        BY <1>2
      <4>2. t.id = db.teams[m].id
        BY <1>1, <3>2, <4>1, ObservedFits
      <4> QED
        BY <1>1, <2>1, <4>2, HashIs
    <3>3. t \in Drawn
      BY <1>5, <3>1, <3>2 DEF Drawn, ToSet
    <3>4. PICK u \in Drawn : u.id = db.full[i].id
      BY <2>1, <3>3 DEF OpponentsInv, BestReports
    <3>5. u \in ToSet(opponents')
      BY <1>4 DEF Drawn, ToSet
    <3> QED
      BY <3>4, <3>5
  <2> QED
    BY <2>1 DEF BestReports, Drawn
<1>12. RematchIsSame'
  BY DEF OpponentsInv, RematchIsSame
<1> QED
  BY <1>4, <1>6, <1>10, <1>11, <1>12 DEF PoolGrown

LEMMA AddTeamsKeeps ==
  ASSUME OpponentsInv, AddTeams
  PROVE  OpponentsInv'
<1> DEFINE D == {i \in DOMAIN found : found[i].label \notin Labels}
           new == FirstOf(Select(found, D), Room)
<1>1. /\ source = want.format /\ opponents' = opponents \o new /\ AskVgc /\ UNCHANGED <<db, want, rematch>>
  BY DEF AddTeams
<1>2. /\ Stored(db) /\ want.format \in Formats /\ PoolTypes /\ found \in Seq(ToSet(found))
  BY StoredHere DEF OpponentsInv, PoolTypes
<1>3. /\ found' = <<>> /\ source' \in {"none"} \cup (Formats \ {want.format})
      /\ source' \in Formats => remaining' = {i \in DOMAIN db.teams : db.teams[i].format = source'}
  BY <1>1, <1>2 DEF AskVgc, AskTeams, Return, Formats
<1>4. D \in SUBSET (1 .. Len(found)) /\ D \subseteq DOMAIN found /\ \A i \in D : found[i].label \notin Labels
  BY <1>2, LenProperties
<1> HIDE DEF D
<1>5. /\ new \in Seq(ToSet(found))
      /\ \E h \in [DOMAIN new -> D] :
           /\ \A k \in DOMAIN new : new[k] = found[h[k]]
           /\ \A k, l \in DOMAIN new : k # l => h[k] # h[l]
  BY <1>2, <1>4, FirstSelected
<1> HIDE DEF new
<1>6. PICK h \in [DOMAIN new -> D] :
        /\ \A k \in DOMAIN new : new[k] = found[h[k]]
        /\ \A k, l \in DOMAIN new : k # l => h[k] # h[l]
  BY <1>5
<1>7. /\ h \in [DOMAIN new -> DOMAIN found]
      /\ \A k \in DOMAIN new : new[k].label \notin Labels
  BY <1>4, <1>6
<1>8. new \in Seq(ToSet(new))
  <2>1. new = [k \in 1 .. Len(new) |-> new[k]] /\ Len(new) \in Nat /\ \A k \in 1 .. Len(new) : new[k] \in ToSet(new)
    BY <1>5, LenProperties DEF ToSet
  <2> QED
    BY <2>1
<1>9. PoolGrown
  BY <1>1, <1>2, <1>6, <1>7, <1>8, ObservedAdded
<1>10. DrawnBefore'
  <2>1. source' # want.format /\ "report" \notin Formats /\ source' # source
    BY <1>1, <1>2, <1>3 DEF Formats
  <2>2. \A l \in DOMAIN opponents : opponents[l].from = "report"
    BY <1>1 DEF OpponentsInv, DrawnBefore
  <2>3. \A k \in DOMAIN opponents' : source' \in Formats => opponents'[k].from # source'
    BY <1>9, <2>1, <2>2 DEF PoolGrown
  <2> QED
    BY <1>1, <1>9, <2>1, <2>3 DEF DrawnBefore, PoolGrown
<1> QED
  BY <1>1, <1>2, <1>3, <1>9, <1>10, NewQuery DEF OpponentsInv, PoolGrown

LEMMA AddVgcKeeps ==
  ASSUME OpponentsInv, AddVgc
  PROVE  OpponentsInv'
<1> DEFINE new == found
           h == [k \in DOMAIN new |-> k]
<1>1. /\ source \in Formats /\ source # want.format /\ opponents' = opponents \o new
      /\ source' = "none" /\ found' = <<>> /\ UNCHANGED <<db, want, rematch>>
  BY DEF AddVgc, Return
<1>2. PoolTypes /\ new \in Seq(ToSet(new))
  BY DEF OpponentsInv, PoolTypes
<1>3. /\ h \in [DOMAIN new -> DOMAIN found]
      /\ \A k \in DOMAIN new : new[k] = found[h[k]]
      /\ \A k, l \in DOMAIN new : k # l => h[k] # h[l]
  OBVIOUS
<1> HIDE DEF h, new
<1>4. PoolGrown
  BY <1>1, <1>2, <1>3, ObservedAdded
<1>5. source' \notin Formats /\ want.format \in Formats
  BY <1>1, <1>2 DEF Formats, PoolTypes
<1>6. DrawnBefore'
  BY <1>1, <1>4, <1>5 DEF DrawnBefore, PoolGrown
<1> QED
  BY <1>1, <1>2, <1>4, <1>5, <1>6, NewQuery DEF OpponentsInv, PoolGrown

LEMMA AskKeeps ==
  ASSUME OpponentsInv, NEW fmt \in Formats, NEW limit \in 1 .. MaxLimit, MetaOpponents(fmt, limit)
  PROVE  OpponentsInv'
<1>1. /\ want' = [format |-> fmt, limit |-> limit] /\ db' = db /\ opponents' = <<>> /\ found' = <<>>
      /\ rematch' = NoRematch /\ source' = "report"
      /\ remaining' = {i \in DOMAIN db.full : db.full[i].format = fmt}
  BY DEF MetaOpponents, AskReports
<1>2. limit \in Nat /\ "report" \notin Formats
  BY CountsAssumption DEF Formats
<1>3. PoolTypes'
  BY <1>1, <1>2, NoEntries DEF OpponentsInv, PoolTypes
<1>4. DOMAIN opponents' = {} /\ DOMAIN found' = {} /\ want'.format = fmt /\ Drawn' = {}
  BY <1>1, NoEntries DEF Drawn, ToSet
<1>5. ReportsFound'
  <2>1. Once(found)'
    BY <1>4 DEF Once
  <2>2. \A i \in DOMAIN db'.full \ remaining' : db'.full[i].format # want'.format
    BY <1>1, <1>4
  <2> QED
    BY <1>1, <1>4, <2>1, <2>2 DEF ReportsFound
<1>6. TeamsFound'
  BY <1>1, <1>2 DEF TeamsFound
<1>7. DrawnBefore' /\ PoolDistinct' /\ BestReports'
  BY <1>4 DEF DrawnBefore, PoolDistinct, BestReports
<1>8. RematchIsSame'
  BY <1>1 DEF RematchIsSame
<1> QED
  BY <1>3, <1>5, <1>6, <1>7, <1>8 DEF OpponentsInv

\* What is said of the queries, as long as nothing is read.
LEMMA SameState ==
  ASSUME OpponentsInv, UNCHANGED <<db, want, source, remaining, found, digests, opponents>>
  PROVE  (PoolTypes /\ ReportsFound /\ TeamsFound /\ DrawnBefore /\ PoolDistinct /\ BestReports)'
<1>1. PoolTypes'
  BY DEF OpponentsInv, PoolTypes
<1>2. Once(found)' <=> Once(found)
  BY OnceStays
<1>3. ReportsFound'
  BY <1>2, RowsStay DEF OpponentsInv, ReportsFound
<1>4. TeamsFound'
  BY <1>2, RowsStay DEF OpponentsInv, TeamsFound
<1>5. DrawnBefore'
  BY RowsStay DEF OpponentsInv, DrawnBefore
<1>6. PoolDistinct' /\ BestReports'
  BY PoolSame DEF OpponentsInv
<1> QED
  BY <1>1, <1>3, <1>4, <1>5, <1>6

\* The id of an opponent leads back to the row it was made of.
LEMMA BuiltAgain ==
  ASSUME OpponentsInv, NEW k \in DOMAIN opponents
  PROVE  TeamById(opponents[k].id) = <<opponents[k]>>
<1> DEFINE t == opponents[k]
           full == {i \in DOMAIN db.full : db.full[i].id = t.id}
<1>1. Stored(db) /\ want.format \in Formats
  BY StoredHere DEF OpponentsInv
<1>2. CASE \E i \in DOMAIN db.full : IsPublished(t, i)
  <2>1. PICK i \in DOMAIN db.full : IsPublished(t, i)
    BY <1>2
  <2>2. t.id = db.full[i].id
    BY <1>1, <2>1, PublishedFits
  <2>3. full = {i}
    BY <1>1, <2>2 DEF Stored
  <2>4. (CHOOSE j \in full : TRUE) = i /\ full # {}
    BY <2>3
  <2> QED
    BY <2>1, <2>4 DEF TeamById, IsPublished
<1>3. CASE \E i \in DOMAIN db.teams : IsObserved(t, i)
  <2>1. PICK i \in DOMAIN db.teams : IsObserved(t, i)
    BY <1>3
  <2>2. t.id = db.teams[i].id
    BY <1>1, <2>1, ObservedFits
  <2>3. full = {}
    BY <1>1, <2>2, HashIs
  <2>4. (CHOOSE j \in DOMAIN db.teams : db.teams[j].id = t.id) = i
    <3>1. \A j \in DOMAIN db.teams : db.teams[j].id = t.id => j = i
      BY <1>1, <2>2 DEF Stored
    <3> QED
      BY <2>2, <3>1
  <2> QED
    BY <2>1, <2>3, <2>4 DEF TeamById, IsObserved
<1> QED
  BY <1>2, <1>3 DEF OpponentsInv, DrawnBefore

LEMMA RematchKeeps ==
  ASSUME OpponentsInv, Rematch
  PROVE  OpponentsInv'
<1>1. PICK k \in DOMAIN opponents : rematch' = [entry |-> opponents[k], again |-> TeamById(opponents[k].id)]
  BY DEF Rematch
<1>2. UNCHANGED <<db, want, source, remaining, found, digests, opponents>>
  BY DEF Rematch
<1>3. RematchIsSame'
  BY <1>1, BuiltAgain DEF RematchIsSame
<1> QED
  BY <1>2, <1>3, SameState DEF OpponentsInv

\* A pool at any stage is one a player can be asked to play.
LEMMA PoolFits ==
  ASSUME OpponentsInv
  PROVE  PoolPlayable /\ SpreadsAsAssumed
<1>1. Stored(db) /\ want.format \in Formats
  BY StoredHere DEF OpponentsInv
<1>2. ASSUME NEW t \in Drawn PROVE Fits(t)
  <2>1. PICK k \in DOMAIN opponents : t = opponents[k]
    BY DEF Drawn, ToSet
  <2> QED
    BY <1>1, <2>1, PublishedFits, ObservedFits DEF OpponentsInv, DrawnBefore
<1>3. PoolPlayable
  BY <1>2 DEF PoolPlayable, Fits
<1>4. SpreadsAsAssumed
  BY <1>1, <1>2 DEF SpreadsAsAssumed, Fits, Belief
<1> QED
  BY <1>3, <1>4

LEMMA OpponentsStep == OpponentsInv /\ [OpponentsNext]_opponentsVars => OpponentsInv'
<1> SUFFICES ASSUME OpponentsInv, [OpponentsNext]_opponentsVars PROVE OpponentsInv'
  OBVIOUS
<1>1. CASE \E fmt \in Formats, limit \in 1 .. MaxLimit : MetaOpponents(fmt, limit)
  BY <1>1, AskKeeps
<1>2. CASE TakeReport
  BY <1>2, TakeReportKeeps
<1>3. CASE TakeTeam
  BY <1>3, TakeTeamKeeps
<1>4. CASE AddReports
  BY <1>4, AddReportsKeeps
<1>5. CASE AddTeams
  BY <1>5, AddTeamsKeeps
<1>6. CASE AddVgc
  BY <1>6, AddVgcKeeps
<1>7. CASE Rematch
  BY <1>7, RematchKeeps
<1>8. CASE UNCHANGED opponentsVars
  <2>1. UNCHANGED <<db, want, source, remaining, found, digests, opponents, rematch>>
    BY <1>8 DEF opponentsVars
  <2> QED
    BY <2>1, SameState, PoolStays DEF OpponentsInv
<1> QED
  BY <1>1, <1>2, <1>3, <1>4, <1>5, <1>6, <1>7, <1>8 DEF OpponentsNext

\* An opponent pool is fair, for any database the pull can have written, any usage
\* and any limit: playable, without repetition, the best reports first, built again
\* as it was by id, and played as the other side is told.
THEOREM PoolIsFair == OpponentsSpec => []OpponentsSound
<1>1. OpponentsInit => OpponentsInv
  <2> SUFFICES ASSUME OpponentsInit PROVE OpponentsInv
    OBVIOUS
  <2>1. /\ db \in Databases /\ want = [format |-> "singles", limit |-> 0] /\ source = "none"
        /\ found = <<>> /\ opponents = <<>> /\ rematch = NoRematch
    BY DEF OpponentsInit
  <2>2. source \notin Formats /\ "singles" \in Formats /\ 0 \in Nat
    BY <2>1 DEF Formats
  <2>3. DOMAIN opponents = {} /\ Drawn = {}
    BY <2>1, NoEntries DEF Drawn, ToSet
  <2>4. PoolTypes
    BY <2>1, <2>2, NoEntries DEF PoolTypes
  <2>5. ReportsFound /\ TeamsFound
    BY <2>1, <2>2 DEF ReportsFound, TeamsFound
  <2>6. DrawnBefore /\ PoolDistinct /\ BestReports /\ RematchIsSame
    BY <2>1, <2>3 DEF DrawnBefore, PoolDistinct, BestReports, RematchIsSame
  <2> QED
    BY <2>4, <2>5, <2>6 DEF OpponentsInv
<1>2. OpponentsInv /\ [OpponentsNext]_opponentsVars => OpponentsInv'
  BY OpponentsStep
<1>3. OpponentsInv => OpponentsSound
  BY PoolFits DEF OpponentsInv, OpponentsSound
<1> QED
  BY <1>1, <1>2, <1>3, PTL DEF OpponentsSpec
=============================================================================
