--------------------------- MODULE SimPoolProofs ----------------------------
(***************************************************************************)
(* Proofs about the battle pool, for any number of workers and of calls.   *)
(***************************************************************************)
EXTENDS SimPool, SequenceTheorems, TLAPS

\* No sequence names anything twice.
Distinct(s) == \A i, j \in 1 .. Len(s) : i # j => s[i] # s[j]

\* What the handlers establish before they call _drain, with N tasks created:
\* the stack holds free workers, and nothing that waits is held.
Drainable(N, id, q, cur, box) ==
  /\ id \in Seq(Workers) /\ Distinct(id)
  /\ q \in Seq(1 .. N) /\ Distinct(q)
  /\ cur \in [Workers -> (1 .. N) \cup {NoTask}]
  /\ box \in [Workers -> SUBSET (1 .. N)]
  /\ \A i \in 1 .. Len(id) : cur[id[i]] = NoTask
  /\ \A i \in 1 .. Len(q), w \in Workers : q[i] # cur[w]
  /\ \A w, v \in Workers : w # v /\ cur[w] # NoTask => cur[w] # cur[v]

\* SubSeq as _drain uses it: what is left of the stack, and of the queue.
LEMMA Prefix ==
  ASSUME NEW S, NEW s \in Seq(S), NEW k \in 0 .. Len(s)
  PROVE  /\ SubSeq(s, 1, k) \in Seq(S)
         /\ Len(SubSeq(s, 1, k)) = k
         /\ \A i \in 1 .. k : SubSeq(s, 1, k)[i] = s[i]
  OBVIOUS

LEMMA Suffix ==
  ASSUME NEW S, NEW s \in Seq(S), NEW k \in 0 .. Len(s)
  PROVE  /\ SubSeq(s, k + 1, Len(s)) \in Seq(S)
         /\ Len(SubSeq(s, k + 1, Len(s))) = Len(s) - k
         /\ \A i \in 1 .. Len(s) - k : SubSeq(s, k + 1, Len(s))[i] = s[i + k]
  OBVIOUS

\* A sequence over a set is one over any larger set.
LEMMA SeqWiden ==
  ASSUME NEW S, NEW T, S \subseteq T, NEW s \in Seq(S)
  PROVE  s \in Seq(T)
<1>1. Len(s) \in Nat /\ s \in [1 .. Len(s) -> S]
  BY LenProperties
<1> QED BY <1>1

\* _drain hands each of the first waiting tasks to a free worker of its own:
\* nothing waiting is lost, and no busy worker is touched.
LEMMA DrainLemma ==
  ASSUME NEW N \in Nat, NEW id, NEW q, NEW cur, NEW box,
         Drainable(N, id, q, cur, box),
         Drain(id, q, cur, box)
  PROVE  /\ Drainable(N, idle', queue', currentTask', inbox')
         /\ idle' = <<>> \/ queue' = <<>>
         /\ \A w \in Workers :
              \/ currentTask'[w] = cur[w] /\ inbox'[w] = box[w]
              \/ /\ cur[w] = NoTask /\ currentTask'[w] # NoTask
                 /\ inbox'[w] = box[w] \cup {currentTask'[w]}
         /\ \A w \in Workers :
              (\E i \in 1 .. Len(idle') : idle'[i] = w) <=>
              (\E i \in 1 .. Len(id) : id[i] = w) /\ currentTask'[w] = NoTask
         /\ \A t \in 1 .. N :
              (\E i \in 1 .. Len(queue') : queue'[i] = t)
                \/ (\E w \in Workers : currentTask'[w] = t)
              <=>
              (\E i \in 1 .. Len(q) : q[i] = t) \/ (\E w \in Workers : cur[w] = t)
<1> DEFINE n == Smaller(Len(id), Len(q))
           Taker(i) == id[Len(id) + 1 - i]
           Given(w) == {i \in 1 .. n : Taker(i) = w}
<1> USE DEF NoTask
<1>1. /\ id \in Seq(Workers) /\ Len(id) \in Nat
      /\ q \in Seq(1 .. N) /\ Len(q) \in Nat
      /\ n \in 0 .. Len(id) /\ n \in 0 .. Len(q)
      /\ n = Len(id) \/ n = Len(q)
  BY DEF Drainable, Smaller
<1>2. /\ idle' = SubSeq(id, 1, Len(id) - n)
      /\ queue' = SubSeq(q, n + 1, Len(q))
      /\ currentTask' = [w \in Workers |->
           IF Given(w) = {} THEN cur[w]
           ELSE q[CHOOSE i \in Given(w) : \A j \in Given(w) : j <= i]]
      /\ inbox' = [w \in Workers |-> box[w] \cup {q[i] : i \in Given(w)}]
  BY DEF Drain
<1>n. /\ n \in Nat /\ n <= Len(id) /\ n <= Len(q)
      /\ Len(id) \in Nat /\ Len(q) \in Nat
  BY <1>1
<1> HIDE DEF n
<1>3. /\ idle' \in Seq(Workers) /\ Len(idle') = Len(id) - n
      /\ \A i \in 1 .. Len(id) - n : idle'[i] = id[i]
  BY <1>1, <1>2, Prefix
<1>4. /\ queue' \in Seq(1 .. N) /\ Len(queue') = Len(q) - n
      /\ \A i \in 1 .. Len(q) - n : queue'[i] = q[i + n]
  BY <1>1, <1>2, Suffix
<1>5. \A i \in 1 .. n : Taker(i) \in Workers /\ cur[Taker(i)] = NoTask
  BY <1>1 DEF Drainable
<1>6. \A i, j \in 1 .. n : Taker(i) = Taker(j) => i = j
  BY <1>1 DEF Drainable, Distinct
\* The worker that takes the i-th task gets that task and no other.
<1>7. \A i \in 1 .. n : /\ currentTask'[Taker(i)] = q[i]
                        /\ inbox'[Taker(i)] = box[Taker(i)] \cup {q[i]}
  <2> SUFFICES ASSUME NEW i \in 1 .. n
               PROVE  /\ currentTask'[Taker(i)] = q[i]
                      /\ inbox'[Taker(i)] = box[Taker(i)] \cup {q[i]}
    OBVIOUS
  <2>1. Given(Taker(i)) = {i}
    BY <1>6
  <2>2. (CHOOSE k \in {i} : \A j \in {i} : j <= k) = i
    BY <1>1
  <2>3. {q[k] : k \in {i}} = {q[i]}
    OBVIOUS
  <2> HIDE DEF Given, Taker
  <2> QED BY <2>1, <2>2, <2>3, <1>2, <1>5
<1>8. \A w \in Workers : (\A i \in 1 .. n : Taker(i) # w) =>
         currentTask'[w] = cur[w] /\ inbox'[w] = box[w]
  <2> SUFFICES ASSUME NEW w \in Workers, \A i \in 1 .. n : Taker(i) # w
               PROVE  currentTask'[w] = cur[w] /\ inbox'[w] = box[w]
    OBVIOUS
  <2>1. Given(w) = {}
    OBVIOUS
  <2>2. {q[k] : k \in {}} = {}
    OBVIOUS
  <2> HIDE DEF Given, Taker
  <2> QED BY <2>1, <2>2, <1>2
<1>9. \A i \in 1 .. n : q[i] \in 1 .. N
  BY <1>1
<1>10. /\ currentTask' \in [Workers -> (1 .. N) \cup {NoTask}]
       /\ inbox' \in [Workers -> SUBSET (1 .. N)]
  <2>1. ASSUME NEW w \in Workers
        PROVE  /\ currentTask'[w] \in (1 .. N) \cup {NoTask}
               /\ inbox'[w] \in SUBSET (1 .. N)
    <3>1. cur[w] \in (1 .. N) \cup {NoTask} /\ box[w] \in SUBSET (1 .. N)
      BY DEF Drainable
    <3>2. CASE \A i \in 1 .. n : Taker(i) # w
      BY <3>1, <3>2, <1>8
    <3>3. ASSUME NEW i \in 1 .. n, Taker(i) = w
          PROVE  /\ currentTask'[w] \in (1 .. N) \cup {NoTask}
                 /\ inbox'[w] \in SUBSET (1 .. N)
      <4>1. currentTask'[w] = q[i] /\ inbox'[w] = box[w] \cup {q[i]}
        BY <3>3, <1>7
      <4> QED BY <4>1, <3>1, <1>9
    <3> QED BY <3>2, <3>3
  <2> HIDE DEF Given, Taker
  <2> QED BY <2>1, <1>2
<1> HIDE DEF Given
<1>11. Distinct(idle') /\ Distinct(queue')
  <2>1. Distinct(id) /\ Distinct(q)
    BY DEF Drainable
  <2>2. Distinct(idle')
    BY <2>1, <1>n, <1>3 DEF Distinct
  <2>3. ASSUME NEW i \in 1 .. Len(queue'), NEW j \in 1 .. Len(queue'), i # j
        PROVE  queue'[i] # queue'[j]
    <3>1. /\ i + n \in 1 .. Len(q) /\ queue'[i] = q[i + n]
          /\ j + n \in 1 .. Len(q) /\ queue'[j] = q[j + n]
          /\ i + n # j + n
      BY <2>3, <1>n, <1>4
    <3> QED BY <3>1, <2>1 DEF Distinct
  <2> QED BY <2>2, <2>3 DEF Distinct
<1>12. \A w \in Workers :
         \/ currentTask'[w] = cur[w] /\ inbox'[w] = box[w]
         \/ /\ cur[w] = NoTask /\ currentTask'[w] # NoTask
            /\ inbox'[w] = box[w] \cup {currentTask'[w]}
  <2> SUFFICES ASSUME NEW w \in Workers, NEW i \in 1 .. n, Taker(i) = w
               PROVE  /\ cur[w] = NoTask /\ currentTask'[w] # NoTask
                      /\ inbox'[w] = box[w] \cup {currentTask'[w]}
    BY <1>8
  <2>1. cur[w] = NoTask
    BY <1>5
  <2>2. currentTask'[w] = q[i] /\ inbox'[w] = box[w] \cup {q[i]}
    BY <1>7
  <2>3. q[i] # NoTask
    BY <1>9
  <2> QED BY <2>1, <2>2, <2>3
<1>13. \A i \in 1 .. Len(idle') : currentTask'[idle'[i]] = NoTask
  <2> SUFFICES ASSUME NEW i \in 1 .. Len(idle')
               PROVE  currentTask'[idle'[i]] = NoTask
    OBVIOUS
  <2>1. ASSUME NEW j \in 1 .. n PROVE Taker(j) # idle'[i]
    <3>1. /\ i \in 1 .. Len(id) /\ idle'[i] = id[i]
          /\ Len(id) + 1 - j \in 1 .. Len(id) /\ i # Len(id) + 1 - j
      BY <1>n, <1>3
    <3> QED BY <3>1 DEF Drainable, Distinct
  <2>2. idle'[i] \in Workers /\ cur[idle'[i]] = NoTask
    BY <1>1, <1>3 DEF Drainable
  <2> QED BY <2>1, <2>2, <1>8
<1>14. \A i \in 1 .. Len(queue'), w \in Workers : queue'[i] # currentTask'[w]
  <2> SUFFICES ASSUME NEW i \in 1 .. Len(queue'), NEW w \in Workers
               PROVE  queue'[i] # currentTask'[w]
    OBVIOUS
  <2>1. i + n \in 1 .. Len(q) /\ i + n > n /\ queue'[i] = q[i + n]
    BY <1>n, <1>4
  <2>2. CASE \E j \in 1 .. n : Taker(j) = w
    <3>1. PICK j \in 1 .. n : Taker(j) = w
      BY <2>2
    <3>2. currentTask'[w] = q[j]
      BY <3>1, <1>7
    <3>3. q[j] # q[i + n]
      BY <1>1, <2>1 DEF Drainable, Distinct
    <3> QED BY <2>1, <3>2, <3>3
  <2>3. CASE \A j \in 1 .. n : Taker(j) # w
    BY <2>1, <2>3, <1>8 DEF Drainable
  <2> QED BY <2>2, <2>3
<1>15. \A w, v \in Workers :
         w # v /\ currentTask'[w] # NoTask => currentTask'[w] # currentTask'[v]
  <2> SUFFICES ASSUME NEW w \in Workers, NEW v \in Workers,
                      w # v, currentTask'[w] # NoTask
               PROVE  currentTask'[w] # currentTask'[v]
    OBVIOUS
  <2>1. \A u \in Workers : currentTask'[u] = cur[u] \/
          \E i \in 1 .. n : Taker(i) = u /\ currentTask'[u] = q[i]
    BY <1>7, <1>8
  <2>2. CASE \E i \in 1 .. n : Taker(i) = w
    <3>1. PICK i \in 1 .. n : Taker(i) = w
      BY <2>2
    <3>2. currentTask'[w] = q[i] /\ i \in 1 .. Len(q)
      BY <3>1, <1>1, <1>7
    <3>3. CASE currentTask'[v] = cur[v]
      BY <3>2, <3>3 DEF Drainable
    <3>4. ASSUME NEW j \in 1 .. n, Taker(j) = v, currentTask'[v] = q[j]
          PROVE  currentTask'[w] # currentTask'[v]
      BY SMTT(30), <3>1, <3>2, <3>4, <1>1 DEF Drainable, Distinct
    <3> QED BY <3>3, <3>4, <2>1
  <2>3. CASE \A i \in 1 .. n : Taker(i) # w
    <3>1. currentTask'[w] = cur[w]
      BY <2>3, <1>8
    <3>2. CASE currentTask'[v] = cur[v]
      BY <2>3, <3>1, <3>2 DEF Drainable
    <3>3. ASSUME NEW j \in 1 .. n, Taker(j) = v, currentTask'[v] = q[j]
          PROVE  currentTask'[w] # currentTask'[v]
      BY <3>1, <3>3, <1>1 DEF Drainable
    <3> QED BY <3>2, <3>3, <2>1
  <2> QED BY <2>2, <2>3
<1>16. idle' = <<>> \/ queue' = <<>>
  BY <1>1, <1>3, <1>4
<1>17. \A w \in Workers :
         (\E i \in 1 .. Len(idle') : idle'[i] = w) <=>
         (\E i \in 1 .. Len(id) : id[i] = w) /\ currentTask'[w] = NoTask
  <2> SUFFICES ASSUME NEW w \in Workers
               PROVE  (\E i \in 1 .. Len(idle') : idle'[i] = w) <=>
                      (\E i \in 1 .. Len(id) : id[i] = w) /\ currentTask'[w] = NoTask
    OBVIOUS
  <2>1. (\E i \in 1 .. Len(idle') : idle'[i] = w) => \E i \in 1 .. Len(id) : id[i] = w
    BY <1>1, <1>3
  <2>2. ASSUME NEW i \in 1 .. Len(id), id[i] = w, currentTask'[w] = NoTask
        PROVE  \E j \in 1 .. Len(idle') : idle'[j] = w
    <3>1. CASE i \in 1 .. Len(id) - n
      BY <3>1, <2>2, <1>3
    <3>2. CASE i > Len(id) - n
      <4>1. Len(id) + 1 - i \in 1 .. n /\ Taker(Len(id) + 1 - i) = w
        BY <3>2, <2>2, <1>1
      <4>2. currentTask'[w] \in 1 .. N
        BY <4>1, <1>7, <1>9
      <4> QED BY <4>2, <2>2
    <3> QED BY <3>1, <3>2, <1>1
  <2> QED BY <2>1, <2>2, <1>13
<1>18. \A t \in 1 .. N :
         (\E i \in 1 .. Len(queue') : queue'[i] = t)
           \/ (\E w \in Workers : currentTask'[w] = t)
         <=>
         (\E i \in 1 .. Len(q) : q[i] = t) \/ (\E w \in Workers : cur[w] = t)
  <2> SUFFICES ASSUME NEW t \in 1 .. N
               PROVE  (\E i \in 1 .. Len(queue') : queue'[i] = t)
                        \/ (\E w \in Workers : currentTask'[w] = t)
                      <=>
                      (\E i \in 1 .. Len(q) : q[i] = t) \/ (\E w \in Workers : cur[w] = t)
    OBVIOUS
  <2>1. ASSUME NEW i \in 1 .. Len(queue'), queue'[i] = t
        PROVE  \E j \in 1 .. Len(q) : q[j] = t
    <3>1. i + n \in 1 .. Len(q) /\ q[i + n] = t
      BY <2>1, <1>n, <1>4
    <3> QED BY <3>1
  <2>2. ASSUME NEW w \in Workers, currentTask'[w] = t
        PROVE  (\E j \in 1 .. Len(q) : q[j] = t) \/ (\E v \in Workers : cur[v] = t)
    <3>1. CASE currentTask'[w] = cur[w]
      BY <3>1, <2>2
    <3>2. ASSUME NEW i \in 1 .. n, Taker(i) = w PROVE q[i] = t /\ i \in 1 .. Len(q)
      BY <3>2, <2>2, <1>1, <1>7
    <3> QED BY <3>1, <3>2, <1>8
  <2>3. ASSUME NEW i \in 1 .. Len(q), q[i] = t
        PROVE  (\E j \in 1 .. Len(queue') : queue'[j] = t)
                 \/ (\E w \in Workers : currentTask'[w] = t)
    <3>1. CASE i \in 1 .. n
      BY <3>1, <2>3, <1>5, <1>7
    <3>2. CASE i > n
      <4>1. i - n \in 1 .. Len(queue') /\ queue'[i - n] = t
        BY <3>2, <2>3, <1>1, <1>4
      <4> QED BY <4>1
    <3> QED BY <3>1, <3>2, <1>1
  <2>4. ASSUME NEW w \in Workers, cur[w] = t
        PROVE  \E v \in Workers : currentTask'[v] = t
    BY <2>4, <1>12
  <2> QED BY <2>1, <2>2, <2>3, <2>4
<1> QED
  <2>1. Drainable(N, idle', queue', currentTask', inbox')
    BY <1>3, <1>4, <1>10, <1>11, <1>13, <1>14, <1>15 DEF Drainable
  <2> QED BY <2>1, <1>12, <1>16, <1>17, <1>18

-----------------------------------------------------------------------------
\* A closed pool owes nobody anything, and only closing ends a slot.
QuietWhenClosed ==
  /\ closed => pending = {}
  /\ \A w \in Workers : state[w] = "gone" => closed

\* A dead thread plays nothing.
DeadPlaysNothing == \A w \in Workers : state[w] = "down" => running[w] = NoTask

\* The inductive invariant: the main thread's lists partition the unresolved
\* tasks (TaskHeldOnce, IdleIsFree), and the threads hold what it thinks
\* they hold (OneTaskInFlight), which is what makes the id of a message the
\* currentTask of the worker that sent it.
PoolInv ==
  /\ TypeOK
  /\ TaskHeldOnce
  /\ WorkConserving
  /\ IdleIsFree
  /\ OneTaskInFlight
  /\ QuietWhenClosed
  /\ DeadPlaysNothing

\* What a thread may have in its hands when its task is t.
InFlight(w, t, box, run, out, st) ==
  LET near == box \cup out \cup ({run} \ {NoTask})
  IN  /\ near \subseteq {t} \ {NoTask}
      /\ st = "up" => near = {t} \ {NoTask}
      /\ box \cap out = {}
      /\ run \notin box \cup out

\* A handler that leaves lists fit for _drain, then drains, re-establishes
\* the invariant's four parts about the lists.
LEMMA DrainStep ==
  ASSUME NEW N \in Nat, NEW id, NEW q, NEW cur, NEW box,
         Drainable(N, id, q, cur, box),
         Drain(id, q, cur, box),
         pending' \subseteq 1 .. N,
         \A t \in 1 .. N :
           t \in pending' <=>
             (\E i \in 1 .. Len(q) : q[i] = t) \/ (\E w \in Workers : cur[w] = t),
         \A w \in Workers : state'[w] # "gone" =>
           ((\E i \in 1 .. Len(id) : id[i] = w) <=> cur[w] = NoTask),
         \A w \in Workers :
           InFlight(w, cur[w], box[w], running'[w], outbox'[w], state'[w])
  PROVE  /\ TaskHeldOnce' /\ WorkConserving' /\ IdleIsFree' /\ OneTaskInFlight'
         /\ queue' \in Seq(1 .. N) /\ idle' \in Seq(Workers)
         /\ currentTask' \in [Workers -> (1 .. N) \cup {NoTask}]
         /\ inbox' \in [Workers -> SUBSET (1 .. N)]
<1>1. Drainable(N, idle', queue', currentTask', inbox')
  BY DrainLemma
<1>2. idle' = <<>> \/ queue' = <<>>
  BY DrainLemma
<1>3. \A w \in Workers :
        \/ currentTask'[w] = cur[w] /\ inbox'[w] = box[w]
        \/ /\ cur[w] = NoTask /\ currentTask'[w] # NoTask
           /\ inbox'[w] = box[w] \cup {currentTask'[w]}
  BY DrainLemma
<1>4. \A w \in Workers :
        (\E i \in 1 .. Len(idle') : idle'[i] = w) <=>
        (\E i \in 1 .. Len(id) : id[i] = w) /\ currentTask'[w] = NoTask
  BY DrainLemma
<1>5. \A t \in 1 .. N :
        (\E i \in 1 .. Len(queue') : queue'[i] = t)
          \/ (\E w \in Workers : currentTask'[w] = t)
        <=>
        (\E i \in 1 .. Len(q) : q[i] = t) \/ (\E w \in Workers : cur[w] = t)
  BY DrainLemma
<1>6. TaskHeldOnce'
  <2>1. \A t : t \in Waiting' \cup Held' <=> t \in pending'
    <3>1. Waiting' \subseteq 1 .. N
      BY <1>1 DEF Drainable, Waiting
    <3>2. Held' \subseteq 1 .. N
      BY <1>1 DEF Drainable, Held
    <3>3. \A t \in 1 .. N : t \in Waiting' <=> \E i \in 1 .. Len(queue') : queue'[i] = t
      BY DEF Waiting
    <3>4. \A t \in 1 .. N : t \in Held' <=> \E w \in Workers : currentTask'[w] = t
      BY DEF Held, NoTask
    <3> QED BY <3>1, <3>2, <3>3, <3>4, <1>5
  <2>2. Waiting' \cap Held' = {}
    BY <1>1 DEF Drainable, Waiting, Held
  <2> QED BY <2>1, <2>2, <1>1 DEF TaskHeldOnce, Drainable, Distinct
<1>7. WorkConserving'
  BY <1>2 DEF WorkConserving
<1>8. IdleIsFree'
  <2>1. \A w \in Workers : state'[w] # "gone" =>
          ((\E i \in 1 .. Len(idle') : idle'[i] = w) <=> currentTask'[w] = NoTask)
    BY <1>3, <1>4
  <2> QED BY <2>1, <1>1 DEF IdleIsFree, Drainable, Distinct
<1>9. OneTaskInFlight'
  <2> SUFFICES ASSUME NEW w \in Workers
               PROVE  InFlight(w, currentTask'[w], inbox'[w], running'[w],
                               outbox'[w], state'[w])
    BY DEF OneTaskInFlight, InFlight
  <2>1. CASE currentTask'[w] = cur[w] /\ inbox'[w] = box[w]
    BY <2>1
  <2>2. CASE /\ cur[w] = NoTask /\ currentTask'[w] # NoTask
             /\ inbox'[w] = box[w] \cup {currentTask'[w]}
    <3>1. box[w] = {} /\ outbox'[w] = {} /\ running'[w] = NoTask
      BY <2>2 DEF InFlight
    <3> QED BY <2>2, <3>1 DEF InFlight
  <2> QED BY <2>1, <2>2, <1>3
<1> QED BY <1>1, <1>6, <1>7, <1>8, <1>9 DEF Drainable

\* Between handlers the lists are fit for _drain.
LEMMA InvDrainable ==
  PoolInv => Drainable(Len(tasks), idle, queue, currentTask, inbox)
<1> SUFFICES ASSUME PoolInv
             PROVE  Drainable(Len(tasks), idle, queue, currentTask, inbox)
  OBVIOUS
<1>1. \A i \in 1 .. Len(queue), w \in Workers : queue[i] # currentTask[w]
  <2>1. \A i \in 1 .. Len(queue) : queue[i] \in Waiting /\ queue[i] # NoTask
    BY DEF PoolInv, TypeOK, Waiting, Ids, NoTask
  <2>2. \A w \in Workers : currentTask[w] = NoTask \/ currentTask[w] \in Held
    BY DEF Held
  <2> QED BY <2>1, <2>2 DEF PoolInv, TaskHeldOnce
<1>2. \A i \in 1 .. Len(idle) : currentTask[idle[i]] = NoTask
  <2> SUFFICES ASSUME NEW i \in 1 .. Len(idle)
               PROVE  currentTask[idle[i]] = NoTask
    OBVIOUS
  <2>1. idle[i] \in Workers
    BY DEF PoolInv, TypeOK
  <2>2. CASE state[idle[i]] # "gone"
    BY <2>1, <2>2 DEF PoolInv, IdleIsFree
  <2>3. CASE state[idle[i]] = "gone"
    <3>1. Held = {}
      BY <2>1, <2>3 DEF PoolInv, QuietWhenClosed, TaskHeldOnce
    <3> QED BY <2>1, <3>1 DEF Held
  <2> QED BY <2>2, <2>3
<1> QED BY <1>1, <1>2 DEF Drainable, Distinct, PoolInv, TypeOK, TaskHeldOnce,
                          IdleIsFree, Ids

\* Between handlers, pending is what waits or is held.
LEMMA InvPending ==
  PoolInv => \A t \in Ids :
    t \in pending <=>
      (\E i \in 1 .. Len(queue) : queue[i] = t) \/ (\E w \in Workers : currentTask[w] = t)
<1> SUFFICES ASSUME PoolInv, NEW t \in Ids
             PROVE  t \in pending <=>
                      (\E i \in 1 .. Len(queue) : queue[i] = t)
                        \/ (\E w \in Workers : currentTask[w] = t)
  OBVIOUS
<1>1. t # NoTask
  BY DEF Ids, NoTask
<1> QED BY <1>1 DEF PoolInv, TaskHeldOnce, Waiting, Held

\* Filtering a worker out of the idle stack removes it and nobody else.
LEMMA WithoutLemma ==
  ASSUME NEW s \in Seq(Workers), Distinct(s), NEW w \in Workers
  PROVE  /\ Without(s, w) \in Seq(Workers)
         /\ Distinct(Without(s, w))
         /\ \A v \in Workers : (\E i \in 1 .. Len(Without(s, w)) : Without(s, w)[i] = v)
                                 <=> v # w /\ \E i \in 1 .. Len(s) : s[i] = v
<1>1. CASE ~ \E i \in 1 .. Len(s) : s[i] = w
  BY <1>1 DEF Without
<1>2. CASE \E i \in 1 .. Len(s) : s[i] = w
  <2> DEFINE i == CHOOSE j \in 1 .. Len(s) : s[j] = w
             a == SubSeq(s, 1, i - 1)
             b == SubSeq(s, i + 1, Len(s))
  <2>1. i \in 1 .. Len(s) /\ s[i] = w /\ Len(s) \in Nat
    BY <1>2
  <2>2. Without(s, w) = a \o b
    BY <1>2 DEF Without
  <2> HIDE DEF i
  <2>3. /\ a \in Seq(Workers) /\ Len(a) = i - 1
        /\ \A j \in 1 .. i - 1 : a[j] = s[j]
    <3>1. i - 1 \in 0 .. Len(s)
      BY <2>1
    <3> QED BY <3>1, Prefix
  <2>4. /\ b \in Seq(Workers) /\ Len(b) = Len(s) - i
        /\ \A j \in 1 .. Len(s) - i : b[j] = s[j + i]
    <3>1. i \in 0 .. Len(s)
      BY <2>1
    <3> QED BY <3>1, Suffix
  <2> HIDE DEF a, b
  <2>5. /\ a \o b \in Seq(Workers) /\ Len(a \o b) = Len(s) - 1
        /\ \A j \in 1 .. Len(s) - 1 : (a \o b)[j] = IF j <= i - 1 THEN s[j] ELSE s[j + 1]
    <3>1. /\ a \o b \in Seq(Workers)
          /\ Len(a \o b) = Len(a) + Len(b)
          /\ \A j \in 1 .. Len(a) + Len(b) :
               (a \o b)[j] = IF j <= Len(a) THEN a[j] ELSE b[j - Len(a)]
      BY <2>3, <2>4, ConcatProperties
    <3>2. i \in Int /\ i >= 1 /\ i <= Len(s) /\ Len(s) \in Nat
      BY <2>1
    <3>3. Len(a) = i - 1 /\ Len(b) = Len(s) - i /\ Len(a) + Len(b) = Len(s) - 1
      BY <2>3, <2>4, <3>2
    <3>4. ASSUME NEW j \in 1 .. Len(s) - 1
          PROVE  (a \o b)[j] = IF j <= i - 1 THEN s[j] ELSE s[j + 1]
      <4>1. CASE j <= i - 1
        BY <4>1, <3>1, <3>2, <3>3, <2>3
      <4>2. CASE ~(j <= i - 1)
        <5>1. (a \o b)[j] = b[j - (i - 1)]
          BY <4>2, <3>1, <3>2, <3>3
        <5>2. j - (i - 1) \in 1 .. Len(s) - i /\ (j - (i - 1)) + i = j + 1
          BY <4>2, <3>2
        <5> QED BY <4>2, <5>1, <5>2, <2>4
      <4> QED BY <4>1, <4>2
    <3> QED BY <3>1, <3>3, <3>4
  <2>6. \A j, k \in 1 .. Len(s) - 1 : j # k => (a \o b)[j] # (a \o b)[k]
    BY <2>1, <2>5 DEF Distinct
  <2>7. \A j \in 1 .. Len(s) - 1 :
          (a \o b)[j] # w /\ \E k \in 1 .. Len(s) : s[k] = (a \o b)[j]
    BY <2>1, <2>5 DEF Distinct
  <2>8. ASSUME NEW k \in 1 .. Len(s), s[k] # w
        PROVE  \E j \in 1 .. Len(s) - 1 : (a \o b)[j] = s[k]
    <3>1. i \in Int /\ i >= 1 /\ i <= Len(s) /\ Len(s) \in Nat /\ (k < i \/ k > i)
      BY <2>1, <2>8
    <3>2. CASE k < i
      <4>1. k \in 1 .. Len(s) - 1 /\ k <= i - 1
        BY <3>1, <3>2
      <4> QED BY <4>1, <2>5
    <3>3. CASE k > i
      <4>1. k - 1 \in 1 .. Len(s) - 1 /\ ~(k - 1 <= i - 1) /\ (k - 1) + 1 = k
        BY <3>1, <3>3
      <4> QED BY <4>1, <2>5
    <3> QED BY <3>1, <3>2, <3>3
  <2>9. \A v \in Workers : (\E j \in 1 .. Len(a \o b) : (a \o b)[j] = v)
                             <=> v # w /\ \E k \in 1 .. Len(s) : s[k] = v
    BY <2>5, <2>7, <2>8
  <2>10. Distinct(a \o b)
    BY <2>5, <2>6 DEF Distinct
  <2> QED BY <2>2, <2>5, <2>9, <2>10
<1> QED BY <1>1, <1>2

-----------------------------------------------------------------------------
\* A pool just constructed satisfies the invariant.
LEMMA InitInv == Init => PoolInv
<1> SUFFICES ASSUME Init PROVE PoolInv
  OBVIOUS
<1> USE DEF Init, NoTask
<1>1. /\ idle \in Seq(Workers) /\ Len(idle) = Cardinality(Workers)
      /\ DOMAIN idle = 1 .. Len(idle)
  BY WorkersAssumption
<1>2. TypeOK
  <2>1. Len(tasks) = 0 /\ Ids = {}
    BY DEF Ids
  <2>2. DOMAIN resolved = {}
    OBVIOUS
  <2>3. /\ tasks \in Seq([req : Requests, lo : Nat, hi : Nat])
        /\ queue \in Seq(Ids) /\ pending \subseteq Ids
        /\ DOMAIN resolved = Ids \ pending
    BY <2>1, <2>2
  <2>4. \A id \in DOMAIN resolved :
          resolved[id] \in [JobsIn(id) -> {"played", "threw", "crashed"}]
    BY <2>2
  <2>5. /\ currentTask \in [Workers -> Ids \cup {NoTask}]
        /\ running \in [Workers -> Ids \cup {NoTask}]
        /\ inbox \in [Workers -> SUBSET Ids]
        /\ outbox \in [Workers -> SUBSET Ids]
    OBVIOUS
  <2>6. state \in [Workers -> {"up", "down", "gone"}] /\ closed \in BOOLEAN
    OBVIOUS
  <2> QED BY <1>1, <2>3, <2>4, <2>5, <2>6 DEF TypeOK
<1>3. TaskHeldOnce
  BY DEF TaskHeldOnce, Waiting, Held
<1>4. IdleIsFree
  BY <1>1 DEF IdleIsFree
<1>5. WorkConserving /\ OneTaskInFlight /\ QuietWhenClosed /\ DeadPlaysNothing
  BY DEF WorkConserving, OneTaskInFlight, QuietWhenClosed, DeadPlaysNothing
<1> QED BY <1>2, <1>3, <1>4, <1>5 DEF PoolInv

\* The chunk arithmetic of runJobs yields at least one well-typed task.
LEMMA PartsType ==
  ASSUME NEW r \in Requests
  PROVE  /\ Parts(r) \in Seq([req : Requests, lo : Nat, hi : Nat])
         /\ Len(Parts(r)) \in Nat \ {0}
         /\ \A i \in 1 .. Len(Parts(r)) : Parts(r)[i].req = r
<1> DEFINE n == JobCount[r]
           c == Chunk(n)
<1>1. n \in Nat \ {0}
  BY JobsAssumption
<1>2. c \in Nat /\ c >= 2
  <2>1. CeilDiv(n, 4 * Cardinality(Workers)) \in Int
    BY <1>1, WorkersAssumption DEF CeilDiv
  <2> HIDE DEF n
  <2> QED BY <2>1 DEF Chunk, Larger
<1> HIDE DEF n, c
<1>3. CeilDiv(n, c) \in Nat \ {0}
  BY <1>1, <1>2 DEF CeilDiv
<1>4. \A i \in 1 .. CeilDiv(n, c) :
        [req |-> r, lo |-> (i - 1) * c, hi |-> Smaller(i * c, n) - 1]
          \in [req : Requests, lo : Nat, hi : Nat]
  <2> SUFFICES ASSUME NEW i \in 1 .. CeilDiv(n, c)
               PROVE  (i - 1) * c \in Nat /\ Smaller(i * c, n) - 1 \in Nat
    OBVIOUS
  <2>1. i - 1 \in Nat /\ i \in Nat \ {0}
    BY <1>3
  <2>2. (i - 1) * c \in Nat
    BY <2>1, <1>2
  <2>3. i * c \in Nat /\ i * c >= 1
    BY <2>1, <1>2
  <2> QED BY <2>2, <2>3, <1>1 DEF Smaller
<1>5. Parts(r) = [i \in 1 .. CeilDiv(n, c) |->
                    [req |-> r, lo |-> (i - 1) * c, hi |-> Smaller(i * c, n) - 1]]
  BY DEF Parts, n, c
<1> DEFINE p(i) == [req |-> r, lo |-> (i - 1) * c, hi |-> Smaller(i * c, n) - 1]
           k == CeilDiv(n, c)
<1>6. \A i \in 1 .. k : p(i) \in [req : Requests, lo : Nat, hi : Nat] /\ p(i).req = r
  BY <1>4
<1>7. k \in Nat \ {0} /\ Parts(r) = [i \in 1 .. k |-> p(i)]
  BY <1>3, <1>5
<1> HIDE DEF p, k
<1> QED BY <1>6, <1>7

\* runJobs keeps the invariant: its tasks are new, and drained at once.
LEMMA RunJobsInv ==
  ASSUME PoolInv, NEW r \in Requests, RunJobs(r)
  PROVE  PoolInv'
<1> DEFINE parts == Parts(r)
           ids == [i \in 1 .. Len(parts) |-> Len(tasks) + i]
           q == queue \o ids
           N == Len(tasks) + Len(parts)
<1>1. /\ ~closed /\ ~Called(r)
      /\ tasks' = tasks \o parts
      /\ pending' = pending \cup {Len(tasks) + i : i \in 1 .. Len(parts)}
      /\ Drain(idle, q, currentTask, inbox)
      /\ UNCHANGED <<resolved, closed, state, running, outbox>>
  BY DEF RunJobs
<1>2. /\ parts \in Seq([req : Requests, lo : Nat, hi : Nat])
      /\ Len(parts) \in Nat \ {0}
  BY PartsType
<1> HIDE DEF parts
<1>3. Len(tasks) \in Nat /\ N \in Nat /\ tasks \in Seq([req : Requests, lo : Nat, hi : Nat])
  BY <1>2 DEF PoolInv, TypeOK
<1>4. /\ tasks' \in Seq([req : Requests, lo : Nat, hi : Nat])
      /\ Len(tasks') = N
      /\ \A t \in 1 .. Len(tasks) : tasks'[t] = tasks[t]
  BY <1>1, <1>2, <1>3, ConcatProperties
<1>5. /\ ids \in Seq(1 .. N) /\ Len(ids) = Len(parts)
      /\ \A i \in 1 .. Len(parts) : ids[i] = Len(tasks) + i
  BY <1>2, <1>3
<1>6. queue \in Seq(1 .. N) /\ \A i \in 1 .. Len(queue) : queue[i] \in 1 .. Len(tasks)
  <2>1. queue \in Seq(1 .. Len(tasks))
    BY DEF PoolInv, TypeOK, Ids
  <2>2. \A i \in 1 .. Len(queue) : queue[i] \in 1 .. Len(tasks)
    BY <2>1
  <2>3. 1 .. Len(tasks) \subseteq 1 .. N
    BY <1>2, <1>3
  <2> HIDE DEF N
  <2>4. queue \in Seq(1 .. N)
    BY <2>1, <2>3, SeqWiden
  <2> QED BY <2>2, <2>4
<1> HIDE DEF ids
<1>7. /\ q \in Seq(1 .. N) /\ Len(q) = Len(queue) + Len(parts)
      /\ \A i \in 1 .. Len(queue) : q[i] = queue[i]
      /\ \A i \in 1 .. Len(parts) : q[Len(queue) + i] = Len(tasks) + i
  <2>1. /\ q \in Seq(1 .. N) /\ Len(q) = Len(queue) + Len(ids)
        /\ \A i \in 1 .. Len(queue) + Len(ids) :
             q[i] = IF i <= Len(queue) THEN queue[i] ELSE ids[i - Len(queue)]
    BY <1>5, <1>6, ConcatProperties
  <2>2. Len(queue) \in Nat
    BY <1>6
  <2> HIDE DEF q
  <2>3. ASSUME NEW i \in 1 .. Len(parts) PROVE q[Len(queue) + i] = Len(tasks) + i
    <3>1. /\ Len(queue) + i \in 1 .. Len(queue) + Len(ids)
          /\ ~(Len(queue) + i <= Len(queue)) /\ (Len(queue) + i) - Len(queue) = i
      BY <2>2, <1>2, <1>5
    <3> QED BY <3>1, <2>1, <1>5
  <2> QED BY <2>1, <2>2, <2>3, <1>2, <1>5
<1>n. /\ Len(queue) \in Nat /\ Len(tasks) \in Nat /\ Len(parts) \in Nat \ {0}
      /\ Len(q) \in Nat /\ N \in Nat
  BY <1>2, <1>3, <1>6, <1>7
<1> HIDE DEF q
<1>8. Drainable(Len(tasks), idle, queue, currentTask, inbox)
  BY InvDrainable
<1>9. \A i \in 1 .. Len(q) :
        \/ i \in 1 .. Len(queue) /\ q[i] = queue[i]
        \/ /\ q[i] > Len(tasks) /\ i > Len(queue)
           /\ q[i] = Len(tasks) + (i - Len(queue))
  <2> SUFFICES ASSUME NEW i \in 1 .. Len(q)
               PROVE  \/ i \in 1 .. Len(queue) /\ q[i] = queue[i]
                      \/ /\ q[i] > Len(tasks) /\ i > Len(queue)
                         /\ q[i] = Len(tasks) + (i - Len(queue))
    OBVIOUS
  <2>1. Len(queue) \in Nat
    BY <1>6
  <2>2. CASE i <= Len(queue)
    BY <2>1, <2>2, <1>7
  <2>3. CASE i > Len(queue)
    <3>1. i - Len(queue) \in 1 .. Len(parts) /\ Len(queue) + (i - Len(queue)) = i
      BY <2>1, <2>3, <1>2, <1>7
    <3>2. q[i] = Len(tasks) + (i - Len(queue))
      BY <3>1, <1>7
    <3> QED BY <3>1, <3>2, <2>3, <1>n
  <2> QED BY <2>2, <2>3, <1>n
<1>10. Drainable(N, idle, q, currentTask, inbox)
  <2>1. Distinct(q)
    <3> SUFFICES ASSUME NEW i \in 1 .. Len(q), NEW j \in 1 .. Len(q), i # j
                 PROVE  q[i] # q[j]
      BY DEF Distinct
    <3>1. Distinct(queue)
      BY <1>8 DEF Drainable
    <3>2. CASE i \in 1 .. Len(queue) /\ j \in 1 .. Len(queue)
      <4>1. q[i] = queue[i] /\ q[j] = queue[j]
        BY <3>2, <1>7
      <4> QED BY <3>1, <3>2, <4>1 DEF Distinct
    <3>3. CASE i \in 1 .. Len(queue) /\ j \notin 1 .. Len(queue)
      <4>1. q[i] \in 1 .. Len(tasks)
        BY <3>3, <1>6, <1>7
      <4>2. q[j] > Len(tasks)
        BY <3>3, <1>9
      <4> QED BY <4>1, <4>2, <1>n
    <3>4. CASE i \notin 1 .. Len(queue) /\ j \in 1 .. Len(queue)
      <4>1. q[j] \in 1 .. Len(tasks)
        BY <3>4, <1>6, <1>7
      <4>2. q[i] > Len(tasks)
        BY <3>4, <1>9
      <4> QED BY <4>1, <4>2, <1>n
    <3>5. CASE i \notin 1 .. Len(queue) /\ j \notin 1 .. Len(queue)
      <4>1. /\ q[i] = Len(tasks) + (i - Len(queue))
            /\ q[j] = Len(tasks) + (j - Len(queue))
        BY <3>5, <1>9
      <4> QED BY <4>1, <1>n
    <3> QED BY <3>2, <3>3, <3>4, <3>5
  <2>2. \A w \in Workers : currentTask[w] \in (1 .. Len(tasks)) \cup {NoTask}
    BY <1>8 DEF Drainable
  <2>3. ASSUME NEW i \in 1 .. Len(q), NEW w \in Workers
        PROVE  q[i] # currentTask[w]
    <3>1. CASE i \in 1 .. Len(queue) /\ q[i] = queue[i]
      BY <3>1, <1>8 DEF Drainable
    <3>2. CASE q[i] > Len(tasks) /\ q[i] = Len(tasks) + (i - Len(queue))
      BY <3>2, <2>2, <1>n DEF NoTask
    <3> QED BY <3>1, <3>2, <1>9
  <2>4. /\ currentTask \in [Workers -> (1 .. N) \cup {NoTask}]
        /\ inbox \in [Workers -> SUBSET (1 .. N)]
    <3>1. 1 .. Len(tasks) \subseteq 1 .. N
      BY <1>2, <1>3
    <3> QED BY <3>1, <1>8 DEF Drainable
  <2> QED BY <2>1, <2>3, <2>4, <1>7, <1>8 DEF Drainable
<1>11. \A t \in 1 .. N :
         t \in pending' <=>
           (\E i \in 1 .. Len(q) : q[i] = t) \/ (\E w \in Workers : currentTask[w] = t)
  <2> SUFFICES ASSUME NEW t \in 1 .. N
               PROVE  t \in pending' <=>
                        (\E i \in 1 .. Len(q) : q[i] = t)
                          \/ (\E w \in Workers : currentTask[w] = t)
    OBVIOUS
  <2>1. Len(queue) \in Nat /\ pending \subseteq 1 .. Len(tasks)
    BY <1>6 DEF PoolInv, TypeOK, Ids
  <2>2. \A w \in Workers : currentTask[w] \in (1 .. Len(tasks)) \cup {NoTask}
    BY <1>8 DEF Drainable
  <2>3. CASE t \in 1 .. Len(tasks)
    <3>1. t \in pending' <=> t \in pending
      BY <2>3, <1>1, <1>2, <1>3
    <3>2. (\E i \in 1 .. Len(q) : q[i] = t) <=> (\E i \in 1 .. Len(queue) : queue[i] = t)
      <4>1. Len(q) = Len(queue) + Len(parts)
        BY <1>7
      <4>2. ASSUME NEW i \in 1 .. Len(q), q[i] = t
            PROVE  \E j \in 1 .. Len(queue) : queue[j] = t
        BY <4>2, <2>3, <1>9, <1>n
      <4>3. ASSUME NEW i \in 1 .. Len(queue), queue[i] = t
            PROVE  \E j \in 1 .. Len(q) : q[j] = t
        <5>1. i \in 1 .. Len(q) /\ q[i] = t
          BY <4>1, <4>3, <1>7, <1>n
        <5> QED BY <5>1
      <4> QED BY <4>2, <4>3
    <3>3. t \in Ids
      BY <2>3 DEF Ids
    <3> QED BY <3>1, <3>2, <3>3, InvPending
  <2>4. CASE t > Len(tasks)
    <3>1. /\ t - Len(tasks) \in 1 .. Len(parts)
          /\ Len(tasks) + (t - Len(tasks)) = t
      BY <2>4, <1>2, <1>3
    <3>2. t \in pending'
      BY <3>1, <1>1
    <3>3. /\ Len(queue) + (t - Len(tasks)) \in 1 .. Len(q)
          /\ q[Len(queue) + (t - Len(tasks))] = t
      <4> DEFINE d == t - Len(tasks)
      <4>1. d \in 1 .. Len(parts) /\ Len(tasks) + d = t
        BY <3>1
      <4> HIDE DEF d
      <4>2. q[Len(queue) + d] = t
        BY <4>1, <1>7
      <4>3. Len(queue) + d \in 1 .. Len(q)
        BY <4>1, <1>n, <1>7
      <4> QED BY <4>2, <4>3 DEF d
    <3> QED BY <3>2, <3>3
  <2> QED BY <2>3, <2>4, <1>3
<1>12. pending' \subseteq 1 .. N
  <2>1. pending \subseteq 1 .. Len(tasks)
    BY DEF PoolInv, TypeOK, Ids
  <2>2. \A i \in 1 .. Len(parts) : Len(tasks) + i \in 1 .. N
    BY <1>n
  <2>3. 1 .. Len(tasks) \subseteq 1 .. N
    BY <1>n
  <2> HIDE DEF N
  <2> QED BY <2>1, <2>2, <2>3, <1>1
<1>13. /\ TaskHeldOnce' /\ WorkConserving' /\ IdleIsFree' /\ OneTaskInFlight'
       /\ queue' \in Seq(1 .. N) /\ idle' \in Seq(Workers)
       /\ currentTask' \in [Workers -> (1 .. N) \cup {NoTask}]
       /\ inbox' \in [Workers -> SUBSET (1 .. N)]
  <2>1. \A w \in Workers : state'[w] # "gone" =>
          ((\E i \in 1 .. Len(idle) : idle[i] = w) <=> currentTask[w] = NoTask)
    BY <1>1 DEF PoolInv, IdleIsFree
  <2>2. \A w \in Workers :
          InFlight(w, currentTask[w], inbox[w], running'[w], outbox'[w], state'[w])
    BY <1>1 DEF PoolInv, OneTaskInFlight, InFlight
  <2>3. Drain(idle, q, currentTask, inbox) /\ N \in Nat
    BY <1>1, <1>n
  <2> HIDE DEF N
  <2> QED BY <2>1, <2>2, <2>3, <1>10, <1>11, <1>12, DrainStep
<1>14. TypeOK'
  <2>1. DOMAIN resolved' = Ids' \ pending'
    <3>1. DOMAIN resolved = (1 .. Len(tasks)) \ pending /\ pending \subseteq 1 .. Len(tasks)
      BY DEF PoolInv, TypeOK, Ids
    <3>2. resolved' = resolved /\ Ids' = 1 .. N
      BY <1>1, <1>4 DEF Ids
    <3>3. \A t \in 1 .. N :
            t \in pending' <=> t \in pending \/ ~(t \in 1 .. Len(tasks))
      <4> SUFFICES ASSUME NEW t \in 1 .. N
                   PROVE t \in pending' <=> t \in pending \/ ~(t \in 1 .. Len(tasks))
        OBVIOUS
      <4>1. CASE t \in 1 .. Len(tasks)
        BY <4>1, <1>1, <1>n
      <4>2. CASE ~(t \in 1 .. Len(tasks))
        <5>1. t - Len(tasks) \in 1 .. Len(parts) /\ Len(tasks) + (t - Len(tasks)) = t
          BY <4>2, <1>n
        <5> QED BY <4>2, <5>1, <1>1
      <4> QED BY <4>1, <4>2
    <3>4. 1 .. Len(tasks) \subseteq 1 .. N
      BY <1>n
    <3> HIDE DEF N
    <3> QED BY <3>1, <3>2, <3>3, <3>4
  <2>2. \A t \in DOMAIN resolved' : JobsIn(t)' = JobsIn(t) /\ resolved'[t] = resolved[t]
    <3>1. DOMAIN resolved \subseteq 1 .. Len(tasks)
      BY DEF PoolInv, TypeOK, Ids
    <3> QED BY <3>1, <1>1, <1>4 DEF JobsIn
  <2>3. 1 .. Len(tasks) \subseteq 1 .. N
    BY <1>2, <1>3
  <2>4. /\ running' \in [Workers -> (1 .. N) \cup {NoTask}]
        /\ outbox' \in [Workers -> SUBSET (1 .. N)]
    BY <2>3, <1>1 DEF PoolInv, TypeOK, Ids
  <2>5. \A t \in DOMAIN resolved' :
          resolved'[t] \in [JobsIn(t)' -> {"played", "threw", "crashed"}]
    BY <2>2, <1>1 DEF PoolInv, TypeOK
  <2>6. state' \in [Workers -> {"up", "down", "gone"}] /\ closed' \in BOOLEAN
    BY <1>1 DEF PoolInv, TypeOK
  <2> HIDE DEF N
  <2> QED BY <2>1, <2>4, <2>5, <2>6, <1>4, <1>12, <1>13 DEF TypeOK, Ids
<1>15. QuietWhenClosed' /\ DeadPlaysNothing'
  BY <1>1 DEF PoolInv, QuietWhenClosed, DeadPlaysNothing
<1> QED BY <1>13, <1>14, <1>15 DEF PoolInv

\* Resolving a task that was pending keeps the types of the two maps.
LEMMA SettleType ==
  ASSUME TypeOK, NEW id \in pending,
         NEW out \in [JobsIn(id) -> {"played", "threw", "crashed"}],
         Settle(id, out), tasks' = tasks
  PROVE  /\ pending' = pending \ {id}
         /\ DOMAIN resolved' = Ids' \ pending'
         /\ \A t \in DOMAIN resolved' :
              resolved'[t] \in [JobsIn(t)' -> {"played", "threw", "crashed"}]
<1>1. /\ pending' = pending \ {id}
      /\ resolved' = [t \in DOMAIN resolved \cup {id} |->
                        IF t = id THEN out ELSE resolved[t]]
  BY DEF Settle
<1>2. Ids' = Ids /\ \A t : JobsIn(t)' = JobsIn(t)
  BY DEF Ids, JobsIn
<1>3. DOMAIN resolved = Ids \ pending /\ id \in Ids
  BY DEF TypeOK
<1>4. DOMAIN resolved' = Ids' \ pending'
  BY <1>1, <1>2, <1>3
<1>5. ASSUME NEW t \in DOMAIN resolved'
      PROVE  resolved'[t] \in [JobsIn(t)' -> {"played", "threw", "crashed"}]
  <2>1. resolved'[t] = IF t = id THEN out ELSE resolved[t]
    BY <1>1
  <2>2. JobsIn(t)' = JobsIn(t)
    BY <1>2
  <2>3. t # id => t \in DOMAIN resolved
    BY <1>1
  <2> QED BY <2>1, <2>2, <2>3 DEF TypeOK
<1> QED BY <1>1, <1>4, <1>5

\* Both a worker's answer and a made-up one have a record per job.
LEMMA OutcomeType ==
  ASSUME NEW id
  PROVE  /\ Played(id) \in [JobsIn(id) -> {"played", "threw", "crashed"}]
         /\ Crashed(id) \in [JobsIn(id) -> {"played", "threw", "crashed"}]
  BY DEF Played, Crashed, Battle

\* The 'message' handler keeps the invariant: the id it is handed is the
\* worker's own currentTask, so clearing that field forgets no other task.
LEMMA OnMessageInv ==
  ASSUME PoolInv, NEW w \in Workers, NEW id \in outbox[w], OnMessage(w, id)
  PROVE  PoolInv'
<1> DEFINE stack == Append(idle, w)
           cur == [currentTask EXCEPT ![w] = NoTask]
           N == Len(tasks)
<1>1. /\ outbox' = [outbox EXCEPT ![w] = @ \ {id}]
      /\ Drain(stack, queue, cur, inbox)
      /\ Settle(id, Played(id))
      /\ UNCHANGED <<tasks, closed, state, running>>
  BY DEF OnMessage
<1>2. Drainable(N, idle, queue, currentTask, inbox)
  BY InvDrainable
<1>3. N \in Nat /\ Ids = 1 .. N
  BY DEF PoolInv, TypeOK, Ids
<1> HIDE DEF N
\* The message answers the worker's current task, and is all it has to say.
<1>4. /\ id = currentTask[w] /\ id # NoTask
      /\ inbox[w] = {} /\ outbox[w] = {id} /\ running[w] = NoTask
  <2>1. InFlight(w, currentTask[w], inbox[w], running[w], outbox[w], state[w])
    BY DEF PoolInv, OneTaskInFlight, InFlight
  <2>2. id = currentTask[w] /\ id # NoTask
    BY <2>1 DEF InFlight
  <2> QED BY <2>1, <2>2 DEF InFlight
<1>5. id \in pending /\ id \in 1 .. N
  <2>1. id \in Held
    BY <1>4 DEF Held
  <2>2. id \in pending
    BY <2>1 DEF PoolInv, TaskHeldOnce
  <2> QED BY <2>2, <1>3 DEF PoolInv, TypeOK
<1>6. ~closed /\ state[w] # "gone"
  BY <1>5 DEF PoolInv, QuietWhenClosed
<1>7. ~ \E i \in 1 .. Len(idle) : idle[i] = w
  BY <1>4, <1>6 DEF PoolInv, IdleIsFree
<1>8. /\ stack \in Seq(Workers) /\ Len(stack) = Len(idle) + 1 /\ Len(idle) \in Nat
      /\ \A i \in 1 .. Len(idle) : stack[i] = idle[i]
      /\ stack[Len(idle) + 1] = w
  BY <1>2, AppendProperties DEF Drainable
<1> HIDE DEF stack
<1>9. \A v \in Workers : (\E i \in 1 .. Len(stack) : stack[i] = v)
                           <=> v = w \/ \E i \in 1 .. Len(idle) : idle[i] = v
  BY <1>8
<1>10. /\ cur \in [Workers -> (1 .. N) \cup {NoTask}]
       /\ \A v \in Workers : cur[v] = IF v = w THEN NoTask ELSE currentTask[v]
  BY <1>2 DEF Drainable
<1> HIDE DEF cur
<1>11. Drainable(N, stack, queue, cur, inbox)
  <2>1. Distinct(stack)
    BY <1>2, <1>7, <1>8 DEF Drainable, Distinct
  <2>2. \A i \in 1 .. Len(stack) : cur[stack[i]] = NoTask
    <3> SUFFICES ASSUME NEW i \in 1 .. Len(stack) PROVE cur[stack[i]] = NoTask
      OBVIOUS
    <3>1. CASE i \in 1 .. Len(idle)
      BY <3>1, <1>2, <1>8, <1>10 DEF Drainable
    <3>2. CASE i = Len(idle) + 1
      BY <3>2, <1>8, <1>10
    <3> QED BY <3>1, <3>2, <1>8
  <2>3. \A i \in 1 .. Len(queue), v \in Workers : queue[i] # cur[v]
    <3>1. \A i \in 1 .. Len(queue) : queue[i] # NoTask
      BY <1>2, <1>3 DEF Drainable, NoTask
    <3> QED BY <3>1, <1>2, <1>10 DEF Drainable
  <2>4. \A u, v \in Workers : u # v /\ cur[u] # NoTask => cur[u] # cur[v]
    BY <1>2, <1>10 DEF Drainable
  <2> QED BY <2>1, <2>2, <2>3, <2>4, <1>2, <1>8, <1>10 DEF Drainable
<1>12. /\ pending' = pending \ {id}
       /\ DOMAIN resolved' = Ids' \ pending'
       /\ \A t \in DOMAIN resolved' :
            resolved'[t] \in [JobsIn(t)' -> {"played", "threw", "crashed"}]
  BY <1>1, <1>5, SettleType, OutcomeType DEF PoolInv
<1>13. \A t \in 1 .. N :
         t \in pending' <=>
           (\E i \in 1 .. Len(queue) : queue[i] = t) \/ (\E v \in Workers : cur[v] = t)
  <2> SUFFICES ASSUME NEW t \in 1 .. N
               PROVE  t \in pending' <=>
                        (\E i \in 1 .. Len(queue) : queue[i] = t)
                          \/ (\E v \in Workers : cur[v] = t)
    OBVIOUS
  <2>1. t \in pending <=>
          (\E i \in 1 .. Len(queue) : queue[i] = t) \/ (\E v \in Workers : currentTask[v] = t)
    BY <1>3, InvPending
  <2>2. CASE t = id
    <3>1. ~ \E i \in 1 .. Len(queue) : queue[i] = t
      BY <2>2, <1>2, <1>4 DEF Drainable
    <3>2. ~ \E v \in Workers : cur[v] = t
      BY <2>2, <1>2, <1>4, <1>10 DEF Drainable
    <3> QED BY <2>2, <3>1, <3>2, <1>12
  <2>3. CASE t # id
    <3>1. t # NoTask
      BY <1>3 DEF NoTask
    <3>2. (\E v \in Workers : cur[v] = t) <=> (\E v \in Workers : currentTask[v] = t)
      BY <2>3, <3>1, <1>4, <1>10
    <3> QED BY <2>1, <2>3, <3>2, <1>12
  <2> QED BY <2>2, <2>3
<1>14. pending' \subseteq 1 .. N
  BY <1>3, <1>12 DEF PoolInv, TypeOK
<1>15. \A v \in Workers : state'[v] # "gone" =>
         ((\E i \in 1 .. Len(stack) : stack[i] = v) <=> cur[v] = NoTask)
  BY <1>1, <1>9, <1>10 DEF PoolInv, IdleIsFree
<1>16. \A v \in Workers :
         InFlight(v, cur[v], inbox[v], running'[v], outbox'[v], state'[v])
  <2> SUFFICES ASSUME NEW v \in Workers
               PROVE  InFlight(v, cur[v], inbox[v], running'[v], outbox'[v], state'[v])
    OBVIOUS
  <2>1. /\ running'[v] = running[v] /\ state'[v] = state[v]
        /\ outbox'[v] = IF v = w THEN outbox[v] \ {id} ELSE outbox[v]
    BY <1>1 DEF PoolInv, TypeOK
  <2>2. CASE v = w
    BY <2>1, <2>2, <1>4, <1>10 DEF InFlight
  <2>3. CASE v # w
    BY <2>1, <2>3, <1>10 DEF InFlight, PoolInv, OneTaskInFlight
  <2> QED BY <2>2, <2>3
<1>17. /\ TaskHeldOnce' /\ WorkConserving' /\ IdleIsFree' /\ OneTaskInFlight'
       /\ queue' \in Seq(1 .. N) /\ idle' \in Seq(Workers)
       /\ currentTask' \in [Workers -> (1 .. N) \cup {NoTask}]
       /\ inbox' \in [Workers -> SUBSET (1 .. N)]
  <2>1. Drain(stack, queue, cur, inbox) /\ N \in Nat
    BY <1>1, <1>3
  <2> QED BY <2>1, <1>11, <1>13, <1>14, <1>15, <1>16, DrainStep
<1>18. TypeOK'
  <2>1. Ids' = 1 .. N /\ tasks' = tasks /\ closed' = closed /\ state' = state
        /\ running' = running
    BY <1>1, <1>3 DEF Ids
  <2>2. outbox' \in [Workers -> SUBSET (1 .. N)]
    BY <1>1, <1>3 DEF PoolInv, TypeOK
  <2>3. /\ tasks' \in Seq([req : Requests, lo : Nat, hi : Nat])
        /\ closed' \in BOOLEAN
        /\ state' \in [Workers -> {"up", "down", "gone"}]
        /\ running' \in [Workers -> (1 .. N) \cup {NoTask}]
    BY <2>1, <1>3 DEF PoolInv, TypeOK
  <2> QED BY <2>1, <2>2, <2>3, <1>12, <1>14, <1>17 DEF TypeOK
<1>19. QuietWhenClosed' /\ DeadPlaysNothing'
  BY <1>1, <1>6 DEF PoolInv, QuietWhenClosed, DeadPlaysNothing
<1> QED BY <1>17, <1>18, <1>19 DEF PoolInv

\* The 'error' handler keeps the invariant: the task of the dead worker is
\* settled, and its replacement starts free with nothing posted to it.
LEMMA OnErrorInv ==
  ASSUME PoolInv, NEW w \in Workers, OnError(w)
  PROVE  PoolInv'
<1> DEFINE rest == Without(idle, w)
           cur  == [currentTask EXCEPT ![w] = NoTask]
           box  == [inbox EXCEPT ![w] = {}]
           N    == Len(tasks)
<1>1. /\ state[w] = "down" /\ outbox[w] = {} /\ running[w] = NoTask
      /\ Fail(w)
      /\ UNCHANGED <<tasks, closed, running, outbox>>
  BY DEF OnError, PoolInv, DeadPlaysNothing
<1>2. \/ ~closed /\ Replace(w, rest, cur, box)
      \/ /\ closed
         /\ state' = [state EXCEPT ![w] = "gone"]
         /\ idle' = rest /\ currentTask' = cur /\ inbox' = box
         /\ UNCHANGED queue
  BY DEF OnError
<1>3. Drainable(N, idle, queue, currentTask, inbox)
  BY InvDrainable
<1>4. N \in Nat /\ Ids = 1 .. N
  BY DEF PoolInv, TypeOK, Ids
<1> HIDE DEF N
<1>5. /\ rest \in Seq(Workers) /\ Distinct(rest)
      /\ \A v \in Workers : (\E i \in 1 .. Len(rest) : rest[i] = v)
                              <=> v # w /\ \E i \in 1 .. Len(idle) : idle[i] = v
  BY <1>3, WithoutLemma DEF Drainable
<1> HIDE DEF rest
<1>6. /\ cur \in [Workers -> (1 .. N) \cup {NoTask}]
      /\ \A v \in Workers : cur[v] = IF v = w THEN NoTask ELSE currentTask[v]
      /\ box \in [Workers -> SUBSET (1 .. N)]
      /\ \A v \in Workers : box[v] = IF v = w THEN {} ELSE inbox[v]
  BY <1>3 DEF Drainable
<1> HIDE DEF cur, box
<1>7. /\ pending' = pending \ {currentTask[w]}
      /\ DOMAIN resolved' = Ids' \ pending'
      /\ \A t \in DOMAIN resolved' :
           resolved'[t] \in [JobsIn(t)' -> {"played", "threw", "crashed"}]
  <2>1. CASE currentTask[w] # NoTask
    <3>1. currentTask[w] \in pending
      BY <2>1 DEF PoolInv, TaskHeldOnce, Held
    <3>2. Settle(currentTask[w], Crashed(currentTask[w])) /\ tasks' = tasks
      BY <2>1, <1>1 DEF Fail
    <3> QED BY <3>1, <3>2, SettleType, OutcomeType DEF PoolInv
  <2>2. CASE currentTask[w] = NoTask
    <3>1. pending' = pending /\ resolved' = resolved /\ tasks' = tasks
      BY <2>2, <1>1 DEF Fail
    <3>2. NoTask \notin pending
      BY <1>4 DEF PoolInv, TypeOK, NoTask
    <3>3. Ids' = Ids /\ \A t : JobsIn(t)' = JobsIn(t)
      BY <3>1 DEF Ids, JobsIn
    <3> QED BY <2>2, <3>1, <3>2, <3>3 DEF PoolInv, TypeOK
  <2> QED BY <2>1, <2>2
<1>8. pending' \subseteq 1 .. N
  BY <1>4, <1>7 DEF PoolInv, TypeOK
<1>9. \A v \in Workers, s \in {"up", "gone"} :
        /\ InFlight(w, NoTask, {}, running[w], outbox[w], s)
        /\ InFlight(v, currentTask[v], inbox[v], running[v], outbox[v], state[v])
  BY <1>1 DEF InFlight, PoolInv, OneTaskInFlight
<1>10. ASSUME ~closed, Replace(w, rest, cur, box)
       PROVE  /\ TaskHeldOnce' /\ WorkConserving' /\ IdleIsFree' /\ OneTaskInFlight'
              /\ queue' \in Seq(1 .. N) /\ idle' \in Seq(Workers)
              /\ currentTask' \in [Workers -> (1 .. N) \cup {NoTask}]
              /\ inbox' \in [Workers -> SUBSET (1 .. N)]
              /\ state' = [state EXCEPT ![w] = "up"]
  <2> DEFINE stack == Append(rest, w)
  <2>1. state' = [state EXCEPT ![w] = "up"] /\ Drain(stack, queue, cur, box)
    BY <1>10 DEF Replace
  <2>2. /\ stack \in Seq(Workers) /\ Len(stack) = Len(rest) + 1 /\ Len(rest) \in Nat
        /\ \A i \in 1 .. Len(rest) : stack[i] = rest[i]
        /\ stack[Len(rest) + 1] = w
    BY <1>5, AppendProperties
  <2> HIDE DEF stack
  <2>3. \A v \in Workers : (\E i \in 1 .. Len(stack) : stack[i] = v)
                              <=> v = w \/ \E i \in 1 .. Len(rest) : rest[i] = v
    BY <2>2
  <2>4. Drainable(N, stack, queue, cur, box)
    <3>1. Distinct(stack)
      BY <1>5, <2>2 DEF Distinct
    <3>2. ASSUME NEW i \in 1 .. Len(stack) PROVE cur[stack[i]] = NoTask
      <4>1. stack[i] \in Workers
        BY <2>2
      <4>2. stack[i] = w \/ \E j \in 1 .. Len(idle) : idle[j] = stack[i]
        BY <4>1, <2>3, <1>5
      <4> QED BY <4>1, <4>2, <1>3, <1>6 DEF Drainable
    <3>3. \A i \in 1 .. Len(queue), v \in Workers : queue[i] # cur[v]
      <4>1. \A i \in 1 .. Len(queue) : queue[i] # NoTask
        BY <1>3, <1>4 DEF Drainable, NoTask
      <4> QED BY <4>1, <1>3, <1>6 DEF Drainable
    <3>4. \A u, v \in Workers : u # v /\ cur[u] # NoTask => cur[u] # cur[v]
      BY <1>3, <1>6 DEF Drainable
    <3> QED BY <3>1, <3>2, <3>3, <3>4, <1>3, <1>6, <2>2 DEF Drainable
  <2>5. \A t \in 1 .. N :
          t \in pending' <=>
            (\E i \in 1 .. Len(queue) : queue[i] = t) \/ (\E v \in Workers : cur[v] = t)
    <3> SUFFICES ASSUME NEW t \in 1 .. N
                 PROVE  t \in pending' <=>
                          (\E i \in 1 .. Len(queue) : queue[i] = t)
                            \/ (\E v \in Workers : cur[v] = t)
      OBVIOUS
    <3>1. t # NoTask
      BY <1>4 DEF NoTask
    <3>2. t \in pending <=>
            (\E i \in 1 .. Len(queue) : queue[i] = t) \/ (\E v \in Workers : currentTask[v] = t)
      BY <1>4, InvPending
    <3>3. CASE t = currentTask[w]
      <4>1. ~ \E i \in 1 .. Len(queue) : queue[i] = t
        BY <3>3, <1>3 DEF Drainable
      <4>2. ~ \E v \in Workers : cur[v] = t
        BY <3>1, <3>3, <1>3, <1>6 DEF Drainable
      <4> QED BY <3>3, <4>1, <4>2, <1>7
    <3>4. CASE t # currentTask[w]
      <4>1. (\E v \in Workers : cur[v] = t) <=> (\E v \in Workers : currentTask[v] = t)
        BY <3>1, <3>4, <1>6
      <4> QED BY <3>2, <3>4, <4>1, <1>7
    <3> QED BY <3>3, <3>4
  <2>6. \A v \in Workers : state'[v] # "gone" =>
          ((\E i \in 1 .. Len(stack) : stack[i] = v) <=> cur[v] = NoTask)
    BY <2>1, <2>3, <1>5, <1>6 DEF PoolInv, IdleIsFree, TypeOK
  <2>7. \A v \in Workers :
          InFlight(v, cur[v], box[v], running'[v], outbox'[v], state'[v])
    <3> SUFFICES ASSUME NEW v \in Workers
                 PROVE  InFlight(v, cur[v], box[v], running'[v], outbox'[v], state'[v])
      OBVIOUS
    <3>1. running'[v] = running[v] /\ outbox'[v] = outbox[v]
          /\ state'[v] = IF v = w THEN "up" ELSE state[v]
      BY <1>1, <2>1 DEF PoolInv, TypeOK
    <3>2. CASE v = w
      BY <3>1, <3>2, <1>1, <1>6 DEF InFlight
    <3>3. CASE v # w
      BY <3>1, <3>3, <1>6, <1>9
    <3> QED BY <3>2, <3>3
  <2> QED BY <2>1, <2>4, <2>5, <2>6, <2>7, <1>4, <1>8, DrainStep
<1>11. ASSUME closed, state' = [state EXCEPT ![w] = "gone"],
              idle' = rest, currentTask' = cur, inbox' = box, queue' = queue
       PROVE  /\ TaskHeldOnce' /\ WorkConserving' /\ IdleIsFree' /\ OneTaskInFlight'
              /\ queue' \in Seq(1 .. N) /\ idle' \in Seq(Workers)
              /\ currentTask' \in [Workers -> (1 .. N) \cup {NoTask}]
              /\ inbox' \in [Workers -> SUBSET (1 .. N)]
  <2>1. pending = {} /\ Waiting = {} /\ Held = {}
    BY <1>11 DEF PoolInv, QuietWhenClosed, TaskHeldOnce
  <2>2. queue = <<>> /\ queue \in Seq(1 .. N)
    <3>1. queue \in Seq(1 .. N)
      BY <1>3 DEF Drainable
    <3> QED BY <2>1, <3>1 DEF Waiting
  <2>3. \A v \in Workers : currentTask[v] = NoTask
    BY <2>1 DEF Held
  <2>4. \A v \in Workers : currentTask'[v] = NoTask
    BY <2>3, <1>6, <1>11
  <2>5. TaskHeldOnce'
    BY <2>1, <2>2, <2>4, <1>7, <1>11 DEF TaskHeldOnce, Waiting, Held
  <2>6. WorkConserving'
    BY <2>2, <1>11 DEF WorkConserving
  <2>7. IdleIsFree'
    <3>1. \A v \in Workers : state'[v] # "gone" => v # w /\ state[v] # "gone"
      BY <1>11 DEF PoolInv, TypeOK
    <3> QED BY <3>1, <2>3, <2>4, <1>5, <1>11 DEF IdleIsFree, PoolInv, Distinct
  <2>8. OneTaskInFlight'
    <3> SUFFICES ASSUME NEW v \in Workers
                 PROVE  InFlight(v, currentTask'[v], inbox'[v], running'[v],
                                 outbox'[v], state'[v])
      BY DEF OneTaskInFlight, InFlight
    <3>1. running'[v] = running[v] /\ outbox'[v] = outbox[v]
          /\ state'[v] = IF v = w THEN "gone" ELSE state[v]
      BY <1>1, <1>11 DEF PoolInv, TypeOK
    <3>2. CASE v = w
      BY <3>1, <3>2, <1>1, <1>6, <1>11 DEF InFlight
    <3>3. CASE v # w
      BY <3>1, <3>3, <1>6, <1>9, <1>11
    <3> QED BY <3>2, <3>3
  <2> QED BY <2>2, <2>5, <2>6, <2>7, <2>8, <1>5, <1>6, <1>11
<1>12. /\ TaskHeldOnce' /\ WorkConserving' /\ IdleIsFree' /\ OneTaskInFlight'
       /\ queue' \in Seq(1 .. N) /\ idle' \in Seq(Workers)
       /\ currentTask' \in [Workers -> (1 .. N) \cup {NoTask}]
       /\ inbox' \in [Workers -> SUBSET (1 .. N)]
  BY <1>2, <1>10, <1>11
<1>13. \/ ~closed /\ state' = [state EXCEPT ![w] = "up"]
       \/ closed /\ state' = [state EXCEPT ![w] = "gone"]
  BY <1>2, <1>10
<1>14. TypeOK'
  <2>1. /\ Ids' = 1 .. N /\ tasks' = tasks /\ closed' = closed
        /\ running' = running /\ outbox' = outbox
    BY <1>1, <1>4 DEF Ids
  <2>2. state' \in [Workers -> {"up", "down", "gone"}]
    BY <1>13 DEF PoolInv, TypeOK
  <2>3. /\ tasks' \in Seq([req : Requests, lo : Nat, hi : Nat])
        /\ closed' \in BOOLEAN
        /\ running' \in [Workers -> (1 .. N) \cup {NoTask}]
        /\ outbox' \in [Workers -> SUBSET (1 .. N)]
    BY <2>1, <1>4 DEF PoolInv, TypeOK
  <2> QED BY <2>1, <2>2, <2>3, <1>7, <1>8, <1>12 DEF TypeOK
<1>15. QuietWhenClosed' /\ DeadPlaysNothing'
  BY <1>1, <1>7, <1>13 DEF PoolInv, TypeOK, QuietWhenClosed, DeadPlaysNothing
<1> QED BY <1>12, <1>14, <1>15 DEF PoolInv

\* The threads' own steps move a task between inbox, hands and outbox, and
\* touch nothing the main thread keeps.
LEMMA ThreadInv ==
  ASSUME PoolInv, NEW w \in Workers,
         (\E id \in inbox[w] : Take(w, id)) \/ Finish(w) \/ Crash(w) \/ Terminate(w)
  PROVE  PoolInv'
<1> USE DEF NoTask
<1>1. UNCHANGED pool
  BY DEF Take, Finish, Crash, Terminate
<1>2. /\ inbox' \in [Workers -> SUBSET Ids] /\ outbox' \in [Workers -> SUBSET Ids]
      /\ running' \in [Workers -> Ids \cup {NoTask}]
      /\ state' \in [Workers -> {"up", "down", "gone"}]
  <2>1. CASE \E id \in inbox[w] : Take(w, id)
    BY <2>1 DEF Take, PoolInv, TypeOK
  <2>2. CASE Finish(w)
    BY <2>2 DEF Finish, PoolInv, TypeOK
  <2>3. CASE Crash(w)
    BY <2>3 DEF Crash, PoolInv, TypeOK
  <2>4. CASE Terminate(w)
    BY <2>4 DEF Terminate, PoolInv, TypeOK
  <2> QED BY <2>1, <2>2, <2>3, <2>4
<1>3. \A v \in Workers : state'[v] = "gone" => state[v] = "gone" \/ closed
  BY DEF Take, Finish, Crash, Terminate, PoolInv, TypeOK
<1>4. TypeOK'
  BY <1>1, <1>2 DEF PoolInv, TypeOK, Ids, JobsIn, pool
<1>5. TaskHeldOnce' /\ WorkConserving'
  BY SMTT(30), <1>1 DEF PoolInv, TaskHeldOnce, WorkConserving, Waiting, Held, pool
<1>6. IdleIsFree'
  <2>1. \A v \in Workers : state'[v] # "gone" => state[v] # "gone"
    BY DEF Take, Finish, Crash, Terminate, PoolInv, TypeOK
  <2> QED BY <1>1, <2>1 DEF PoolInv, IdleIsFree, pool
<1>7. OneTaskInFlight'
  <2> SUFFICES ASSUME NEW v \in Workers
               PROVE  InFlight(v, currentTask'[v], inbox'[v], running'[v],
                               outbox'[v], state'[v])
    BY DEF OneTaskInFlight, InFlight
  <2>1. InFlight(v, currentTask[v], inbox[v], running[v], outbox[v], state[v])
    BY DEF PoolInv, OneTaskInFlight, InFlight
  <2>2. currentTask'[v] = currentTask[v]
    BY <1>1 DEF pool
  <2>3. CASE v # w
    <3>1. inbox'[v] = inbox[v] /\ running'[v] = running[v] /\ outbox'[v] = outbox[v]
          /\ state'[v] = state[v]
      BY <2>3 DEF Take, Finish, Crash, Terminate, PoolInv, TypeOK
    <3> QED BY <2>1, <2>2, <3>1
  <2>4. CASE v = w
    <3>1. ASSUME NEW id \in inbox[w], Take(w, id)
          PROVE  InFlight(w, currentTask[w], inbox'[w], running'[w], outbox'[w], state'[w])
      <4>1. /\ inbox'[w] = inbox[w] \ {id} /\ running'[w] = id
            /\ outbox'[w] = outbox[w] /\ state'[w] = state[w]
            /\ running[w] = NoTask
        BY <3>1 DEF Take, PoolInv, TypeOK
      <4>2. id \in Ids /\ id # NoTask
        BY DEF PoolInv, TypeOK, Ids
      <4> QED BY <4>1, <4>2, <2>1, <2>4 DEF InFlight
    <3>2. ASSUME Finish(w)
          PROVE  InFlight(w, currentTask[w], inbox'[w], running'[w], outbox'[w], state'[w])
      <4>1. /\ inbox'[w] = inbox[w] /\ running'[w] = NoTask
            /\ outbox'[w] = outbox[w] \cup {running[w]} /\ state'[w] = state[w]
            /\ running[w] # NoTask
        BY <3>2 DEF Finish, PoolInv, TypeOK
      <4>2. /\ NoTask \notin inbox[w] /\ NoTask \notin outbox[w]
        BY DEF PoolInv, TypeOK, Ids
      <4> QED BY <4>1, <4>2, <2>1, <2>4 DEF InFlight
    <3>3. ASSUME Crash(w)
          PROVE  InFlight(w, currentTask[w], inbox'[w], running'[w], outbox'[w], state'[w])
      <4>1. /\ inbox'[w] = inbox[w] /\ running'[w] = NoTask
            /\ outbox'[w] = outbox[w] /\ state'[w] = "down"
        BY <3>3 DEF Crash, PoolInv, TypeOK
      <4>2. /\ NoTask \notin inbox[w] /\ NoTask \notin outbox[w]
        BY DEF PoolInv, TypeOK, Ids
      <4> QED BY <4>1, <4>2, <2>1, <2>4 DEF InFlight
    <3>4. ASSUME Terminate(w)
          PROVE  InFlight(w, currentTask[w], inbox'[w], running'[w], outbox'[w], state'[w])
      <4>1. /\ inbox'[w] = inbox[w] /\ running'[w] = running[w]
            /\ outbox'[w] = outbox[w] /\ state'[w] = "gone"
        BY <3>4 DEF Terminate, PoolInv, TypeOK
      <4> QED BY <4>1, <2>1, <2>4 DEF InFlight
    <3> QED BY <2>2, <2>4, <3>1, <3>2, <3>3, <3>4
  <2> QED BY <2>3, <2>4
<1>8. QuietWhenClosed'
  BY <1>1, <1>3 DEF PoolInv, QuietWhenClosed, pool
<1>9. DeadPlaysNothing'
  <2>1. ASSUME NEW v \in Workers, state'[v] = "down" PROVE running'[v] = NoTask
    <3>1. CASE \E id \in inbox[w] : Take(w, id)
      BY <2>1, <3>1 DEF Take, PoolInv, TypeOK, DeadPlaysNothing
    <3>2. CASE Finish(w)
      BY <2>1, <3>2 DEF Finish, PoolInv, TypeOK, DeadPlaysNothing
    <3>3. CASE Crash(w)
      BY <2>1, <3>3 DEF Crash, PoolInv, TypeOK, DeadPlaysNothing
    <3>4. CASE Terminate(w)
      BY <2>1, <3>4 DEF Terminate, PoolInv, TypeOK, DeadPlaysNothing
    <3> QED BY <3>1, <3>2, <3>3, <3>4
  <2> QED BY <2>1 DEF DeadPlaysNothing
<1> QED BY <1>4, <1>5, <1>6, <1>7, <1>8, <1>9 DEF PoolInv

\* close() is called once nothing is owed, and keeps the invariant.
LEMMA CloseInv ==
  ASSUME PoolInv, Close
  PROVE  PoolInv'
<1>1. closed' = TRUE /\ pending = {}
      /\ UNCHANGED <<tasks, queue, idle, pending, resolved, currentTask,
                     state, inbox, running, outbox>>
  BY DEF Close, threads
<1>2. TypeOK'
  BY <1>1 DEF PoolInv, TypeOK, Ids, JobsIn
<1>3. TaskHeldOnce' /\ WorkConserving'
  BY ZenonT(60), <1>1 DEF PoolInv, TaskHeldOnce, WorkConserving, Waiting, Held
<1>5. IdleIsFree' /\ OneTaskInFlight'
  BY <1>1 DEF PoolInv, IdleIsFree, OneTaskInFlight
<1>4. QuietWhenClosed' /\ DeadPlaysNothing'
  BY <1>1 DEF PoolInv, QuietWhenClosed, DeadPlaysNothing
<1> QED BY <1>2, <1>3, <1>4, <1>5 DEF PoolInv

\* Every step of the pool keeps the invariant.
LEMMA NextInv ==
  ASSUME PoolInv, [Next]_vars
  PROVE  PoolInv'
<1>1. ASSUME NEW r \in Requests, RunJobs(r) PROVE PoolInv'
  BY <1>1, RunJobsInv
<1>2. ASSUME NEW w \in Workers, NEW id \in outbox[w], OnMessage(w, id) PROVE PoolInv'
  BY <1>2, OnMessageInv
<1>3. ASSUME NEW w \in Workers, OnError(w) PROVE PoolInv'
  BY <1>3, OnErrorInv
<1>4. CASE Close
  BY <1>4, CloseInv
<1>5. ASSUME NEW w \in Workers,
             (\E id \in inbox[w] : Take(w, id)) \/ Finish(w) \/ Crash(w) \/ Terminate(w)
      PROVE  PoolInv'
  BY <1>5, ThreadInv
<1>6. CASE UNCHANGED vars
  <2>1. UNCHANGED <<tasks, queue, idle, pending, resolved, currentTask, closed,
                    state, inbox, running, outbox>>
    BY <1>6 DEF vars
  <2>2. TypeOK'
    BY <2>1 DEF PoolInv, TypeOK, Ids, JobsIn
  <2> QED BY <2>1, <2>2 DEF PoolInv, TaskHeldOnce, WorkConserving, IdleIsFree,
            OneTaskInFlight, QuietWhenClosed, DeadPlaysNothing, Waiting, Held
<1> QED BY <1>1, <1>2, <1>3, <1>4, <1>5, <1>6 DEF Next

\* For any number of workers and calls, whoever crashes and when: the pool
\* state is well typed.
THEOREM PoolTypeOK == Spec => []TypeOK
<1>1. Init => PoolInv
  BY InitInv
<1>2. PoolInv /\ [Next]_vars => PoolInv'
  BY NextInv
<1>3. PoolInv => TypeOK
  BY DEF PoolInv
<1> QED BY <1>1, <1>2, <1>3, PTL DEF Spec

\* For any number of workers and calls, whoever crashes and when: every
\* unresolved task is in exactly one place of the queue or in the
\* currentTask of exactly one worker, so none is lost or given out twice.
THEOREM PoolTaskHeldOnce == Spec => []TaskHeldOnce
<1>1. Init => PoolInv
  BY InitInv
<1>2. PoolInv /\ [Next]_vars => PoolInv'
  BY NextInv
<1>3. PoolInv => TaskHeldOnce
  BY DEF PoolInv
<1> QED BY <1>1, <1>2, <1>3, PTL DEF Spec

\* For any number of workers and calls: no handler leaves a worker idle
\* while a task waits.
THEOREM PoolWorkConserving == Spec => []WorkConserving
<1>1. Init => PoolInv
  BY InitInv
<1>2. PoolInv /\ [Next]_vars => PoolInv'
  BY NextInv
<1>3. PoolInv => WorkConserving
  BY DEF PoolInv
<1> QED BY <1>1, <1>2, <1>3, PTL DEF Spec

\* For any number of workers and calls: the idle stack is exactly the
\* workers without a task, and what a thread holds is what the main thread
\* has noted as its task.
THEOREM PoolBookKeeping == Spec => []BookKeeping
<1>1. Init => PoolInv
  BY InitInv
<1>2. PoolInv /\ [Next]_vars => PoolInv'
  BY NextInv
<1>3. PoolInv => BookKeeping
  BY DEF PoolInv, BookKeeping
<1> QED BY <1>1, <1>2, <1>3, PTL DEF Spec

-----------------------------------------------------------------------------
\* A queue of the last of N tasks, oldest first.
LastOf(q, N) == \A i \in 1 .. Len(q) : q[i] = N - Len(q) + i

\* _drain takes from the front only, so what is left are still the last tasks.
LEMMA DrainOrder ==
  ASSUME NEW N \in Nat, NEW id \in Seq(Workers), NEW q \in Seq(1 .. N), NEW cur, NEW box,
         LastOf(q, N), Drain(id, q, cur, box)
  PROVE  LastOf(queue', N)
<1> DEFINE n == Smaller(Len(id), Len(q))
<1>1. n \in 0 .. Len(q) /\ Len(q) \in Nat
  BY DEF Smaller
<1>2. queue' = SubSeq(q, n + 1, Len(q))
  BY DEF Drain
<1> HIDE DEF n
<1>3. /\ Len(queue') = Len(q) - n
      /\ \A i \in 1 .. Len(q) - n : queue'[i] = q[i + n]
  BY <1>1, <1>2, Suffix
<1>4. ASSUME NEW i \in 1 .. Len(queue') PROVE queue'[i] = N - Len(queue') + i
  <2>1. i + n \in 1 .. Len(q) /\ queue'[i] = q[i + n]
    BY <1>1, <1>3
  <2>2. q[i + n] = N - Len(q) + (i + n)
    BY <2>1 DEF LastOf
  <2> QED BY <1>1, <1>3, <2>1, <2>2
<1> QED BY <1>4 DEF LastOf

\* The tasks of a new call follow those that wait.
LEMMA RunJobsOrder ==
  ASSUME PoolInv, OldestFirst, NEW r \in Requests, RunJobs(r)
  PROVE  OldestFirst'
<1> DEFINE parts == Parts(r)
           ids == [i \in 1 .. Len(parts) |-> Len(tasks) + i]
           q == queue \o ids
           N == Len(tasks) + Len(parts)
<1>1. /\ tasks' = tasks \o parts /\ Drain(idle, q, currentTask, inbox)
      /\ parts \in Seq([req : Requests, lo : Nat, hi : Nat]) /\ Len(parts) \in Nat
  BY PartsType DEF RunJobs
<1> HIDE DEF parts
<1>2. /\ tasks \in Seq([req : Requests, lo : Nat, hi : Nat]) /\ Len(tasks) \in Nat
      /\ queue \in Seq(1 .. Len(tasks)) /\ Len(queue) \in Nat /\ idle \in Seq(Workers)
  BY DEF PoolInv, TypeOK, Ids
<1>3. N \in Nat /\ Len(tasks') = N
  BY <1>1, <1>2, ConcatProperties
<1>4. queue \in Seq(1 .. N)
  <2>1. 1 .. Len(tasks) \subseteq 1 .. N
    BY <1>1, <1>2
  <2> HIDE DEF N
  <2> QED BY <1>2, <2>1, SeqWiden
<1>5. ids \in Seq(1 .. N) /\ Len(ids) = Len(parts) /\ \A i \in 1 .. Len(parts) : ids[i] = Len(tasks) + i
  BY <1>1, <1>2
<1> HIDE DEF ids
<1>6. /\ q \in Seq(1 .. N) /\ Len(q) = Len(queue) + Len(parts)
      /\ \A i \in 1 .. Len(queue) + Len(parts) :
           q[i] = IF i <= Len(queue) THEN queue[i] ELSE ids[i - Len(queue)]
  <2>1. /\ q \in Seq(1 .. N) /\ Len(q) = Len(queue) + Len(ids)
        /\ \A i \in 1 .. Len(queue) + Len(ids) :
             q[i] = IF i <= Len(queue) THEN queue[i] ELSE ids[i - Len(queue)]
    BY <1>4, <1>5, ConcatProperties
  <2> QED BY <2>1, <1>5
<1> HIDE DEF q
<1>7. ASSUME NEW i \in 1 .. Len(q) PROVE q[i] = N - Len(q) + i
  <2>1. N - Len(q) + i = Len(tasks) - Len(queue) + i
    BY <1>1, <1>2, <1>6
  <2>2. CASE i <= Len(queue)
    <3>1. i \in 1 .. Len(queue) /\ q[i] = queue[i]
      BY <1>1, <1>2, <1>6, <2>2
    <3> QED BY <2>1, <3>1 DEF OldestFirst
  <2>3. CASE ~(i <= Len(queue))
    <3>1. i - Len(queue) \in 1 .. Len(parts) /\ q[i] = ids[i - Len(queue)]
      BY <1>1, <1>2, <1>6, <2>3
    <3>2. ids[i - Len(queue)] = Len(tasks) + (i - Len(queue))
      BY <1>5, <3>1
    <3> QED BY <1>2, <2>1, <3>1, <3>2
  <2> QED BY <2>2, <2>3
<1>8. LastOf(q, N)
  BY <1>7 DEF LastOf
<1> HIDE DEF N
<1>9. LastOf(queue', N)
  BY <1>1, <1>2, <1>3, <1>6, <1>8, DrainOrder
<1> QED BY <1>3, <1>9 DEF LastOf, OldestFirst

\* The other handlers only drain, and the threads do not see the queue.
LEMMA NextOrder ==
  ASSUME PoolInv, OldestFirst, [Next]_vars
  PROVE  OldestFirst'
<1>1. /\ LastOf(queue, Len(tasks)) /\ Len(tasks) \in Nat
      /\ queue \in Seq(1 .. Len(tasks)) /\ idle \in Seq(Workers)
  BY SMTT(30) DEF OldestFirst, LastOf, PoolInv, TypeOK, Ids
<1>2. ASSUME NEW r \in Requests, RunJobs(r) PROVE OldestFirst'
  BY <1>2, RunJobsOrder
<1>3. ASSUME NEW w \in Workers, NEW id \in outbox[w], OnMessage(w, id) PROVE OldestFirst'
  <2>1. /\ Drain(Append(idle, w), queue, [currentTask EXCEPT ![w] = NoTask], inbox)
        /\ tasks' = tasks
    BY <1>3 DEF OnMessage
  <2>2. Append(idle, w) \in Seq(Workers)
    BY <1>1, AppendProperties
  <2>3. LastOf(queue', Len(tasks))
    BY <1>1, <2>1, <2>2, DrainOrder
  <2> QED BY <2>1, <2>3 DEF LastOf, OldestFirst
<1>4. ASSUME NEW w \in Workers, OnError(w) PROVE OldestFirst'
  <2> DEFINE rest == Without(idle, w)
             cur == [currentTask EXCEPT ![w] = NoTask]
             box == [inbox EXCEPT ![w] = {}]
  <2>1. (Replace(w, rest, cur, box) \/ queue' = queue) /\ tasks' = tasks
    BY <1>4 DEF OnError
  <2>2. rest \in Seq(Workers)
    BY <1>1, WithoutLemma DEF PoolInv, IdleIsFree, Distinct
  <2> HIDE DEF rest, cur, box
  <2>3. CASE Replace(w, rest, cur, box)
    <3>1. Drain(Append(rest, w), queue, cur, box)
      BY <2>3 DEF Replace
    <3>2. Append(rest, w) \in Seq(Workers)
      BY <2>2, AppendProperties
    <3>3. LastOf(queue', Len(tasks))
      BY <1>1, <3>1, <3>2, DrainOrder
    <3> QED BY <2>1, <3>3 DEF LastOf, OldestFirst
  <2>4. CASE queue' = queue
    BY <2>1, <2>4 DEF OldestFirst
  <2> QED BY <2>1, <2>3, <2>4
<1>5. CASE UNCHANGED <<queue, tasks>>
  BY <1>5 DEF OldestFirst
<1>6. CASE Close
  BY <1>5, <1>6 DEF Close
<1>7. ASSUME NEW w \in Workers,
             (\E id \in inbox[w] : Take(w, id)) \/ Finish(w) \/ Crash(w) \/ Terminate(w)
      PROVE  OldestFirst'
  BY <1>5, <1>7 DEF Take, Finish, Crash, Terminate, pool
<1>8. CASE UNCHANGED vars
  BY <1>5, <1>8 DEF vars
<1> QED BY <1>2, <1>3, <1>4, <1>6, <1>7, <1>8 DEF Next

\* For any number of workers and calls, whoever crashes: tasks are given out in
\* the order they were asked for.
THEOREM PoolOldestFirst == Spec => []OldestFirst
<1>1. Init => PoolInv /\ OldestFirst
  <2> SUFFICES ASSUME Init PROVE PoolInv /\ OldestFirst
    OBVIOUS
  <2>1. Len(queue) = 0
    BY DEF Init
  <2> QED BY <2>1, InitInv DEF OldestFirst
<1>2. PoolInv /\ OldestFirst /\ [Next]_vars => (PoolInv /\ OldestFirst)'
  BY NextInv, NextOrder
<1> QED BY <1>1, <1>2, PTL DEF Spec

-----------------------------------------------------------------------------
(* SimPool implements JobService, step by step: a call is answered once,   *)
(* after all its tasks are settled, with an outcome of each of its jobs     *)
(* that is the job's own, and no later step changes that answer.  That      *)
(* every call is answered is liveness, and is model-checked.                *)

\* What may be recorded of job k of call r.
Outcomes(r, k) == {Battle(r, k), "crashed"}

\* The tasks are the parts of their calls, and each call has all of its parts;
\* what is recorded of a task are outcomes of its own jobs.
ServiceInv ==
  /\ \A r \in Requests : Called(r) =>
       \A i \in 1 .. Len(Parts(r)) : \E id \in Ids : tasks[id] = Parts(r)[i]
  /\ \A id \in DOMAIN resolved : \A k \in JobsIn(id) :
       resolved[id][k] \in Outcomes(tasks[id].req, k)

\* Every job is in one of the parts of its call.
LEMMA PartsCover ==
  ASSUME NEW r \in Requests, NEW k \in JobsOf(r)
  PROVE  \E i \in 1 .. Len(Parts(r)) :
           Parts(r)[i].req = r /\ k \in Parts(r)[i].lo .. Parts(r)[i].hi
<1> DEFINE n == JobCount[r]
           c == Chunk(n)
           i == k \div c + 1
<1>1. n \in Nat \ {0} /\ k \in 0 .. n - 1
  BY JobsAssumption DEF JobsOf
<1>2. c \in Nat /\ c >= 2
  <2>1. CeilDiv(n, 4 * Cardinality(Workers)) \in Int
    BY <1>1, WorkersAssumption DEF CeilDiv
  <2> HIDE DEF n
  <2> QED BY <2>1 DEF Chunk, Larger
<1>3. Parts(r) = [j \in 1 .. CeilDiv(n, c) |->
                    [req |-> r, lo |-> (j - 1) * c, hi |-> Smaller(j * c, n) - 1]]
  BY DEF Parts
<1> HIDE DEF n, c
<1>4. /\ i \in Nat \ {0} /\ (i - 1) * c <= k /\ k < i * c
  <2> DEFINE d == k \div c
  <2>1. k \in Nat /\ c \in Nat \ {0}
    BY <1>1, <1>2
  <2>2. d \in Nat /\ d * c <= k /\ k < (d + 1) * c
    BY <2>1
  <2> HIDE DEF d
  <2> QED BY <2>2 DEF d
<1> HIDE DEF i
<1>5. i <= CeilDiv(n, c)
  <2> DEFINE m == (n + c - 1) \div c
  <2>1. n + c - 1 \in Nat /\ c \in Nat \ {0}
    BY <1>1, <1>2
  <2>2. m \in Nat /\ n + c - 1 < (m + 1) * c
    BY <2>1
  <2> HIDE DEF m
  <2>3. (i - 1) * c + c < (m + 1) * c
    BY <1>1, <1>2, <1>4, <2>2
  <2>4. i * c < (m + 1) * c
    BY <1>2, <1>4, <2>3
  <2>5. i < m + 1
    BY <1>2, <1>4, <2>2, <2>4
  <2> QED BY <1>4, <2>2, <2>5 DEF CeilDiv, m
<1>6. CeilDiv(n, c) \in Nat
  BY <1>1, <1>2 DEF CeilDiv
<1>7. i \in 1 .. CeilDiv(n, c) /\ Len(Parts(r)) = CeilDiv(n, c)
  BY <1>3, <1>4, <1>5, <1>6
<1>8. Parts(r)[i] = [req |-> r, lo |-> (i - 1) * c, hi |-> Smaller(i * c, n) - 1]
  BY <1>3, <1>7
<1>9. k \in (i - 1) * c .. Smaller(i * c, n) - 1
  <2>1. (i - 1) * c \in Int /\ i * c \in Int /\ k \in Int /\ n \in Int /\ k < n
    BY <1>1, <1>2, <1>4
  <2> QED BY <1>4, <2>1 DEF Smaller
<1> QED BY <1>7, <1>8, <1>9


-----------------------------------------------------------------------------
\* Answer picks the task that holds a job; One names the choice, Holding the
\* tasks it is from.
One(S) == CHOOSE x \in S : TRUE
Holding(r, k) == {t \in Ids : tasks[t].req = r /\ k \in JobsIn(t)}

AnswersOk == \A r \in Requests : Answered(r) => Answer(r) \in Answers(r)

LEMMA AnswerIs ==
  ASSUME NEW r PROVE Answer(r) = [k \in JobsOf(r) |-> resolved[One(Holding(r, k))][k]]
  BY DEF Answer, One, Holding

LEMMA OneOf ==
  ASSUME NEW S, S # {} PROVE One(S) \in S
  BY DEF One

\* Every job of a call that was made is held by one of its tasks.
LEMMA HeldBySome ==
  ASSUME ServiceInv, NEW r \in Requests, Called(r), NEW k \in JobsOf(r)
  PROVE  One(Holding(r, k)) \in Holding(r, k)
<1>1. PICK i \in 1 .. Len(Parts(r)) : Parts(r)[i].req = r /\ k \in Parts(r)[i].lo .. Parts(r)[i].hi
  BY PartsCover
<1>2. PICK id \in Ids : tasks[id] = Parts(r)[i]
  BY DEF ServiceInv
<1>3. id \in Holding(r, k)
  BY <1>1, <1>2 DEF Holding, JobsIn
<1> QED BY <1>3, OneOf

\* An answer is one the service may give.
LEMMA AnswersAreOk ==
  PoolInv /\ ServiceInv => AnswersOk
<1> SUFFICES ASSUME PoolInv, ServiceInv, NEW r \in Requests, Answered(r)
             PROVE  Answer(r) \in Answers(r)
  BY DEF AnswersOk
<1>1. ASSUME NEW k \in JobsOf(r)
      PROVE  /\ resolved[One(Holding(r, k))][k] \in {"played", "threw", "crashed"}
             /\ resolved[One(Holding(r, k))][k] \in {Battle(r, k), "crashed"}
  <2> DEFINE t == One(Holding(r, k))
  <2>1. t \in Holding(r, k)
    BY HeldBySome DEF Answered
  <2> HIDE DEF t
  <2>2. t \in Ids /\ tasks[t].req = r /\ k \in JobsIn(t)
    BY <2>1 DEF Holding
  <2>3. t \in DOMAIN resolved
    BY <2>2 DEF Answered
  <2>4. resolved[t][k] \in {Battle(r, k), "crashed"}
    BY <2>2, <2>3 DEF ServiceInv, Outcomes
  <2> QED BY <2>4 DEF Battle, t
<1>2. [k \in JobsOf(r) |-> resolved[One(Holding(r, k))][k]] \in Answers(r)
  BY <1>1 DEF Answers
<1> QED BY <1>2, AnswerIs

-----------------------------------------------------------------------------
\* Every step but a new call leaves the tasks, and settles at most one of those
\* that are not settled.
LEMMA OtherStep ==
  ASSUME PoolInv, [Next]_vars, ~ \E r \in Requests : RunJobs(r)
  PROVE  /\ tasks' = tasks
         /\ \/ resolved' = resolved
            \/ \E id \in pending : \E out \in {Played(id), Crashed(id)} :
                 resolved' = [t \in DOMAIN resolved \cup {id} |->
                                IF t = id THEN out ELSE resolved[t]]
<1>1. ASSUME NEW w \in Workers, NEW id \in outbox[w], OnMessage(w, id)
      PROVE  tasks' = tasks /\ Settle(id, Played(id))
  BY <1>1 DEF OnMessage
<1>2. ASSUME NEW w \in Workers, OnError(w)
      PROVE  tasks' = tasks /\ (\/ Settle(currentTask[w], Crashed(currentTask[w]))
                                \/ resolved' = resolved)
  BY <1>2 DEF OnError, Fail
<1>3. ASSUME NEW w \in Workers,
             Close \/ (\E id \in inbox[w] : Take(w, id)) \/ Finish(w) \/ Crash(w) \/ Terminate(w)
      PROVE  tasks' = tasks /\ resolved' = resolved
  BY <1>3 DEF Close, Take, Finish, Crash, Terminate, pool
<1>4. CASE Close
  BY <1>4 DEF Close
<1>5. CASE UNCHANGED vars
  BY <1>5 DEF vars
<1> QED BY <1>1, <1>2, <1>3, <1>4, <1>5 DEF Next, Settle

\* What a new call does to the tasks: its own come behind the others.
LEMMA CallStep ==
  ASSUME PoolInv, NEW r \in Requests, RunJobs(r)
  PROVE  /\ resolved' = resolved /\ ~Called(r)
         /\ DOMAIN resolved \subseteq Ids /\ Ids \subseteq Ids'
         /\ \A t \in Ids : tasks'[t] = tasks[t]
         /\ \A t \in Ids' \ Ids : tasks'[t].req = r /\ t \notin DOMAIN resolved
         /\ \A i \in 1 .. Len(Parts(r)) : \E t \in Ids' \ Ids : tasks'[t] = Parts(r)[i]
         /\ Ids' \ Ids # {}
<1> DEFINE parts == Parts(r)
<1>1. /\ tasks' = tasks \o parts /\ resolved' = resolved /\ ~Called(r)
  BY DEF RunJobs
<1>2. /\ parts \in Seq([req : Requests, lo : Nat, hi : Nat]) /\ Len(parts) \in Nat \ {0}
      /\ \A i \in 1 .. Len(parts) : parts[i].req = r
  BY PartsType
<1> HIDE DEF parts
<1>3. /\ tasks \in Seq([req : Requests, lo : Nat, hi : Nat]) /\ Len(tasks) \in Nat
      /\ DOMAIN resolved \subseteq Ids
  BY DEF PoolInv, TypeOK
<1>4. /\ Len(tasks') = Len(tasks) + Len(parts)
      /\ \A t \in 1 .. Len(tasks) + Len(parts) :
           tasks'[t] = IF t <= Len(tasks) THEN tasks[t] ELSE parts[t - Len(tasks)]
  BY <1>1, <1>2, <1>3, ConcatProperties
<1>5. Ids = 1 .. Len(tasks) /\ Ids' = 1 .. Len(tasks) + Len(parts)
  BY <1>4 DEF Ids
<1>6. ASSUME NEW t \in Ids' \ Ids
      PROVE  t - Len(tasks) \in 1 .. Len(parts) /\ tasks'[t] = parts[t - Len(tasks)]
  BY <1>2, <1>3, <1>4, <1>5
<1>7. ASSUME NEW i \in 1 .. Len(parts)
      PROVE  Len(tasks) + i \in Ids' \ Ids /\ tasks'[Len(tasks) + i] = parts[i]
  BY <1>2, <1>3, <1>4, <1>5
<1>8. Ids \subseteq Ids' /\ \A t \in Ids : tasks'[t] = tasks[t]
  BY <1>2, <1>3, <1>4, <1>5
<1>9. 1 \in 1 .. Len(parts)
  BY <1>2
<1> QED BY ZenonT(60), <1>1, <1>2, <1>3, <1>6, <1>7, <1>8, <1>9 DEF parts

\* Settling a task that was not settled keeps what is recorded of the others.
LEMMA SettleStep ==
  ASSUME PoolInv, NEW id \in pending, NEW out \in {Played(id), Crashed(id)},
         resolved' = [t \in DOMAIN resolved \cup {id} |-> IF t = id THEN out ELSE resolved[t]]
  PROVE  /\ id \in Ids /\ id \notin DOMAIN resolved /\ tasks[id].req \in Requests
         /\ DOMAIN resolved' = DOMAIN resolved \cup {id} /\ resolved'[id] = out
         /\ \A t \in DOMAIN resolved : resolved'[t] = resolved[t]
<1>1. id \in Ids /\ DOMAIN resolved = Ids \ pending
  BY DEF PoolInv, TypeOK
<1>2. tasks[id] \in [req : Requests, lo : Nat, hi : Nat]
  <2>1. tasks \in Seq([req : Requests, lo : Nat, hi : Nat]) /\ id \in 1 .. Len(tasks)
    BY <1>1 DEF PoolInv, TypeOK, Ids
  <2> QED BY <2>1, ElementOfSeq
<1> QED BY <1>1, <1>2

LEMMA ServiceNext ==
  ASSUME PoolInv, ServiceInv, [Next]_vars
  PROVE  ServiceInv'
<1>1. ASSUME NEW r \in Requests, RunJobs(r) PROVE ServiceInv'
  <2>1. /\ resolved' = resolved /\ DOMAIN resolved \subseteq Ids /\ Ids \subseteq Ids'
        /\ \A t \in Ids : tasks'[t] = tasks[t]
        /\ \A t \in Ids' \ Ids : tasks'[t].req = r
        /\ \A i \in 1 .. Len(Parts(r)) : \E t \in Ids' : tasks'[t] = Parts(r)[i]
    BY <1>1, CallStep
  <2>2. ASSUME NEW s \in Requests, Called(s)', NEW i \in 1 .. Len(Parts(s))
        PROVE  \E t \in Ids' : tasks'[t] = Parts(s)[i]
    <3>1. CASE s = r
      BY <2>1, <3>1
    <3>2. CASE s # r
      <4>1. Called(s)
        BY <2>1, <2>2, <3>2 DEF Called
      <4>2. PICK t \in Ids : tasks[t] = Parts(s)[i]
        BY <4>1 DEF ServiceInv
      <4> QED BY <2>1, <4>2
    <3> QED BY <3>1, <3>2
  <2>3. ASSUME NEW t \in DOMAIN resolved', NEW k \in JobsIn(t)'
        PROVE  resolved'[t][k] \in Outcomes(tasks'[t].req, k)
    <3>1. /\ t \in DOMAIN resolved /\ t \in Ids
          /\ tasks'[t] = tasks[t] /\ resolved'[t] = resolved[t]
      BY <2>1, <2>3
    <3>2. k \in JobsIn(t)
      BY <2>3, <3>1 DEF JobsIn
    <3>3. resolved[t][k] \in Outcomes(tasks[t].req, k)
      BY <3>1, <3>2 DEF ServiceInv
    <3> QED BY <3>1, <3>3
  <2> QED BY <2>2, <2>3 DEF ServiceInv
<1>2. CASE ~ \E r \in Requests : RunJobs(r)
  <2>1. /\ tasks' = tasks
        /\ \/ resolved' = resolved
           \/ \E id \in pending : \E out \in {Played(id), Crashed(id)} :
                resolved' = [t \in DOMAIN resolved \cup {id} |->
                               IF t = id THEN out ELSE resolved[t]]
    BY <1>2, OtherStep
  <2>2. Ids' = Ids /\ \A t : JobsIn(t)' = JobsIn(t)
    BY <2>1 DEF Ids, JobsIn
  <2>3. \A r \in Requests : Called(r)' => Called(r)
    BY <2>1, <2>2 DEF Called
  <2>4. ASSUME NEW t \in DOMAIN resolved', NEW k \in JobsIn(t)
        PROVE  resolved'[t][k] \in Outcomes(tasks[t].req, k)
    <3>1. CASE resolved' = resolved
      BY <2>4, <3>1 DEF ServiceInv
    <3>2. ASSUME NEW id \in pending, NEW out \in {Played(id), Crashed(id)},
                 resolved' = [u \in DOMAIN resolved \cup {id} |->
                                IF u = id THEN out ELSE resolved[u]]
          PROVE  resolved'[t][k] \in Outcomes(tasks[t].req, k)
      <4>1. CASE t = id
        <5>1. resolved'[t] = out
          BY <3>2, <4>1, SettleStep
        <5>2. out[k] \in Outcomes(tasks[t].req, k)
          BY <3>2, <2>4, <4>1 DEF Played, Crashed, Outcomes
        <5> QED BY <5>1, <5>2
      <4>2. CASE t # id
        <5>1. t \in DOMAIN resolved /\ resolved'[t] = resolved[t]
          BY <3>2, <4>2, SettleStep
        <5> QED BY <5>1, <2>4 DEF ServiceInv
      <4> QED BY <4>1, <4>2
    <3> QED BY <2>1, <3>1, <3>2
  <2> QED BY <2>1, <2>2, <2>3, <2>4 DEF ServiceInv
<1> QED BY <1>1, <1>2

-----------------------------------------------------------------------------
\* A call that has been answered keeps its answer, whatever is settled or called
\* later.
LEMMA AnswerStays ==
  ASSUME ServiceInv, NEW r \in Requests, Answered(r),
         \A k \in JobsOf(r) : Holding(r, k)' = Holding(r, k),
         \A t \in DOMAIN resolved : resolved'[t] = resolved[t]
  PROVE  Answer(r)' = Answer(r)
<1>1. ASSUME NEW k \in JobsOf(r)
      PROVE  resolved'[One(Holding(r, k)')][k] = resolved[One(Holding(r, k))][k]
  <2>1. One(Holding(r, k)) \in Holding(r, k)
    BY HeldBySome DEF Answered
  <2>2. One(Holding(r, k)) \in DOMAIN resolved
    BY <2>1 DEF Holding, Answered
  <2>3. One(Holding(r, k)') = One(Holding(r, k))
    OBVIOUS
  <2> QED BY <2>2, <2>3
<1>2. Answer(r)' = [k \in JobsOf(r) |-> resolved'[One(Holding(r, k)')][k]]
  BY DEF Answer, One, Holding
<1>3. [k \in JobsOf(r) |-> resolved'[One(Holding(r, k)')][k]]
        = [k \in JobsOf(r) |-> resolved[One(Holding(r, k))][k]]
  BY <1>1
<1> QED BY <1>2, <1>3, AnswerIs

\* The service's state.
AnsweredCalls == {r \in Requests : Answered(r)}

LEMMA CallMaps ==
  ASSUME PoolInv, ServiceInv, NEW r \in Requests, RunJobs(r)
  PROVE  Service!Ask(r)
<1>1. /\ resolved' = resolved /\ ~Called(r)
      /\ DOMAIN resolved \subseteq Ids /\ Ids \subseteq Ids'
      /\ \A t \in Ids : tasks'[t] = tasks[t]
      /\ \A t \in Ids' \ Ids : tasks'[t].req = r /\ t \notin DOMAIN resolved
      /\ Ids' \ Ids # {}
  BY CallStep
<1>2. ASSUME NEW s \in Requests PROVE Called(s)' <=> Called(s) \/ s = r
  BY <1>1 DEF Called
<1>3. ASSUME NEW s \in Requests PROVE Answered(s)' <=> Answered(s)
  <2>1. CASE s = r
    <3>1. PICK t \in Ids' \ Ids : TRUE
      BY <1>1
    <3>2. t \in Ids' /\ tasks'[t].req = s /\ t \notin DOMAIN resolved'
      BY <1>1, <2>1, <3>1
    <3>3. ~Answered(s)'
      BY <3>2 DEF Answered
    <3>4. ~Answered(s)
      BY <1>1, <2>1 DEF Answered
    <3> QED BY <3>3, <3>4
  <2>2. CASE s # r
    <3>1. \A t \in Ids' : tasks'[t].req = s => t \in Ids
      BY <1>1, <2>2
    <3>2. Called(s)' <=> Called(s)
      BY <1>2, <2>2
    <3> QED BY <1>1, <3>1, <3>2 DEF Answered
  <2> QED BY <2>1, <2>2
<1>4. ASSUME NEW s \in Requests, Answered(s) PROVE Answer(s)' = Answer(s)
  <2>1. s # r
    BY <1>1, <1>4 DEF Answered
  <2>2. \A k \in JobsOf(s) : Holding(s, k)' = Holding(s, k)
    BY <1>1, <2>1 DEF Holding, JobsIn
  <2> QED BY <1>1, <1>4, <2>2, AnswerStays
<1>5. AnsweredCalls' = AnsweredCalls
  BY <1>3 DEF AnsweredCalls
<1>6. [s \in AnsweredCalls |-> Answer(s)'] = [s \in AnsweredCalls |-> Answer(s)]
  BY <1>4 DEF AnsweredCalls
<1>7. {s \in Requests : Called(s)}' = {s \in Requests : Called(s)} \cup {r}
  BY <1>2
<1>8. [s \in {t \in Requests : Answered(t)} |-> Answer(s)]'
        = [s \in {t \in Requests : Answered(t)} |-> Answer(s)]
  BY <1>5, <1>6 DEF AnsweredCalls
<1> QED BY <1>1, <1>7, <1>8 DEF Service!Ask

-----------------------------------------------------------------------------
\* Before any call there is nothing to answer.
LEMMA ServiceInit == Init => ServiceInv
<1> SUFFICES ASSUME Init PROVE ServiceInv
  OBVIOUS
<1>1. Ids = {} /\ DOMAIN resolved = {}
  BY DEF Init, Ids
<1> QED BY <1>1 DEF ServiceInv, Called

\* A step that settles a task answers the task's call, if nothing of it is left
\* to be settled; no other step but a call answers or changes anything.
LEMMA SettleMaps ==
  ASSUME PoolInv, ServiceInv, AnswersOk', tasks' = tasks,
         NEW id \in pending, NEW out \in {Played(id), Crashed(id)},
         resolved' = [t \in DOMAIN resolved \cup {id} |-> IF t = id THEN out ELSE resolved[t]]
  PROVE  \/ Service!Reply(tasks[id].req)
         \/ UNCHANGED Service!jvars
<1> DEFINE rq == tasks[id].req
<1>1. /\ id \in Ids /\ id \notin DOMAIN resolved /\ rq \in Requests
      /\ DOMAIN resolved' = DOMAIN resolved \cup {id}
      /\ \A t \in DOMAIN resolved : resolved'[t] = resolved[t]
  BY SettleStep
<1>2. Ids' = Ids /\ \A t : JobsIn(t)' = JobsIn(t)
  BY DEF Ids, JobsIn
<1>3. ASSUME NEW s \in Requests PROVE Called(s)' <=> Called(s)
  BY <1>2 DEF Called
<1>4. ASSUME NEW s \in Requests, s # rq PROVE Answered(s)' <=> Answered(s)
  <2>1. \A t \in Ids : tasks[t].req = s => (t \in DOMAIN resolved' <=> t \in DOMAIN resolved)
    BY <1>1, <1>4
  <2> QED BY <1>2, <1>3, <2>1 DEF Answered
<1>5. Called(rq) /\ ~Answered(rq)
  BY <1>1 DEF Called, Answered
<1>6. ASSUME NEW s \in Requests, Answered(s) PROVE Answer(s)' = Answer(s)
  <2>1. \A k \in JobsOf(s) : Holding(s, k)' = Holding(s, k)
    BY <1>2 DEF Holding
  <2> QED BY <1>1, <1>6, <2>1, AnswerStays
<1> DEFINE asked == {s \in Requests : Called(s)}
           answer == [s \in {t \in Requests : Answered(t)} |-> Answer(s)]
<1>7. asked' = asked
  BY <1>3
<1>8. CASE Answered(rq)'
  <2>1. {t \in Requests : Answered(t)}' = {t \in Requests : Answered(t)} \cup {rq}
    BY <1>1, <1>4, <1>8
  <2>2. Answer(rq)' \in Answers(rq)
    BY <1>1, <1>8 DEF AnswersOk
  <2>3. answer' = [s \in DOMAIN answer \cup {rq} |->
                     IF s = rq THEN Answer(rq)' ELSE answer[s]]
    BY <1>5, <1>6, <2>1
  <2>4. rq \in asked /\ rq \notin DOMAIN answer
    BY <1>1, <1>5
  <2>5. Service!Answers(rq) = Answers(rq)
    BY DEF Answers, Service!Answers, JobsOf, Service!JobsOf, Battle, Service!Battle
  <2>6. \E a \in Service!Answers(rq) :
          answer' = [s \in DOMAIN answer \cup {rq} |-> IF s = rq THEN a ELSE answer[s]]
    BY <2>2, <2>3, <2>5
  <2> QED BY <1>7, <2>4, <2>6 DEF Service!Reply
<1>9. CASE ~Answered(rq)'
  <2>1. {t \in Requests : Answered(t)}' = {t \in Requests : Answered(t)}
    BY <1>1, <1>4, <1>5, <1>9
  <2>2. answer' = answer
    BY <1>6, <2>1
  <2> QED BY <1>7, <2>2 DEF Service!jvars
<1> QED BY <1>8, <1>9

\* Every step of the pool is a step of the service, or none.
LEMMA StepMaps ==
  ASSUME PoolInv, ServiceInv, AnswersOk', [Next]_vars
  PROVE  [Service!Next]_(Service!jvars)
<1>1. ASSUME NEW r \in Requests, RunJobs(r) PROVE Service!Next
  BY <1>1, CallMaps DEF Service!Next
<1>2. CASE ~ \E r \in Requests : RunJobs(r)
  <2>1. /\ tasks' = tasks
        /\ \/ resolved' = resolved
           \/ \E id \in pending : \E out \in {Played(id), Crashed(id)} :
                resolved' = [t \in DOMAIN resolved \cup {id} |->
                               IF t = id THEN out ELSE resolved[t]]
    BY <1>2, OtherStep
  <2>2. CASE resolved' = resolved
    BY <2>1, <2>2 DEF Service!jvars, Called, Answered, Answer, Ids, JobsIn
  <2>3. ASSUME NEW id \in pending, NEW out \in {Played(id), Crashed(id)},
               resolved' = [t \in DOMAIN resolved \cup {id} |->
                              IF t = id THEN out ELSE resolved[t]]
        PROVE  Service!Next \/ UNCHANGED Service!jvars
    <3>1. tasks[id].req \in Requests
      BY <2>3, SettleStep
    <3>2. \/ Service!Reply(tasks[id].req)
          \/ UNCHANGED Service!jvars
      BY <2>1, <2>3, SettleMaps
    <3> QED BY <3>1, <3>2 DEF Service!Next
  <2> QED BY <2>1, <2>2, <2>3
<1> QED BY <1>1, <1>2

\* However often workers crash, the pool does nothing its callers could tell
\* from the service of JobService: a call is asked once and answered once, with
\* one outcome for each job, the battle's own or the error record made up when
\* its worker died, and no later message or error changes the answer.
THEOREM PoolImplementsService ==
  Spec => Service!Init /\ [][Service!Next]_(Service!jvars)
<1>1. Init => Service!Init
  <2> SUFFICES ASSUME Init PROVE Service!Init
    OBVIOUS
  <2>1. \A r \in Requests : ~Called(r)
    BY DEF Init, Called, Ids
  <2> QED BY <2>1 DEF Service!Init, Answered
<1>2. PoolInv /\ ServiceInv /\ [Next]_vars => PoolInv' /\ ServiceInv'
  BY NextInv, ServiceNext
<1>3. PoolInv /\ ServiceInv => AnswersOk
  BY AnswersAreOk
<1>4. PoolInv /\ ServiceInv /\ AnswersOk' /\ [Next]_vars => [Service!Next]_(Service!jvars)
  BY StepMaps
<1> QED BY <1>1, <1>2, <1>3, <1>4, InitInv, ServiceInit, PTL DEF Spec
=============================================================================
