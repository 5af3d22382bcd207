------------------------------ MODULE SimPool -------------------------------
(***************************************************************************)
(* The worker_threads pool of the battle simulator: class Pool of          *)
(* docker/sim/pool.js, the task loop of docker/sim/worker.js, and the      *)
(* channel between them.                                                   *)
(*                                                                         *)
(* The main thread runs one event handler at a time, to its end, so each   *)
(* of RunJobs, OnMessage, OnError and Close is one action.  Workers run in *)
(* parallel with it: Take, Finish, Crash and Terminate are theirs.         *)
(*                                                                         *)
(* A Worker object is named by a slot of Workers; the replacement of a     *)
(* crashed worker takes over the slot, nothing refers to the old object    *)
(* any more.  Node delivers every message a dying worker had posted before *)
(* it emits the worker's 'error'.                                          *)
(***************************************************************************)
EXTENDS SimJobs, Sequences, FiniteSets

CONSTANT Workers      \* this.size slots

ASSUME WorkersAssumption == IsFiniteSet(Workers) /\ Cardinality(Workers) \in Nat \ {0}

\* Every handler of api.js asks for at least one battle, of its own call.
ASSUME JobsAssumption == /\ JobCount \in [Requests -> Nat \ {0}]
                         /\ Throws \in [Requests -> SUBSET Nat]

NoTask == 0           \* w.currentTask = null; ids count from 1

VARIABLES
  tasks,        \* tasks[id]: the task numbered id, in the order of nextId
  queue,        \* this.queue: ids waiting for a worker
  idle,         \* this.idle: a stack of workers
  pending,      \* this.pending: ids whose promise is unresolved
  resolved,     \* id -> the results its promise was resolved with
  currentTask,  \* w.currentTask
  state,        \* of each slot: "up", "down" (its 'error' is due) or "gone"
  inbox,        \* ids posted to the worker that it has not taken
  running,      \* the id the worker is playing
  outbox,       \* ids whose results the main thread has not been handed
  closed        \* this.closed

pool     == <<tasks, queue, idle, pending, resolved, currentTask, closed>>
threads  == <<state, inbox, running, outbox>>
vars     == <<tasks, queue, idle, pending, resolved, currentTask, closed,
              state, inbox, running, outbox>>

-----------------------------------------------------------------------------
Smaller(a, b) == IF a < b THEN a ELSE b
Larger(a, b)  == IF a < b THEN b ELSE a
CeilDiv(a, b) == (a + b - 1) \div b

Ids == 1 .. Len(tasks)

\* The jobs of a task: jobs.slice(i, i + chunk).
JobsIn(id) == tasks[id].lo .. tasks[id].hi

\* Chunk size of runJobs, about four chunks per worker.
Chunk(n) == Larger(2, CeilDiv(n, 4 * Cardinality(Workers)))

\* The tasks runJobs cuts a call into, in order.
Parts(r) ==
  LET n == JobCount[r]
      c == Chunk(n)
  IN  [i \in 1 .. CeilDiv(n, c) |->
         [req |-> r, lo |-> (i - 1) * c, hi |-> Smaller(i * c, n) - 1]]

\* Fault: the youngest task is handed out first (queue.pop()).
FaultyDrainNewest(id, q, cur, box) ==
  LET n        == Smaller(Len(id), Len(q))
      Taker(i) == id[Len(id) + 1 - i]
      Given(w) == {i \in 1 .. n : Taker(i) = w}
      Nth(i)   == q[Len(q) + 1 - i]
  IN  /\ idle'  = SubSeq(id, 1, Len(id) - n)
      /\ queue' = SubSeq(q, 1, Len(q) - n)
      /\ currentTask' = [w \in Workers |->
           IF Given(w) = {} THEN cur[w] ELSE Nth(CHOOSE i \in Given(w) : TRUE)]
      /\ inbox' = [w \in Workers |-> box[w] \cup {Nth(i) : i \in Given(w)}]

\* _drain() over idle stack id and queue q, with currentTask cur and inboxes
\* box: the i-th waiting task goes to the i-th worker from the top.
Drain(id, q, cur, box) ==
  LET n        == Smaller(Len(id), Len(q))
      Taker(i) == id[Len(id) + 1 - i]
      Given(w) == {i \in 1 .. n : Taker(i) = w}
  IN  /\ idle'  = SubSeq(id, 1, Len(id) - n)
      /\ queue' = SubSeq(q, n + 1, Len(q))
      /\ currentTask' = [w \in Workers |->
           IF Given(w) = {} THEN cur[w]
           ELSE q[CHOOSE i \in Given(w) : \A j \in Given(w) : j <= i]]
      /\ inbox' = [w \in Workers |-> box[w] \cup {q[i] : i \in Given(w)}]

\* Fault: the entry stays in pending.
FaultySettle(id, out) ==
  /\ pending'  = pending
  /\ resolved' = [t \in DOMAIN resolved \cup {id} |->
                   IF t = id THEN out ELSE resolved[t]]

\* p.resolve(out) for the task's entry in pending; nothing if it has none.
Settle(id, out) ==
  /\ pending'  = pending \ {id}
  /\ resolved' = IF id \in pending
                 THEN [t \in DOMAIN resolved \cup {id} |->
                         IF t = id THEN out ELSE resolved[t]]
                 ELSE resolved

\* What worker.js posts back: one record per job, a throw caught per job.
Played(id) == [k \in JobsIn(id) |-> Battle(tasks[id].req, k)]

\* What the 'error' handler makes up for the task of a dead worker.
Crashed(id) == [k \in JobsIn(id) |-> "crashed"]

-----------------------------------------------------------------------------
Init ==
  /\ tasks = <<>>
  /\ queue = <<>>
  /\ idle \in {s \in [1 .. Cardinality(Workers) -> Workers] :
                 /\ \A i, j \in DOMAIN s : i # j => s[i] # s[j]
                 /\ \A w \in Workers : \E i \in DOMAIN s : s[i] = w}
  /\ pending = {}
  /\ resolved = [t \in {} |-> {}]
  /\ currentTask = [w \in Workers |-> NoTask]
  /\ state = [w \in Workers |-> "up"]
  /\ inbox = [w \in Workers |-> {}]
  /\ running = [w \in Workers |-> NoTask]
  /\ outbox = [w \in Workers |-> {}]
  /\ closed = FALSE

Called(r) == \E id \in Ids : tasks[id].req = r

\* runJobs(base, jobs): every part is run() before anything else happens.
RunJobs(r) ==
  /\ ~closed
  /\ ~Called(r)
  /\ LET parts == Parts(r)
         ids   == [i \in 1 .. Len(parts) |-> Len(tasks) + i]
     IN  /\ tasks'   = tasks \o parts
         /\ pending' = pending \cup {Len(tasks) + i : i \in 1 .. Len(parts)}
         /\ Drain(idle, queue \o ids, currentTask, inbox)
  /\ UNCHANGED <<resolved, closed, state, running, outbox>>

\* The worker's 'message' event: a task's results.
OnMessage(w, id) ==
  /\ id \in outbox[w]
  /\ outbox' = [outbox EXCEPT ![w] = @ \ {id}]
  /\ Drain(Append(idle, w), queue, [currentTask EXCEPT ![w] = NoTask], inbox)
  /\ Settle(id, Played(id))
  /\ UNCHANGED <<tasks, closed, state, running>>

\* Fault: a dead worker stays on the idle stack.
FaultyWithout(s, w) == s

\* this.idle.filter(x => x !== w), of a stack that names w at most once.
Without(s, w) ==
  IF \E i \in 1 .. Len(s) : s[i] = w
  THEN LET i == CHOOSE j \in 1 .. Len(s) : s[j] = w
       IN  SubSeq(s, 1, i - 1) \o SubSeq(s, i + 1, Len(s))
  ELSE s

\* Fault: the dead worker's task is forgotten.
FaultyFail(w) == UNCHANGED <<pending, resolved>>

\* The dead worker's task, if it has one, gets an error record per job.
Fail(w) == IF currentTask[w] # NoTask
           THEN Settle(currentTask[w], Crashed(currentTask[w]))
           ELSE UNCHANGED <<pending, resolved>>

\* Fault: the new worker is not given a waiting task.
FaultyReplace(w, id, cur, box) ==
  /\ state' = [state EXCEPT ![w] = "up"]
  /\ idle' = Append(id, w)
  /\ currentTask' = cur
  /\ inbox' = box
  /\ UNCHANGED queue

\* Fault: a dead worker is not replaced.
FaultyNoReplace(w, id, cur, box) ==
  /\ state' = [state EXCEPT ![w] = "gone"]
  /\ Drain(id, queue, cur, box)

\* _spawn() in the slot, and _drain().
Replace(w, id, cur, box) ==
  /\ state' = [state EXCEPT ![w] = "up"]
  /\ Drain(Append(id, w), queue, cur, box)

\* The worker's 'error' event: fail its task, replace it unless closed.
OnError(w) ==
  /\ state[w] = "down"
  /\ outbox[w] = {}
  /\ Fail(w)
  /\ LET rest == Without(idle, w)
         cur  == [currentTask EXCEPT ![w] = NoTask]
         box  == [inbox EXCEPT ![w] = {}]
     IN  \/ /\ ~closed
            /\ Replace(w, rest, cur, box)
         \/ /\ closed
            /\ state' = [state EXCEPT ![w] = "gone"]
            /\ idle' = rest
            /\ currentTask' = cur
            /\ inbox' = box
            /\ UNCHANGED queue
  /\ UNCHANGED <<tasks, closed, running, outbox>>

\* close(), as cli.js calls it: its one request has been answered.
Close ==
  /\ ~closed
  /\ pending = {}
  /\ closed' = TRUE
  /\ UNCHANGED <<tasks, queue, idle, pending, resolved, currentTask, threads>>

-----------------------------------------------------------------------------
\* parentPort.on('message'): the worker is handed a task...
Take(w, id) ==
  /\ state[w] = "up"
  /\ running[w] = NoTask
  /\ id \in inbox[w]
  /\ inbox' = [inbox EXCEPT ![w] = @ \ {id}]
  /\ running' = [running EXCEPT ![w] = id]
  /\ UNCHANGED <<pool, state, outbox>>

\* ... plays its jobs and posts their results in one message.
Finish(w) ==
  /\ state[w] = "up"
  /\ running[w] # NoTask
  /\ outbox' = [outbox EXCEPT ![w] = @ \cup {running[w]}]
  /\ running' = [running EXCEPT ![w] = NoTask]
  /\ UNCHANGED <<pool, state, inbox>>

\* The thread dies, idle, loading or in a battle; what it had posted stays.
Crash(w) ==
  /\ state[w] = "up"
  /\ state' = [state EXCEPT ![w] = "down"]
  /\ running' = [running EXCEPT ![w] = NoTask]
  /\ UNCHANGED <<pool, inbox, outbox>>

\* terminate(): the thread stops, and no 'error' is emitted for it.
Terminate(w) ==
  /\ closed
  /\ state[w] = "up"
  /\ state' = [state EXCEPT ![w] = "gone"]
  /\ UNCHANGED <<pool, inbox, running, outbox>>

Next ==
  \/ \E r \in Requests : RunJobs(r)
  \/ \E w \in Workers : \E id \in outbox[w] : OnMessage(w, id)
  \/ \E w \in Workers : OnError(w)
  \/ Close
  \/ \E w \in Workers : \E id \in inbox[w] : Take(w, id)
  \/ \E w \in Workers : Finish(w) \/ Crash(w) \/ Terminate(w)

\* The event loop drains its events; a live worker takes and ends its task
\* (engine.js bounds every battle at 1200 choices).  Nothing makes a worker
\* crash, and nothing keeps one from crashing.
Fairness ==
  \A w \in Workers :
    /\ WF_vars(\E id \in outbox[w] : OnMessage(w, id))
    /\ WF_vars(OnError(w))
    /\ WF_vars(\E id \in inbox[w] : Take(w, id))
    /\ WF_vars(Finish(w))

Spec == Init /\ [][Next]_vars
FairSpec == Spec /\ Fairness
-----------------------------------------------------------------------------
\* What a call has been answered: Promise.all over its parts, flattened and
\* sorted by k, read here as the function from k to the outcome of job k.
Answered(r) == /\ Called(r)
               /\ \A id \in Ids : tasks[id].req = r => id \in DOMAIN resolved

Answer(r) ==
  LET Holding(k) == {t \in Ids : tasks[t].req = r /\ k \in JobsIn(t)}
  IN  [k \in JobsOf(r) |-> resolved[CHOOSE t \in Holding(k) : TRUE][k]]

Held == {currentTask[w] : w \in Workers} \ {NoTask}
Waiting == {queue[i] : i \in 1 .. Len(queue)}

TypeOK ==
  /\ tasks \in Seq([req : Requests, lo : Nat, hi : Nat])
  /\ queue \in Seq(Ids)
  /\ idle \in Seq(Workers)
  /\ pending \subseteq Ids
  /\ DOMAIN resolved = Ids \ pending
  /\ \A id \in DOMAIN resolved :
       resolved[id] \in [JobsIn(id) -> {"played", "threw", "crashed"}]
  /\ currentTask \in [Workers -> Ids \cup {NoTask}]
  /\ state \in [Workers -> {"up", "down", "gone"}]
  /\ inbox \in [Workers -> SUBSET Ids]
  /\ running \in [Workers -> Ids \cup {NoTask}]
  /\ outbox \in [Workers -> SUBSET Ids]
  /\ closed \in BOOLEAN

\* No task is lost and none is given out twice: every unresolved task waits
\* at exactly one place of the queue, or is held by exactly one worker, also
\* while a worker is dead and its 'error' not yet handled.
TaskHeldOnce ==
  /\ pending = Waiting \cup Held
  /\ Waiting \cap Held = {}
  /\ \A i, j \in 1 .. Len(queue) : i # j => queue[i] # queue[j]
  /\ \A w, v \in Workers :
       w # v /\ currentTask[w] # NoTask => currentTask[w] # currentTask[v]

\* No handler leaves a worker idle while a task waits, so cores stay busy.
WorkConserving == idle = <<>> \/ queue = <<>>

\* The idle stack names each worker once, and exactly the workers without a
\* task: a busy worker is never given a second one.
IdleIsFree ==
  /\ \A i, j \in 1 .. Len(idle) : i # j => idle[i] # idle[j]
  /\ \A w \in Workers : state[w] # "gone" =>
       ((\E i \in 1 .. Len(idle) : idle[i] = w) <=> currentTask[w] = NoTask)

\* The thread side agrees with the main thread's book-keeping: a live
\* worker's task is at one place, its inbox, its hands or its outbox, and a
\* thread without a task has nothing to take or to report.
OneTaskInFlight ==
  \A w \in Workers :
    LET near == inbox[w] \cup outbox[w] \cup ({running[w]} \ {NoTask})
    IN  /\ near \subseteq {currentTask[w]} \ {NoTask}
        /\ state[w] = "up" => near = {currentTask[w]} \ {NoTask}
        /\ inbox[w] \cap outbox[w] = {}
        /\ running[w] \notin inbox[w] \cup outbox[w]

\* Main thread and threads never disagree on who does what: no worker is given
\* a second task, none is idle with one, and no thread holds what it was not given.
BookKeeping == IdleIsFree /\ OneTaskInFlight

\* Tasks are given out in the order they were asked for: those that wait
\* are the most recent ones, oldest first, whatever crashed meanwhile.
OldestFirst ==
  \A i \in 1 .. Len(queue) : queue[i] = Len(tasks) - Len(queue) + i

\* The pool is the service its callers take it for: every call is answered,
\* however often workers crash, once, with an outcome for each of its jobs that
\* is the job's own.
Service == INSTANCE JobService WITH
  asked  <- {r \in Requests : Called(r)},
  answer <- [r \in {s \in Requests : Answered(s)} |-> Answer(r)]

IsJobService == Service!Spec
=============================================================================
