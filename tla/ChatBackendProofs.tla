------------------------- MODULE ChatBackendProofs -------------------------
(***************************************************************************)
(* Proofs about the chat backend (docker/chat/main.py): the tool-calling   *)
(* loop of ChatTurn, for any set of tool calls, any budget, cap and context*)
(* size, the one session of McpSession, for any number of chats, attempts  *)
(* and restarts, and the requests of ModelRouting, for any models and      *)
(* price rules.                                                            *)
(*                                                                         *)
(* The argument about the loop is about the two dictionaries of a turn: a  *)
(* signature is marked in seen_calls by the very step that sends it to     *)
(* champions-mcp, whatever comes back.                                     *)
(***************************************************************************)
EXTENDS ChatTurn, McpSession, ModelRouting

\* What an assistant message leaves to run, and who asked for what so far.
LoopInv ==
  /\ seen \in [Calls -> Nat]
  /\ fetched \in [Calls -> Nat]
  /\ todo \in Seq(Calls)
  /\ pc = "tools" => todo # <<>>
  /\ \A c \in Calls : fetched[c] = IF seen[c] > 0 THEN 1 ELSE 0

\* A chat starts with nothing seen and nothing fetched.
LEMMA LoopInit == Init => LoopInv
  BY DEF Init, LoopInv

\* The tool calls of one assistant message are a non-empty sequence.
LEMMA CallListsAreCalls ==
  ASSUME NEW calls \in CallLists
  PROVE  calls \in Seq(Calls) /\ calls # <<>>
<1>1. PICK k \in 1 .. MaxParallel : calls \in [1 .. k -> Calls]
  BY DEF CallLists
<1>2. k \in Nat /\ 1 \in 1 .. k
  BY <1>1, CapAssumption
<1>3. calls \in Seq(Calls) /\ Len(calls) = k
  BY <1>1, <1>2
<1> QED
  BY <1>2, <1>3

\* Going on to the next call keeps what is left a sequence of calls, and
\* leaves "tools" once nothing is left.
LEMMA OnwardKeepsTodo ==
  ASSUME LoopInv, pc = "tools", NEW ms, NEW new, NEW cap, Onward(ms, new, cap)
  PROVE  todo' \in Seq(Calls) /\ (pc' = "tools" => todo' # <<>>)
<1>1. todo \in Seq(Calls) /\ todo # <<>>
  BY DEF LoopInv
<1>2. todo' = Tail(todo) /\ (pc' = "tools" => Len(todo) > 1)
  BY DEF Onward
<1>3. Tail(todo) \in Seq(Calls) /\ Len(Tail(todo)) = Len(todo) - 1
  BY <1>1
<1>4. Len(todo) > 1 => Len(Tail(todo)) > 0
  BY <1>1, <1>3
<1>5. Len(todo) > 1 => Tail(todo) # <<>>
  <2>1. Len(<<>>) = 0
    BY EmptySeq
  <2>2. ~(0 > 0)
    OBVIOUS
  <2> QED
    BY <1>4, <2>1, <2>2, Zenon
<1> QED
  BY <1>2, <1>3, <1>5

\* Each step keeps the dictionaries in step with what was fetched.
LEMMA LoopNext == LoopInv /\ [Next]_vars => LoopInv'
<1> SUFFICES ASSUME LoopInv, [Next]_vars PROVE LoopInv'
  OBVIOUS
<1>1. pc = "tools" => Head(todo) \in Calls
  BY DEF LoopInv
<1>2. CASE Send
  BY <1>2 DEF Send, turn, LoopInv
<1>3. CASE Start
  BY <1>3 DEF Start, LoopInv
<1>4. CASE Answer
  BY <1>4 DEF Answer, turn, LoopInv
<1>5. CASE AskTools
  <2>1. PICK calls \in CallLists : todo' = calls
    BY <1>5 DEF AskTools
  <2> QED
    BY <1>5, <2>1, CallListsAreCalls DEF AskTools, LoopInv
<1>6. CASE Fetch
  <2>1. todo' \in Seq(Calls) /\ (pc' = "tools" => todo' # <<>>)
    BY <1>6, OnwardKeepsTodo DEF Fetch
  <2>2. /\ pc = "tools" /\ seen[Head(todo)] = 0
        /\ seen' = [seen EXCEPT ![Head(todo)] = 1]
        /\ fetched' = [fetched EXCEPT ![Head(todo)] = @ + 1]
    BY <1>6 DEF Fetch
  <2> QED
    BY <1>1, <2>1, <2>2 DEF LoopInv
<1>7. CASE Recall \/ Refuse
  <2>1. todo' \in Seq(Calls) /\ (pc' = "tools" => todo' # <<>>)
    BY <1>7, OnwardKeepsTodo DEF Recall, Refuse
  <2>2. /\ pc = "tools" /\ seen[Head(todo)] > 0 /\ fetched' = fetched
        /\ seen' = [seen EXCEPT ![Head(todo)] = @ + 1]
    BY <1>7 DEF Recall, Refuse
  <2> QED
    BY <1>1, <2>1, <2>2 DEF LoopInv
<1>8. CASE Receive
  BY <1>8 DEF Receive, turn, LoopInv
<1>9. CASE Fail
  BY <1>9 DEF Fail, turn, LoopInv
<1>10. CASE UNCHANGED vars
  BY <1>10 DEF vars, turn, LoopInv
<1> QED
  BY <1>2, <1>3, <1>4, <1>5, <1>6, <1>7, <1>8, <1>9, <1>10 DEF Next

\* However often the model repeats a call within a turn, and however it
\* batches its calls, champions-mcp is asked for it at most once.
THEOREM ChatFetchedOnce == Spec => []FetchedOnce
<1>1. LoopInv => FetchedOnce
  BY DEF LoopInv, FetchedOnce
<1> QED
  BY <1>1, LoopInit, LoopNext, PTL DEF Spec

-----------------------------------------------------------------------------
(* Types.                                                                   *)

\* The messages the loop makes, and what they say.
LEMMA MessagesMade ==
  /\ \A role \in {"system", "user", "assistant", "tool"} :
       Plain(role) \in Messages /\ Plain(role).role = role /\ Plain(role).calls = <<>>
         /\ Plain(role).result = "none"
  /\ \A calls \in CallLists :
       /\ AsksFor(calls) \in Messages /\ AsksFor(calls).role = "assistant"
       /\ AsksFor(calls).calls = calls /\ AsksFor(calls).result = "none"
  /\ \A c \in Calls, r \in {"none", "ok", "error", "refused"} :
       /\ Result(c, r) \in Messages /\ Result(c, r).role = "tool"
       /\ Result(c, r).calls = <<>> /\ Result(c, r).call = c /\ Result(c, r).result = r
  /\ Nudge \in Messages /\ Nudge.role = "user" /\ Nudge.calls = <<>>
  /\ Nudge.result = "nudge"
<1>1. Warning \in Nat
  BY BudgetAssumption
<1>2. 0 \in 0 .. Warning
  BY <1>1
<1> QED
  BY <1>2 DEF Plain, AsksFor, Result, Nudge, Messages

\* What is left of an assistant's calls is again such a list, or nothing.
LEMMA CallListsTail ==
  ASSUME NEW calls \in CallLists
  PROVE  Tail(calls) \in CallLists \cup {<<>>}
<1>1. PICK k \in 1 .. MaxParallel : calls \in [1 .. k -> Calls]
  BY DEF CallLists
<1>2. k \in Nat /\ k >= 1 /\ MaxParallel \in Nat
  BY <1>1, CapAssumption
<1>3. calls \in Seq(Calls) /\ Len(calls) = k
  BY <1>1, <1>2
<1>4. Tail(calls) \in Seq(Calls) /\ Len(Tail(calls)) = k - 1
  BY <1>2, <1>3
<1>5. CASE k = 1
  <2>1. Len(Tail(calls)) = 0
    BY <1>4, <1>5
  <2>2. Tail(calls) = <<>>
    BY <1>4, <2>1, EmptySeq
  <2> QED
    BY <2>2
<1>6. CASE k > 1
  <2>1. Tail(calls) \in [1 .. k - 1 -> Calls] /\ k - 1 \in 1 .. MaxParallel
    <3>1. Tail(calls) \in [1 .. Len(Tail(calls)) -> Calls]
      BY <1>4, LenProperties
    <3> QED
      BY <1>2, <1>4, <1>6, <3>1
  <2> QED
    BY <2>1 DEF CallLists
<1> QED
  BY <1>2, <1>5, <1>6

\* The budget note changes nothing but what the last message says is left.
LEMMA NotedFacts ==
  ASSUME NEW ms \in Seq(Messages), ms # <<>>, NEW left \in Nat
  PROVE  /\ Noted(ms, left) \in Seq(Messages) /\ Len(Noted(ms, left)) = Len(ms)
         /\ Len(ms) \in Nat /\ Len(ms) >= 1
         /\ \A i \in 1 .. Len(ms) - 1 : Noted(ms, left)[i] = ms[i]
         /\ Noted(ms, left)[Len(ms)] \in
              {ms[Len(ms)], [ms[Len(ms)] EXCEPT !.left = left]}
         /\ 0 < left /\ left <= Warning => Noted(ms, left)[Len(ms)].left = left
<1>1. Len(ms) \in Nat /\ Len(ms) >= 1 /\ ms[Len(ms)] \in Messages /\ Warning \in Nat
  BY BudgetAssumption
<1>2. CASE 0 < left /\ left <= Warning
  <2> DEFINE m == [ms[Len(ms)] EXCEPT !.left = left]
  <2>1. m \in Messages /\ m.left = left
    BY <1>1, <1>2 DEF Messages
  <2> HIDE DEF m
  <2>2. Noted(ms, left) = [ms EXCEPT ![Len(ms)] = m]
    BY <1>2 DEF Noted, m
  <2>3. /\ [ms EXCEPT ![Len(ms)] = m] \in Seq(Messages)
        /\ Len([ms EXCEPT ![Len(ms)] = m]) = Len(ms)
        /\ [ms EXCEPT ![Len(ms)] = m][Len(ms)] = m
        /\ \A i \in 1 .. Len(ms) - 1 : [ms EXCEPT ![Len(ms)] = m][i] = ms[i]
    BY <1>1, <2>1, ExceptSeq
  <2> QED
    BY <1>1, <2>1, <2>2, <2>3 DEF m
<1>3. CASE ~(0 < left /\ left <= Warning)
  BY <1>1, <1>3 DEF Noted
<1> QED
  BY <1>2, <1>3

\* The messages after the first t, and what a longer list has there.
LEMMA AfterFacts ==
  ASSUME NEW ms \in Seq(Messages), NEW t \in 0 .. Len(ms)
  PROVE  /\ SubSeq(ms, t + 1, Len(ms)) \in Seq(Messages)
         /\ Len(SubSeq(ms, t + 1, Len(ms))) = Len(ms) - t
         /\ \A i \in 1 .. Len(ms) - t : SubSeq(ms, t + 1, Len(ms))[i] = ms[t + i]
<1>1. Len(ms) \in Nat /\ t \in Nat /\ t <= Len(ms)
  OBVIOUS
<1>2. \A i \in t + 1 .. Len(ms) : ms[i] \in Messages
  <2> TAKE i \in t + 1 .. Len(ms)
  <2>1. i \in 1 .. Len(ms)
    BY <1>1
  <2> QED
    BY <2>1
<1> DEFINE after == SubSeq(ms, t + 1, Len(ms))
<1>3. after = [i \in 1 .. Len(ms) - t |-> ms[t + i]]
  BY <1>1
<1>4. \A i \in 1 .. Len(ms) - t : ms[t + i] \in Messages
  BY <1>1, <1>2
<1>5. Len(ms) - t \in Nat
  BY <1>1
<1> DEFINE n == Len(ms) - t
<1> HIDE DEF n
<1>6. n \in Nat /\ [i \in 1 .. n |-> ms[t + i]] \in Seq(Messages)
  BY <1>4, <1>5 DEF n
<1>7. Len([i \in 1 .. n |-> ms[t + i]]) = n
  BY <1>6
<1> QED
  BY <1>3, <1>6, <1>7 DEF n

LEMMA AfterAppend ==
  ASSUME NEW ms \in Seq(Messages), NEW t \in 0 .. Len(ms), NEW m \in Messages
  PROVE  /\ Append(ms, m) \in Seq(Messages) /\ Len(Append(ms, m)) = Len(ms) + 1
         /\ t \in 0 .. Len(Append(ms, m)) /\ Append(ms, m) # <<>>
         /\ SubSeq(Append(ms, m), t + 1, Len(Append(ms, m)))
              = Append(SubSeq(ms, t + 1, Len(ms)), m)
<1>1. /\ Append(ms, m) \in Seq(Messages) /\ Len(Append(ms, m)) = Len(ms) + 1
      /\ Append(ms, m) # <<>> /\ t \in 0 .. Len(Append(ms, m)) /\ Len(ms) \in Nat
      /\ \A i \in 1 .. Len(ms) : Append(ms, m)[i] = ms[i]
      /\ Append(ms, m)[Len(ms) + 1] = m /\ t \in Nat
  OBVIOUS
<1> DEFINE a == SubSeq(ms, t + 1, Len(ms))
           b == SubSeq(Append(ms, m), t + 1, Len(Append(ms, m)))
<1>2. /\ a \in Seq(Messages) /\ Len(a) = Len(ms) - t
      /\ \A i \in 1 .. Len(ms) - t : a[i] = ms[t + i]
  BY AfterFacts
<1>3. /\ b \in Seq(Messages) /\ Len(b) = Len(ms) + 1 - t
      /\ \A i \in 1 .. Len(ms) + 1 - t : b[i] = Append(ms, m)[t + i]
  <2> DEFINE w == Append(ms, m)
  <2>1. w \in Seq(Messages) /\ t \in 0 .. Len(w) /\ Len(w) = Len(ms) + 1
    BY <1>1
  <2> HIDE DEF w
  <2>2. /\ SubSeq(w, t + 1, Len(w)) \in Seq(Messages)
        /\ Len(SubSeq(w, t + 1, Len(w))) = Len(w) - t
        /\ \A i \in 1 .. Len(w) - t : SubSeq(w, t + 1, Len(w))[i] = w[t + i]
    BY <2>1, AfterFacts
  <2> QED
    BY <2>1, <2>2 DEF w
<1> HIDE DEF a, b
<1>4. Append(a, m) \in Seq(Messages) /\ Len(Append(a, m)) = Len(b)
  BY <1>1, <1>2, <1>3
<1>5. ASSUME NEW i \in 1 .. Len(b) PROVE b[i] = Append(a, m)[i]
  <2>1. i \in Nat /\ i >= 1 /\ i <= Len(ms) + 1 - t
    BY <1>1, <1>3, <1>5
  <2>2. CASE i = Len(ms) + 1 - t
    <3>1. t + i = Len(ms) + 1 /\ i = Len(a) + 1
      BY <1>1, <1>2, <2>2
    <3>2. Append(a, m)[Len(a) + 1] = m
      <4>1. \A s \in Seq(Messages) : Append(s, m)[Len(s) + 1] = m
        OBVIOUS
      <4> QED BY <1>2, <4>1
    <3> QED
      BY <1>1, <1>3, <2>1, <3>1, <3>2
  <2>3. CASE i # Len(ms) + 1 - t
    <3>1. i <= Len(ms) - t /\ t + i <= Len(ms) /\ t + i >= 1 /\ t + i \in Nat
      BY <1>1, <2>1, <2>3
    <3>2. i \in 1 .. Len(a) /\ i \in 1 .. Len(ms) - t /\ t + i \in 1 .. Len(ms)
      BY <1>1, <1>2, <2>1, <3>1
    <3>3. Append(a, m)[i] = a[i]
      BY <1>2, <3>2
    <3> QED
      BY <1>1, <1>2, <1>3, <2>1, <3>2, <3>3
  <2> QED
    BY <2>2, <2>3
<1>6. b = Append(a, m)
  BY <1>3, <1>4, <1>5, SeqEqual
<1> QED
  BY <1>1, <1>6 DEF a, b

-----------------------------------------------------------------------------
(* What a result does to this turn's chain.                                 *)

\* b says what a says, but for budget notes, and then nothing about calls.
Like(a, b) ==
  /\ Len(a) <= Len(b)
  /\ \A i \in 1 .. Len(a) :
       /\ b[i].role = a[i].role /\ b[i].calls = a[i].calls
       /\ b[i].call = a[i].call /\ b[i].result = a[i].result
  /\ \A i \in Len(a) + 1 .. Len(b) : b[i].role # "tool" /\ b[i].calls = <<>>

LEMMA LikeSame == ASSUME NEW a \in Seq(Messages) PROVE Like(a, a)
  BY DEF Like

LEMMA LikeAppend ==
  ASSUME NEW a \in Seq(Messages), NEW m \in Messages, m.role # "tool", m.calls = <<>>
  PROVE  Like(a, Append(a, m))
<1>1. /\ Len(a) \in Nat /\ Len(Append(a, m)) = Len(a) + 1
      /\ \A i \in 1 .. Len(a) : Append(a, m)[i] = a[i]
      /\ Append(a, m)[Len(a) + 1] = m
  OBVIOUS
<1>2. \A i \in Len(a) + 1 .. Len(a) + 1 : i = Len(a) + 1
  BY <1>1
<1> QED
  BY <1>1, <1>2 DEF Like

LEMMA LikeNoted ==
  ASSUME NEW a \in Seq(Messages), a # <<>>, NEW left \in Nat
  PROVE  Like(a, Noted(a, left))
<1> DEFINE b == Noted(a, left)
<1>1. /\ Len(b) = Len(a) /\ Len(a) \in Nat /\ Len(a) >= 1
      /\ \A i \in 1 .. Len(a) - 1 : b[i] = a[i]
      /\ b[Len(a)] \in {a[Len(a)], [a[Len(a)] EXCEPT !.left = left]}
  BY NotedFacts
<1> HIDE DEF b
<1>2. ASSUME NEW i \in 1 .. Len(a)
      PROVE  /\ b[i].role = a[i].role /\ b[i].calls = a[i].calls
             /\ b[i].call = a[i].call /\ b[i].result = a[i].result
  <2>1. CASE i # Len(a)
    BY <1>1, <1>2, <2>1
  <2>2. CASE i = Len(a)
    <3>1. a[Len(a)] \in Messages
      BY <1>1
    <3>2. b[i] \in {a[i], [a[i] EXCEPT !.left = left]} /\ a[i] \in Messages
      BY <1>1, <2>2, <3>1
    <3> QED
      BY <3>2 DEF Messages
  <2> QED
    BY <2>1, <2>2
<1>3. \A i \in Len(a) + 1 .. Len(b) : FALSE
  BY <1>1
<1>4. Len(a) <= Len(b)
  BY <1>1
<1>5. Like(a, b)
  BY <1>2, <1>3, <1>4 DEF Like
<1> QED
  BY <1>5 DEF b

\* The note goes to the chain of the turn as it goes to the messages.
LEMMA AfterNoted ==
  ASSUME NEW ms \in Seq(Messages), NEW t \in 0 .. Len(ms), t < Len(ms), NEW left \in Nat
  PROVE  SubSeq(Noted(ms, left), t + 1, Len(Noted(ms, left)))
           = Noted(SubSeq(ms, t + 1, Len(ms)), left)
<1>1. Len(ms) \in Nat /\ t \in Nat /\ Len(ms) >= 1 /\ ms # <<>>
  OBVIOUS
<1> DEFINE n == Noted(ms, left)
           a == SubSeq(ms, t + 1, Len(ms))
           b == SubSeq(n, t + 1, Len(n))
<1>2. /\ n \in Seq(Messages) /\ Len(n) = Len(ms)
      /\ \A i \in 1 .. Len(ms) - 1 : n[i] = ms[i]
  BY <1>1, NotedFacts
<1>3. /\ a \in Seq(Messages) /\ Len(a) = Len(ms) - t
      /\ \A i \in 1 .. Len(ms) - t : a[i] = ms[t + i]
  BY AfterFacts
<1>4. n[Len(ms)] = IF 0 < left /\ left <= Warning
                   THEN [ms[Len(ms)] EXCEPT !.left = left] ELSE ms[Len(ms)]
  <2>1. CASE 0 < left /\ left <= Warning
    BY <1>1, <2>1 DEF Noted
  <2>2. CASE ~(0 < left /\ left <= Warning)
    BY <2>2 DEF Noted
  <2> QED
    BY <2>1, <2>2
<1> HIDE DEF n
<1>5. t \in 0 .. Len(n)
  BY <1>2
<1>6. /\ b \in Seq(Messages) /\ Len(b) = Len(ms) - t
      /\ \A i \in 1 .. Len(ms) - t : b[i] = n[t + i]
  BY <1>2, <1>5, AfterFacts
<1> HIDE DEF a, b
<1>7. a # <<>> /\ Len(a) >= 1
  BY <1>1, <1>3
<1>8. /\ Noted(a, left) \in Seq(Messages) /\ Len(Noted(a, left)) = Len(a)
      /\ \A i \in 1 .. Len(a) - 1 : Noted(a, left)[i] = a[i]
  BY <1>3, <1>7, NotedFacts
<1>9. Noted(a, left)[Len(a)] = IF 0 < left /\ left <= Warning
                               THEN [a[Len(a)] EXCEPT !.left = left] ELSE a[Len(a)]
  <2>1. CASE 0 < left /\ left <= Warning
    BY <1>3, <1>7, <2>1 DEF Noted
  <2>2. CASE ~(0 < left /\ left <= Warning)
    BY <2>2 DEF Noted
  <2> QED
    BY <2>1, <2>2
<1>10. ASSUME NEW i \in 1 .. Len(b) PROVE b[i] = Noted(a, left)[i]
  <2>1. i \in Nat /\ i \in 1 .. Len(ms) - t
    BY <1>6, <1>10
  <2>2. b[i] = n[t + i] /\ a[i] = ms[t + i]
    BY <2>1, <1>3, <1>6
  <2>3. CASE i = Len(a)
    <3>1. t + i = Len(ms)
      BY <1>1, <1>3, <2>3
    <3> QED
      BY <1>4, <1>9, <2>2, <2>3, <3>1
  <2>4. CASE i # Len(a)
    <3> DEFINE k == Len(ms) - t
    <3>0. k \in Int /\ i \in 1 .. k /\ i # k
      BY <1>1, <1>3, <2>1, <2>4
    <3>1. i >= 1 /\ i <= k - 1
      <4> HIDE DEF k
      <4> QED
        BY <2>1, <3>0
    <3>2. i \in 1 .. Len(a) - 1
      BY <1>1, <1>3, <2>1, <3>1
    <3>3. t + i \in Nat /\ t + i >= 1 /\ t + i <= Len(ms) - 1
      BY <1>1, <2>1, <3>1
    <3>4. t + i \in 1 .. Len(ms) - 1
      BY <1>1, <3>3
    <3> QED
      BY <1>2, <1>8, <2>2, <3>2, <3>4
  <2> QED
    BY <2>3, <2>4
<1>11. Len(b) = Len(Noted(a, left))
  BY <1>3, <1>6, <1>8
<1>12. b = Noted(a, left)
  BY <1>6, <1>8, <1>10, <1>11, SeqEqual
<1> QED
  BY <1>12 DEF a, b, n

\* What a type-correct state is, and what the steps need of one: the question
\* of a turn under way is in the history, and there is a round left to take.
TypeInv ==
  /\ TypeOK
  /\ pc \in {"ask", "tools"} => rounds < budget
  /\ pc = "tools" => todo # <<>>
  /\ pc # "idle" => history # <<>> /\ history[Len(history)] = Plain("user")

\* Where the turn is with a result in ch: in the round, after it, or told to
\* answer.
Goes(ch, new, cap) ==
  \/ pc' = "tools" /\ todo' # <<>> /\ rounds' = rounds /\ Chain' = ch
  \/ /\ pc' = "ask" /\ todo' = <<>> /\ rounds' < budget /\ ~(cap /\ ~new)
     /\ Chain' = Noted(ch, budget - rounds')
     /\ budget - rounds' <= Warning => messages'[Len(messages')].left = budget - rounds'
  \/ /\ pc' = "wrapup" /\ todo' = <<>> /\ ((cap /\ ~new) \/ rounds' = budget)
     /\ Chain' = Append(ch, Nudge)

\* A result extends this turn's chain, and nothing before it.
LEMMA OnwardEffect ==
  ASSUME TypeInv, pc = "tools", NEW res \in Messages,
         NEW new \in BOOLEAN, NEW cap \in BOOLEAN,
         Onward(Append(messages, res), new, cap),
         turnStart' = turnStart, budget' = budget
  PROVE  /\ Goes(Append(Chain, res), new, cap)
         /\ Like(Append(Chain, res), Chain')
         /\ messages' \in Seq(Messages) /\ Len(messages) < Len(messages')
         /\ \A i \in 1 .. Len(messages) : messages'[i] = messages[i]
         /\ todo' \in CallLists \cup {<<>>} /\ todo' = Tail(todo)
         /\ rounds' \in 0 .. budget /\ fresh' = new /\ capped' = cap
<1> DEFINE ms == Append(messages, res)
           done == rounds + 1
           ch == Append(Chain, res)
<1>1. /\ messages \in Seq(Messages) /\ turnStart \in 0 .. Len(messages)
      /\ budget \in Nat /\ rounds \in 0 .. budget /\ rounds < budget
      /\ todo \in CallLists /\ todo # <<>> /\ Len(messages) \in Nat
  BY DEF TypeInv, TypeOK
<1>2. Tail(todo) \in CallLists \cup {<<>>} /\ todo \in Seq(Calls)
  BY <1>1, CallListsTail, CallListsAreCalls
<1>3. /\ Len(todo) \in Nat /\ Len(todo) >= 1 /\ Len(Tail(todo)) = Len(todo) - 1
      /\ Tail(todo) \in Seq(Calls)
  BY <1>1, <1>2
<1>4. /\ Chain \in Seq(Messages) /\ ch \in Seq(Messages) /\ ch # <<>>
  <2>1. Chain \in Seq(Messages)
    BY <1>1, AfterFacts DEF Chain
  <2> QED
    BY <2>1
<1>5. /\ ms \in Seq(Messages) /\ Len(ms) = Len(messages) + 1 /\ ms # <<>>
      /\ turnStart \in 0 .. Len(ms) /\ turnStart < Len(ms)
      /\ \A i \in 1 .. Len(messages) : ms[i] = messages[i]
      /\ SubSeq(ms, turnStart + 1, Len(ms)) = ch
  <2>1. /\ ms \in Seq(Messages) /\ Len(ms) = Len(messages) + 1 /\ ms # <<>>
        /\ turnStart \in 0 .. Len(ms)
        /\ SubSeq(ms, turnStart + 1, Len(ms)) = ch
    BY <1>1, AfterAppend DEF Chain
  <2>2. turnStart < Len(ms)
    BY <1>1, <2>1
  <2>3. \A i \in 1 .. Len(messages) : ms[i] = messages[i]
    BY <1>1
  <2> QED
    BY <2>1, <2>2, <2>3
<1>6. done \in Nat /\ done <= budget /\ budget - done \in Nat
  BY <1>1
<1> HIDE DEF ms, done, ch
<1>7. /\ fresh' = new /\ capped' = cap /\ todo' = Tail(todo)
      /\ rounds' = IF Len(todo) = 1 THEN done ELSE rounds
      /\ IF Len(todo) > 1 THEN pc' = "tools" /\ messages' = ms
         ELSE IF (cap /\ ~new) \/ done = budget
              THEN pc' = "wrapup" /\ messages' = Append(ms, Nudge)
              ELSE pc' = "ask" /\ messages' = Noted(ms, budget - done)
  BY DEF Onward, ms, done
<1>8. Chain' = SubSeq(messages', turnStart + 1, Len(messages'))
  BY DEF Chain
<1>9. rounds' \in 0 .. budget
  BY <1>1, <1>6, <1>7
<1> DEFINE Rest ==
         /\ messages' \in Seq(Messages) /\ Len(messages) < Len(messages')
         /\ \A i \in 1 .. Len(messages) : messages'[i] = messages[i]
<1>10. CASE Len(todo) > 1
  <2>1. pc' = "tools" /\ messages' = ms /\ rounds' = rounds /\ Chain' = ch
    <3>1. Len(todo) # 1
      BY <1>3, <1>10
    <3> QED
      BY <1>5, <1>7, <1>8, <1>10, <3>1
  <2>2. Tail(todo) # <<>>
    <3>1. Len(Tail(todo)) # 0
      BY <1>3, <1>10
    <3> QED
      BY <3>1, EmptySeq, Zenon
  <2>3. Goes(ch, new, cap)
    BY <1>7, <2>1, <2>2 DEF Goes
  <2>4. Like(ch, Chain')
    BY <1>4, <2>1, LikeSame
  <2>5. Rest
    BY <1>1, <1>5, <2>1
  <2> QED
    BY <1>2, <1>7, <1>9, <2>3, <2>4, <2>5 DEF ch
<1>11. CASE ~(Len(todo) > 1)
  <2>1. Len(todo) = 1 /\ rounds' = done
    BY <1>3, <1>7, <1>11
  <2>2. todo' = <<>>
    <3>1. Len(Tail(todo)) = 0
      BY <1>3, <2>1
    <3> QED
      BY <1>3, <1>7, <3>1, EmptySeq
  <2>3. CASE (cap /\ ~new) \/ done = budget
    <3>1. pc' = "wrapup" /\ messages' = Append(ms, Nudge)
      BY <1>7, <1>11, <2>3
    <3>2. /\ Chain' = Append(ch, Nudge) /\ messages' \in Seq(Messages)
          /\ Len(messages') = Len(ms) + 1
      BY <1>5, <1>8, <3>1, AfterAppend, MessagesMade
    <3>3. Goes(ch, new, cap)
      BY <2>1, <2>2, <2>3, <3>1, <3>2 DEF Goes
    <3>4. Like(ch, Chain')
      BY <1>4, <3>2, LikeAppend, MessagesMade
    <3>5. \A i \in 1 .. Len(messages) : messages'[i] = messages[i]
      <4>1. \A i \in 1 .. Len(ms) : messages'[i] = ms[i]
        BY <1>5, <3>1, MessagesMade
      <4> QED
        BY <1>1, <1>5, <4>1
    <3>6. Rest
      BY <1>1, <1>5, <3>2, <3>5
    <3> QED
      BY <1>2, <1>7, <1>9, <3>3, <3>4, <3>6 DEF ch
  <2>4. CASE ~((cap /\ ~new) \/ done = budget)
    <3>1. pc' = "ask" /\ messages' = Noted(ms, budget - done)
      BY <1>7, <1>11, <2>4
    <3>2. done < budget /\ budget - done > 0 /\ budget - done \in Nat
      BY <1>1, <1>6, <2>4
    <3>3. /\ messages' \in Seq(Messages) /\ Len(messages') = Len(ms)
          /\ \A i \in 1 .. Len(ms) - 1 : messages'[i] = ms[i]
          /\ budget - done <= Warning => messages'[Len(ms)].left = budget - done
      BY <1>5, <3>1, <3>2, NotedFacts
    <3>4. Chain' = Noted(ch, budget - done)
      BY <1>5, <1>8, <3>1, <3>2, AfterNoted
    <3>5. Goes(ch, new, cap)
      BY <2>1, <2>2, <2>4, <3>1, <3>2, <3>3, <3>4 DEF Goes
    <3>6. Like(ch, Chain')
      BY <1>4, <3>2, <3>4, LikeNoted
    <3>7. Rest
      BY <1>1, <1>5, <3>3
    <3> QED
      BY <1>2, <1>7, <1>9, <3>5, <3>6, <3>7 DEF ch
  <2> QED
    BY <2>3, <2>4
<1> QED
  BY <1>10, <1>11

\* What the next call is answered with, and what it leaves in the two
\* dictionaries: fetched, recalled or refused.
Answered(c, r, new, cap) ==
  \/ /\ seen[c] = 0 /\ r \in {"ok", "error"} /\ new = TRUE /\ cap = capped
     /\ seen' = [seen EXCEPT ![c] = 1] /\ cache' = [cache EXCEPT ![c] = r]
  \/ /\ seen[c] > 0 /\ seen[c] + 1 < RepeatCap /\ r = cache[c] /\ new = fresh /\ cap = capped
     /\ seen' = [seen EXCEPT ![c] = @ + 1] /\ cache' = cache
  \/ /\ seen[c] > 0 /\ seen[c] + 1 >= RepeatCap /\ r = "refused" /\ new = fresh /\ cap = TRUE
     /\ seen' = [seen EXCEPT ![c] = @ + 1] /\ cache' = cache

\* A tool call's step, whichever it is.
LEMMA ToolStep ==
  ASSUME TypeInv, Fetch \/ Recall \/ Refuse
  PROVE  /\ pc = "tools" /\ Head(todo) \in Calls
         /\ UNCHANGED <<history, turnStart, budget, reply, turns>>
         /\ seen' \in [Calls -> Nat] /\ fetched' \in [Calls -> Nat]
         /\ cache' \in [Calls -> {"none", "ok", "error"}]
         /\ \E r \in {"none", "ok", "error", "refused"}, new \in BOOLEAN, cap \in BOOLEAN :
              /\ Result(Head(todo), r) \in Messages
              /\ Onward(Append(messages, Result(Head(todo), r)), new, cap)
              /\ Answered(Head(todo), r, new, cap)
<1> DEFINE c == Head(todo)
<1>1. pc = "tools"
  BY DEF Fetch, Recall, Refuse
<1>2. /\ todo \in CallLists /\ todo # <<>> /\ seen \in [Calls -> Nat]
      /\ fetched \in [Calls -> Nat] /\ cache \in [Calls -> {"none", "ok", "error"}]
      /\ fresh \in BOOLEAN /\ capped \in BOOLEAN
  BY <1>1 DEF TypeInv, TypeOK
<1>3. c \in Calls
  BY <1>2, CallListsAreCalls
<1>4. \A r \in {"none", "ok", "error", "refused"} : Result(c, r) \in Messages
  BY <1>3, MessagesMade
<1> HIDE DEF c
<1>5. CASE Fetch
  <2>1. PICK r \in {"ok", "error"} :
          /\ seen[c] = 0 /\ seen' = [seen EXCEPT ![c] = 1]
          /\ cache' = [cache EXCEPT ![c] = r]
          /\ fetched' = [fetched EXCEPT ![c] = @ + 1]
          /\ Onward(Append(messages, Result(c, r)), TRUE, capped)
    BY <1>5 DEF Fetch, c
  <2>2. Answered(c, r, TRUE, capped)
    BY <2>1 DEF Answered
  <2>3. /\ seen' \in [Calls -> Nat] /\ fetched' \in [Calls -> Nat]
        /\ cache' \in [Calls -> {"none", "ok", "error"}]
    BY <1>2, <1>3, <2>1
  <2>4. UNCHANGED <<history, turnStart, budget, reply, turns>>
    BY <1>5 DEF Fetch
  <2> QED
    BY <1>1, <1>2, <1>3, <1>4, <2>1, <2>2, <2>3, <2>4 DEF c
<1>6. CASE Recall
  <2>1. /\ seen[c] > 0 /\ seen[c] + 1 < RepeatCap /\ seen' = [seen EXCEPT ![c] = @ + 1]
        /\ cache' = cache /\ fetched' = fetched
        /\ Onward(Append(messages, Result(c, cache[c])), fresh, capped)
        /\ UNCHANGED <<history, turnStart, budget, reply, turns>>
    BY <1>6 DEF Recall, c
  <2>2. Answered(c, cache[c], fresh, capped)
    BY <2>1 DEF Answered
  <2>3. seen' \in [Calls -> Nat] /\ cache[c] \in {"none", "ok", "error", "refused"}
    BY <1>2, <1>3, <2>1
  <2> QED
    BY <1>1, <1>2, <1>3, <1>4, <2>1, <2>2, <2>3 DEF c
<1>7. CASE Refuse
  <2>1. /\ seen[c] > 0 /\ seen[c] + 1 >= RepeatCap /\ seen' = [seen EXCEPT ![c] = @ + 1]
        /\ cache' = cache /\ fetched' = fetched
        /\ Onward(Append(messages, Result(c, "refused")), fresh, TRUE)
        /\ UNCHANGED <<history, turnStart, budget, reply, turns>>
    BY <1>7 DEF Refuse, c
  <2>2. Answered(c, "refused", fresh, TRUE)
    BY <2>1 DEF Answered
  <2>3. seen' \in [Calls -> Nat]
    BY <1>2, <1>3, <2>1
  <2> QED
    BY <1>1, <1>2, <1>3, <1>4, <2>1, <2>2, <2>3 DEF c
<1> QED
  BY <1>5, <1>6, <1>7

\* What _fit_history leaves of the earlier turns.
LEMMA FittedFacts ==
  ASSUME NEW ms \in Seq(Messages), NEW cut, NEW drop
  PROVE  /\ Shortened(ms, cut) \in Seq(Messages) /\ Len(Shortened(ms, cut)) = Len(ms)
         /\ Undropped(ms, drop) \in SUBSET (1 .. Len(ms))
         /\ Select(Shortened(ms, cut), Undropped(ms, drop)) \in Seq(Messages)
<1>1. Len(ms) \in Nat /\ DOMAIN ms = 1 .. Len(ms)
  OBVIOUS
<1>2. ASSUME NEW i \in 1 .. Len(ms) PROVE Shortened(ms, cut)[i] \in Messages
  <2>1. ms[i] \in Messages /\ [ms[i] EXCEPT !.short = TRUE] \in Messages
    <3>1. ms[i] \in Messages
      BY <1>1, <1>2
    <3> QED
      BY <3>1 DEF Messages
  <2> QED
    BY <1>1, <2>1 DEF Shortened
<1>3. Shortened(ms, cut) \in Seq(Messages) /\ Len(Shortened(ms, cut)) = Len(ms)
  <2>1. /\ DOMAIN Shortened(ms, cut) = 1 .. Len(ms)
        /\ Shortened(ms, cut) = [i \in 1 .. Len(ms) |-> Shortened(ms, cut)[i]]
    BY <1>1 DEF Shortened
  <2> QED
    BY <1>1, <1>2, <2>1, LenProperties
<1>4. Undropped(ms, drop) \in SUBSET (1 .. Len(ms))
  BY <1>1 DEF Undropped
<1> QED
  BY <1>3, <1>4, SelectProperties

\* The messages before a turn's question.
LEMMA EarlierFacts ==
  ASSUME history \in Seq(Messages), history # <<>>
  PROVE  /\ Front(history) \in Seq(Messages) /\ Earlier \in Seq(Messages)
         /\ Last(history) \in Messages /\ Last(history) = history[Len(history)]
         /\ Earlier = <<Plain("system")>> \o Front(history)
         /\ history = Append(Front(history), Last(history))
<1>1. /\ Front(history) \in Seq(Messages) /\ Last(history) \in Messages
      /\ Append(Front(history), Last(history)) = history
      /\ Last(history) = history[Len(history)]
  BY DEF Front, Last
<1>2. Plain("system") \in Messages
  BY MessagesMade
<1> QED
  BY <1>1, <1>2 DEF Earlier

LEMMA ChainTyped ==
  ASSUME TypeInv
  PROVE  Chain \in Seq(Messages) /\ Len(Chain) \in Nat /\ DOMAIN Chain = 1 .. Len(Chain)
<1>1. messages \in Seq(Messages) /\ turnStart \in 0 .. Len(messages)
  BY DEF TypeInv, TypeOK
<1>2. Chain \in Seq(Messages)
  BY <1>1, AfterFacts DEF Chain
<1> QED
  BY <1>2

LEMMA TypeInit == Init => TypeInv
<1> SUFFICES ASSUME Init PROVE TypeInv
  OBVIOUS
<1>1. <<>> \in Seq(Messages) /\ Len(<<>>) = 0
  BY EmptySeq
<1>2. 0 \in 0 .. MaxTurns
  BY TurnsAssumption
<1>3. turnStart \in 0 .. Len(messages) /\ budget \in Nat /\ rounds \in 0 .. budget
  BY <1>1 DEF Init
<1>4. TypeOK
  BY <1>1, <1>2, <1>3 DEF Init, TypeOK
<1> QED
  BY <1>4 DEF Init, TypeInv

\* Every step keeps the types.
LEMMA TypeStep == TypeInv /\ [Next]_vars => TypeInv'
<1> SUFFICES ASSUME TypeInv, [Next]_vars PROVE TypeInv'
  OBVIOUS
<1>1. /\ history \in Seq(Messages) /\ messages \in Seq(Messages) /\ reply \in Seq(Messages)
      /\ turnStart \in 0 .. Len(messages) /\ budget \in Nat /\ rounds \in 0 .. budget
  BY DEF TypeInv, TypeOK
<1>2. CASE Send
  <2>1. /\ Plain("user") \in Messages /\ Append(history, Plain("user")) \in Seq(Messages)
        /\ Append(history, Plain("user")) # <<>>
        /\ Len(Append(history, Plain("user"))) = Len(history) + 1
        /\ Append(history, Plain("user"))[Len(history) + 1] = Plain("user")
    <3>1. Plain("user") \in Messages
      BY MessagesMade
    <3> QED
      BY <1>1, <3>1
  <2>2. turns + 1 \in 0 .. MaxTurns
    BY <1>2, TurnsAssumption DEF Send, TypeInv, TypeOK
  <2> QED
    BY <1>2, <2>1, <2>2 DEF Send, turn, TypeInv, TypeOK
<1>3. CASE Start
  <2>1. history # <<>>
    BY <1>3 DEF Start, TypeInv
  <2>2. PICK chosen \in Models, cut \in 0 .. Len(Earlier), drop \in 0 .. Len(Earlier) :
          /\ messages' = Append(Select(Shortened(Earlier, cut), Undropped(Earlier, drop)),
                                Last(history))
          /\ budget' = chosen.budget
    BY <1>3 DEF Start
  <2>3. messages' \in Seq(Messages) /\ Len(messages') \in Nat
    <3>1. /\ Earlier \in Seq(Messages) /\ Last(history) \in Messages
      BY <1>1, <2>1, EarlierFacts
    <3>2. Select(Shortened(Earlier, cut), Undropped(Earlier, drop)) \in Seq(Messages)
      BY <3>1, FittedFacts
    <3>3. messages' \in Seq(Messages)
      BY <2>2, <3>1, <3>2
    <3> QED
      BY <3>3
  <2>4. budget' \in Nat /\ 0 < budget'
    BY <2>2, BudgetAssumption
  <2>5. /\ turnStart' = Len(messages') /\ rounds' = 0 /\ todo' = <<>>
        /\ seen' = [c \in Calls |-> 0] /\ cache' = [c \in Calls |-> "none"]
        /\ fresh' = FALSE /\ capped' = FALSE /\ fetched' = [c \in Calls |-> 0]
        /\ pc' = "ask" /\ pc = "start" /\ UNCHANGED <<history, reply, turns>>
    BY <1>3 DEF Start
  <2>6. turnStart' \in 0 .. Len(messages') /\ rounds' \in 0 .. budget'
    BY <2>3, <2>4, <2>5
  <2>7. TypeOK'
    BY <2>3, <2>4, <2>5, <2>6 DEF TypeInv, TypeOK
  <2> QED
    BY <2>4, <2>5, <2>7 DEF TypeInv
<1>4. CASE Answer
  <2>1. TurnMessages \in Seq(Messages)
    <3>1. Chain \in Seq(Messages) /\ DOMAIN Chain = 1 .. Len(Chain)
      BY ChainTyped
    <3>2. Select(Chain, {i \in DOMAIN Chain : Chain[i] # Nudge}) \in Seq(Messages)
      BY <3>1, SelectProperties
    <3> QED
      BY <3>2, MessagesMade DEF TurnMessages
  <2> QED
    BY <1>4, <2>1 DEF Answer, turn, TypeInv, TypeOK
<1>5. CASE AskTools
  <2>1. PICK calls \in CallLists :
          messages' = Append(messages, AsksFor(calls)) /\ todo' = calls
    BY <1>5 DEF AskTools
  <2>2. /\ messages' \in Seq(Messages) /\ turnStart \in 0 .. Len(messages') /\ todo' # <<>>
    BY <1>1, <2>1, AfterAppend, MessagesMade, CallListsAreCalls
  <2> QED
    BY <1>5, <2>1, <2>2 DEF AskTools, TypeInv, TypeOK
<1>6. CASE Fetch \/ Recall \/ Refuse
  <2>1. /\ pc = "tools" /\ UNCHANGED <<history, turnStart, budget, reply, turns>>
        /\ seen' \in [Calls -> Nat] /\ fetched' \in [Calls -> Nat]
        /\ cache' \in [Calls -> {"none", "ok", "error"}]
    BY <1>6, ToolStep
  <2>2. PICK r \in {"none", "ok", "error", "refused"}, new \in BOOLEAN, cap \in BOOLEAN :
          /\ Result(Head(todo), r) \in Messages
          /\ Onward(Append(messages, Result(Head(todo), r)), new, cap)
    BY <1>6, ToolStep
  <2>3. /\ Goes(Append(Chain, Result(Head(todo), r)), new, cap)
        /\ messages' \in Seq(Messages) /\ Len(messages) < Len(messages')
        /\ todo' \in CallLists \cup {<<>>} /\ rounds' \in 0 .. budget
        /\ fresh' = new /\ capped' = cap
    BY <2>1, <2>2, OnwardEffect
  <2>4. turnStart' \in 0 .. Len(messages')
    BY <1>1, <2>1, <2>3
  <2>5. /\ pc' \in {"ask", "tools", "wrapup"}
        /\ pc' = "tools" => todo' # <<>>
        /\ pc' \in {"ask", "tools"} => rounds' < budget'
    BY <2>1, <2>3 DEF Goes, TypeInv
  <2>6. TypeOK'
    <3>1. history' \in Seq(Messages) /\ reply' \in Seq(Messages) /\ turns' \in 0 .. MaxTurns
      BY <2>1 DEF TypeInv, TypeOK
    <3>2. budget' \in Nat /\ rounds' \in 0 .. budget'
      BY <1>1, <2>1, <2>3
    <3>3. fresh' \in BOOLEAN /\ capped' \in BOOLEAN
      BY <2>3
    <3>4. pc' \in {"idle", "start", "ask", "tools", "wrapup", "reply"}
      BY <2>5
    <3> QED
      BY <2>1, <2>3, <2>4, <3>1, <3>2, <3>3, <3>4 DEF TypeOK
  <2> QED
    BY <2>1, <2>5, <2>6 DEF TypeInv
<1>7. CASE Receive
  BY <1>7 DEF Receive, turn, TypeInv, TypeOK
<1>8. CASE Fail
  BY <1>8 DEF Fail, turn, TypeInv, TypeOK
<1>9. CASE UNCHANGED vars
  BY <1>9 DEF vars, turn, TypeInv, TypeOK
<1> QED
  BY <1>2, <1>3, <1>4, <1>5, <1>6, <1>7, <1>8, <1>9 DEF Next

THEOREM TypedInv == Spec => []TypeInv
  BY TypeInit, TypeStep, PTL DEF Spec

-----------------------------------------------------------------------------
(* The rounds: what is answered, and when the tools are taken away.         *)

\* The results in ch, and those of its last round.
Tools(ch) == {i \in DOMAIN ch : ch[i].role = "tool"}
LastTools(ch) == {i \in Tools(ch) : \A j \in i .. Len(ch) : ch[j].calls = <<>>}
NewIn(ch, i) == \A j \in Tools(ch) : j < i => ch[j].call # ch[i].call
Found(ch) == \E i \in LastTools(ch) : NewIn(ch, i)
Refused(ch) == \E i \in LastTools(ch) : ch[i].result = "refused"
Agree(ch) ==
  \A i, j \in Tools(ch) :
    i < j /\ ch[i].call = ch[j].call => ch[j].result \in {ch[i].result, "refused"}

\* The two dictionaries are those of the results: a result says what the cache
\* says of its call, unless the call was asked for too often.
Sourced(ch, sn, ca) ==
  /\ \A i \in Tools(ch) :
       /\ ch[i].call \in Calls /\ sn[ch[i].call] > 0
       /\ ch[i].result # "refused" => ch[i].result = ca[ch[i].call]
       /\ ch[i].result = "refused" => sn[ch[i].call] >= RepeatCap
  /\ \A c \in Calls : sn[c] > 0 => \E i \in Tools(ch) : ch[i].call = c

\* A list that says the same has the same results.
LEMMA LikeTools ==
  ASSUME NEW a \in Seq(Messages), NEW b \in Seq(Messages), Like(a, b)
  PROVE  /\ Tools(b) = Tools(a) /\ LastTools(b) = LastTools(a)
         /\ \A i \in Tools(a) : b[i].call = a[i].call /\ b[i].result = a[i].result
<1>1. /\ Len(a) \in Nat /\ Len(b) \in Nat /\ Len(a) <= Len(b)
      /\ DOMAIN a = 1 .. Len(a) /\ DOMAIN b = 1 .. Len(b)
      /\ \A i \in 1 .. Len(a) :
           /\ b[i].role = a[i].role /\ b[i].calls = a[i].calls
           /\ b[i].call = a[i].call /\ b[i].result = a[i].result
      /\ \A i \in Len(a) + 1 .. Len(b) : b[i].role # "tool" /\ b[i].calls = <<>>
  BY DEF Like
<1>2. ASSUME NEW i \in 1 .. Len(b) PROVE i \in 1 .. Len(a) \/ i \in Len(a) + 1 .. Len(b)
  BY <1>1, <1>2
<1>3. \A i \in 1 .. Len(a) : i \in 1 .. Len(b)
  BY <1>1
<1>4. Tools(b) = Tools(a)
  BY <1>1, <1>2, <1>3 DEF Tools
<1>5. \A i \in Tools(a) : i \in 1 .. Len(a)
  BY <1>1 DEF Tools
<1>6. ASSUME NEW i \in Tools(a)
      PROVE  (\A j \in i .. Len(b) : b[j].calls = <<>>)
               <=> (\A j \in i .. Len(a) : a[j].calls = <<>>)
  <2>1. i \in 1 .. Len(a) /\ i \in Nat
    BY <1>5, <1>6
  <2>2. \A j \in i .. Len(a) : j \in i .. Len(b) /\ j \in 1 .. Len(a)
    BY <1>1, <2>1
  <2>3. \A j \in i .. Len(b) : j \in i .. Len(a) \/ j \in Len(a) + 1 .. Len(b)
    BY <1>1, <2>1
  <2> QED
    BY <1>1, <2>2, <2>3
<1>7. LastTools(b) = LastTools(a)
  BY <1>4, <1>6 DEF LastTools
<1> QED
  BY <1>1, <1>4, <1>5, <1>7

LEMMA LikeRounds ==
  ASSUME NEW a \in Seq(Messages), NEW b \in Seq(Messages), Like(a, b)
  PROVE  /\ Agree(a) => Agree(b)
         /\ \A sn, ca : Sourced(a, sn, ca) => Sourced(b, sn, ca)
         /\ Found(b) <=> Found(a)
         /\ Refused(b) <=> Refused(a)
<1>1. /\ Tools(b) = Tools(a) /\ LastTools(b) = LastTools(a)
      /\ \A i \in Tools(a) : b[i].call = a[i].call /\ b[i].result = a[i].result
      /\ \A i \in LastTools(a) : i \in Tools(a)
  BY LikeTools DEF LastTools
<1>2. Agree(a) => Agree(b)
  BY <1>1 DEF Agree
<1>3. \A sn, ca : Sourced(a, sn, ca) => Sourced(b, sn, ca)
  BY <1>1 DEF Sourced
<1>4. \A i \in Tools(a) : NewIn(b, i) <=> NewIn(a, i)
  BY <1>1 DEF NewIn
<1>5. Found(b) <=> Found(a)
  BY <1>1, <1>4 DEF Found
<1>6. Refused(b) <=> Refused(a)
  BY <1>1 DEF Refused
<1> QED
  BY <1>2, <1>3, <1>5, <1>6

\* What a result adds to the results.
LEMMA ResultAdded ==
  ASSUME NEW ch \in Seq(Messages), NEW m \in Messages, m.role = "tool", m.calls = <<>>
  PROVE  LET n == Len(ch) + 1
             b == Append(ch, m)
         IN  /\ Tools(b) = Tools(ch) \cup {n} /\ LastTools(b) = LastTools(ch) \cup {n}
             /\ b[n] = m /\ n \in Nat
             /\ \A i \in Tools(ch) : i \in Nat /\ i < n /\ b[i] = ch[i]
<1> DEFINE n == Len(ch) + 1
           b == Append(ch, m)
<1>1. /\ Len(ch) \in Nat /\ n \in Nat /\ b \in Seq(Messages) /\ Len(b) = n
      /\ DOMAIN ch = 1 .. Len(ch) /\ DOMAIN b = 1 .. n
      /\ \A i \in 1 .. Len(ch) : b[i] = ch[i]
      /\ b[n] = m
  OBVIOUS
<1> HIDE DEF b
<1>2. \A i : i \in 1 .. n <=> i \in 1 .. Len(ch) \/ i = n
  BY <1>1
<1>3. Tools(b) = Tools(ch) \cup {n}
  BY <1>1, <1>2 DEF Tools
<1>4. \A i \in Tools(ch) : i \in 1 .. Len(ch) /\ i \in Nat /\ i < n
  BY <1>1 DEF Tools
<1>5. ASSUME NEW i \in 1 .. n
      PROVE  (\A j \in i .. n : b[j].calls = <<>>)
               <=> (\A j \in i .. Len(ch) : ch[j].calls = <<>>)
  <2>1. i \in Nat /\ i >= 1
    BY <1>1
  <2>2. \A j \in i .. n : (j \in i .. Len(ch) /\ j \in 1 .. Len(ch)) \/ j = n
    BY <1>1, <2>1
  <2>3. \A j \in i .. Len(ch) : j \in i .. n /\ j \in 1 .. Len(ch)
    BY <1>1, <2>1
  <2>4. n \in i .. n
    BY <1>1, <2>1, <1>5
  <2> QED
    BY <1>1, <2>2, <2>3, <2>4
<1>6. \A j \in n .. Len(ch) : FALSE
  BY <1>1
<1>7. n \in 1 .. n /\ \A i \in Tools(ch) : i \in 1 .. n
  BY <1>1, <1>4
<1>8. LastTools(b) = LastTools(ch) \cup {n}
  <2>1. ASSUME NEW i \in Tools(ch) PROVE i \in LastTools(b) <=> i \in LastTools(ch)
    BY <1>1, <1>3, <1>5, <1>7, <2>1 DEF LastTools
  <2>2. n \in LastTools(b)
    <3>1. \A j \in n .. n : b[j].calls = <<>>
      BY <1>5, <1>6, <1>7
    <3> QED
      BY <1>1, <1>3, <3>1 DEF LastTools
  <2>3. \A i \in LastTools(b) : i \in Tools(ch) \/ i = n
    BY <1>3 DEF LastTools
  <2>4. \A i \in LastTools(ch) : i \in Tools(ch)
    BY DEF LastTools
  <2> QED
    BY <2>1, <2>2, <2>3, <2>4
<1> QED
  BY <1>1, <1>3, <1>4, <1>8 DEF b

\* A result that answers as the loop does keeps the dictionaries those of the
\* results, agrees with the earlier ones, and is marked as what it is.
LEMMA AnsweredRounds ==
  ASSUME TypeInv, NEW c \in Calls, NEW r \in {"none", "ok", "error", "refused"},
         NEW new \in BOOLEAN, NEW cap \in BOOLEAN, Answered(c, r, new, cap),
         NEW ch \in Seq(Messages), Sourced(ch, seen, cache), Agree(ch),
         fresh <=> Found(ch), capped <=> Refused(ch)
  PROVE  LET b == Append(ch, Result(c, r))
         IN  /\ Sourced(b, seen', cache') /\ Agree(b)
             /\ new <=> Found(b)
             /\ cap <=> Refused(b)
<1> DEFINE m == Result(c, r)
           n == Len(ch) + 1
           b == Append(ch, m)
<1>1. /\ m \in Messages /\ m.role = "tool" /\ m.calls = <<>> /\ m.call = c /\ m.result = r
  BY MessagesMade
<1> HIDE DEF m
<1>2. /\ Tools(b) = Tools(ch) \cup {n} /\ LastTools(b) = LastTools(ch) \cup {n}
      /\ b[n] = m /\ n \in Nat
      /\ \A i \in Tools(ch) : i \in Nat /\ i < n /\ b[i] = ch[i]
  BY <1>1, ResultAdded
<1> HIDE DEF b, n
<1>3. /\ seen \in [Calls -> Nat] /\ cache \in [Calls -> {"none", "ok", "error"}]
      /\ fresh \in BOOLEAN /\ capped \in BOOLEAN /\ RepeatCap \in Nat
  BY CapAssumption DEF TypeInv, TypeOK
<1>4. /\ \A i \in Tools(ch) :
           /\ ch[i].call \in Calls /\ seen[ch[i].call] > 0
           /\ ch[i].result # "refused" => ch[i].result = cache[ch[i].call]
           /\ ch[i].result = "refused" => seen[ch[i].call] >= RepeatCap
      /\ \A d \in Calls : seen[d] > 0 => \E i \in Tools(ch) : ch[i].call = d
  BY DEF Sourced
<1>5. /\ \A d \in Calls : seen'[d] \in Nat /\ seen'[d] >= seen[d]
      /\ seen'[c] > 0
      /\ \A d \in Calls : d # c => seen'[d] = seen[d]
      /\ \A d \in Calls : seen[d] > 0 => cache'[d] = cache[d]
      /\ r # "refused" => r = cache'[c]
      /\ r = "refused" => seen'[c] >= RepeatCap
  <2>1. CASE seen[c] = 0
    <3>1. /\ seen' = [seen EXCEPT ![c] = 1] /\ cache' = [cache EXCEPT ![c] = r]
          /\ r \in {"ok", "error"}
      BY <2>1 DEF Answered
    <3> QED
      BY <1>3, <2>1, <3>1
  <2>2. CASE seen[c] # 0
    <3>1. /\ seen' = [seen EXCEPT ![c] = @ + 1] /\ cache' = cache
          /\ r # "refused" => r = cache[c]
          /\ r = "refused" => seen[c] + 1 >= RepeatCap
      BY <1>3, <2>2 DEF Answered
    <3> QED
      BY <1>3, <2>2, <3>1
  <2> QED
    BY <2>1, <2>2
<1>6. Sourced(b, seen', cache')
  <2>1. ASSUME NEW i \in Tools(b)
        PROVE  /\ b[i].call \in Calls /\ seen'[b[i].call] > 0
               /\ b[i].result # "refused" => b[i].result = cache'[b[i].call]
               /\ b[i].result = "refused" => seen'[b[i].call] >= RepeatCap
    <3>1. CASE i = n
      BY <1>1, <1>2, <1>5, <3>1
    <3>2. CASE i # n
      <4>1. i \in Tools(ch) /\ b[i] = ch[i]
        BY <1>2, <3>2
      <4> DEFINE d == ch[i].call
      <4>2. /\ d \in Calls /\ seen[d] > 0 /\ seen[d] \in Nat
            /\ ch[i].result # "refused" => ch[i].result = cache[d]
            /\ ch[i].result = "refused" => seen[d] >= RepeatCap
        BY <1>3, <1>4, <4>1
      <4>3. /\ seen'[d] \in Nat /\ seen'[d] >= seen[d] /\ cache'[d] = cache[d]
        BY <1>5, <4>2
      <4>4. seen'[d] > 0 /\ (seen[d] >= RepeatCap => seen'[d] >= RepeatCap)
        <5> HIDE DEF d
        <5> QED
          BY <1>3, <4>2, <4>3
      <4> QED
        BY <4>1, <4>2, <4>3, <4>4
    <3> QED
      BY <3>1, <3>2
  <2>2. ASSUME NEW d \in Calls, seen'[d] > 0
        PROVE  \E i \in Tools(b) : b[i].call = d
    <3>1. CASE d = c
      BY <1>1, <1>2, <3>1
    <3>2. CASE d # c
      <4>1. PICK i \in Tools(ch) : ch[i].call = d
        BY <1>4, <1>5, <2>2, <3>2
      <4> QED
        BY <1>2, <4>1
    <3> QED
      BY <3>1, <3>2
  <2> QED
    BY <2>1, <2>2 DEF Sourced
<1>7. Agree(b)
  <2>1. ASSUME NEW i \in Tools(b), NEW j \in Tools(b), i < j, b[i].call = b[j].call
        PROVE  b[j].result \in {b[i].result, "refused"}
    <3>1. i \in Tools(ch)
      BY <1>2, <2>1
    <3>2. CASE j # n
      <4>1. j \in Tools(ch) /\ b[i] = ch[i] /\ b[j] = ch[j]
        BY <1>2, <3>1, <3>2
      <4> QED
        BY <2>1, <3>1, <4>1 DEF Agree
    <3>3. CASE j = n
      <4>1. b[j] = m /\ ch[i].call = c /\ b[i] = ch[i]
        BY <1>1, <1>2, <2>1, <3>1, <3>3
      <4>2. /\ seen[c] > 0
            /\ ch[i].result # "refused" => ch[i].result = cache[c]
            /\ ch[i].result = "refused" => seen[c] >= RepeatCap
        BY <1>4, <3>1, <4>1
      <4>3. r = "refused" \/ (r = cache[c] /\ seen[c] + 1 < RepeatCap)
        BY <1>3, <4>2 DEF Answered
      <4>4. r = "refused" \/ r = ch[i].result
        BY <1>3, <4>2, <4>3
      <4> QED
        BY <1>1, <4>1, <4>4
    <3> QED
      BY <3>2, <3>3
  <2> QED
    BY <2>1 DEF Agree
<1>8. NewIn(b, n) <=> seen[c] = 0
  <2>1. ASSUME seen[c] = 0 PROVE NewIn(b, n)
    <3>1. ASSUME NEW j \in Tools(b), j < n PROVE b[j].call # c
      <4>1. j \in Tools(ch) /\ b[j] = ch[j]
        BY <1>2, <3>1
      <4> QED
        BY <1>4, <2>1, <4>1
    <3> QED
      BY <1>1, <1>2, <3>1 DEF NewIn
  <2>2. ASSUME seen[c] # 0 PROVE ~NewIn(b, n)
    <3>1. PICK i \in Tools(ch) : ch[i].call = c
      BY <1>3, <1>4, <2>2
    <3> QED
      BY <1>1, <1>2, <3>1 DEF NewIn
  <2> QED
    BY <2>1, <2>2
<1>9. ASSUME NEW i \in Tools(ch) PROVE NewIn(b, i) <=> NewIn(ch, i)
  <2>1. ~(n < i)
    BY <1>2
  <2> QED
    BY <1>2, <2>1 DEF NewIn
<1>10. \A i \in LastTools(ch) : i \in Tools(ch)
  BY DEF LastTools
<1>11. Found(b) <=> Found(ch) \/ seen[c] = 0
  BY <1>2, <1>8, <1>9, <1>10 DEF Found
<1>12. Refused(b) <=> Refused(ch) \/ r = "refused"
  BY <1>1, <1>2, <1>10 DEF Refused
<1>13. new <=> Found(b)
  <2>1. CASE seen[c] = 0
    BY <1>11, <2>1 DEF Answered
  <2>2. CASE seen[c] # 0
    BY <1>3, <1>11, <2>2 DEF Answered
  <2> QED
    BY <2>1, <2>2
<1>14. cap <=> Refused(b)
  <2>1. (r = "refused" /\ cap = TRUE) \/ (r # "refused" /\ cap = capped)
    BY <1>3 DEF Answered
  <2> QED
    BY <1>12, <2>1
<1> QED
  BY <1>6, <1>7, <1>13, <1>14 DEF b, m

\* The loop's own marks, budget notes and dictionaries are true of the chain.
RoundsInv ==
  /\ Sourced(Chain, seen, cache) /\ Agree(Chain)
  /\ pc = "tools" => (fresh <=> Found(Chain)) /\ (capped <=> Refused(Chain))
  /\ ToolsUntilStuck /\ ToldWhatIsLeft

LEMMA RoundsMean ==
  ASSUME TypeInv
  PROVE  /\ RepeatsAgree <=> Agree(Chain)
         /\ Stuck <=> Refused(Chain) /\ ~Found(Chain)
<1>1. ChainResults = Tools(Chain)
  BY DEF ChainResults, Tools
<1>2. LastRound = LastTools(Chain)
  BY <1>1 DEF LastRound, LastTools
<1>3. \A i : New(i) <=> NewIn(Chain, i)
  BY <1>1 DEF New, NewIn
<1>4. RepeatsAgree <=> Agree(Chain)
  BY <1>1 DEF RepeatsAgree, Agree
<1>5. Stuck <=> Refused(Chain) /\ ~Found(Chain)
  BY <1>2, <1>3 DEF Stuck, Refused, Found
<1> QED
  BY <1>4, <1>5

\* Without results there is nothing to disagree.
LEMMA NoRounds ==
  ASSUME NEW sn, \A c \in Calls : sn[c] = 0, NEW ca
  PROVE  Sourced(<<>>, sn, ca) /\ Agree(<<>>) /\ ~Found(<<>>) /\ ~Refused(<<>>)
<1>1. Tools(<<>>) = {}
  BY DEF Tools
<1>2. LastTools(<<>>) = {}
  BY <1>1 DEF LastTools
<1> QED
  BY <1>1, <1>2 DEF Sourced, Agree, Found, Refused

LEMMA RoundsInit == Init => RoundsInv
<1> SUFFICES ASSUME Init PROVE RoundsInv
  OBVIOUS
<1>1. Chain = <<>>
  BY DEF Init, Chain
<1>2. \A c \in Calls : seen[c] = 0
  BY DEF Init
<1> QED
  BY <1>1, <1>2, NoRounds DEF Init, RoundsInv, ToolsUntilStuck, ToldWhatIsLeft

\* Asking for tools starts a round without results.
LEMMA AskAdded ==
  ASSUME NEW ch \in Seq(Messages), NEW m \in Messages, m.role # "tool", m.calls # <<>>
  PROVE  LET b == Append(ch, m)
         IN  /\ Tools(b) = Tools(ch) /\ LastTools(b) = {}
             /\ \A i \in Tools(ch) : b[i] = ch[i]
<1> DEFINE n == Len(ch) + 1
           b == Append(ch, m)
<1>1. /\ Len(ch) \in Nat /\ n \in Nat /\ Len(b) = n
      /\ DOMAIN ch = 1 .. Len(ch) /\ DOMAIN b = 1 .. n
      /\ \A i \in 1 .. Len(ch) : b[i] = ch[i]
      /\ b[n] = m
  OBVIOUS
<1> HIDE DEF b
<1>2. \A i : i \in 1 .. n <=> i \in 1 .. Len(ch) \/ i = n
  BY <1>1
<1>3. Tools(b) = Tools(ch) /\ \A i \in Tools(ch) : b[i] = ch[i]
  BY <1>1, <1>2 DEF Tools
<1>4. ASSUME NEW i \in Tools(b) PROVE i \notin LastTools(b)
  <2>1. i \in 1 .. n
    BY <1>1, <1>4 DEF Tools
  <2>2. n \in i .. n
    BY <1>1, <2>1
  <2> QED
    BY <1>1, <2>2 DEF LastTools
<1>5. LastTools(b) = {}
  BY <1>4 DEF LastTools
<1> QED
  BY <1>3, <1>5 DEF b

LEMMA RoundsStep == TypeInv /\ TypeInv' /\ RoundsInv /\ [Next]_vars => RoundsInv'
<1> SUFFICES ASSUME TypeInv, TypeInv', RoundsInv, [Next]_vars PROVE RoundsInv'
  OBVIOUS
<1>1. /\ Chain \in Seq(Messages) /\ Chain' \in Seq(Messages)
      /\ messages \in Seq(Messages) /\ turnStart \in 0 .. Len(messages)
  <2>1. Chain \in Seq(Messages)
    BY ChainTyped
  <2>2. (TypeInv => Chain \in Seq(Messages))'
    BY ChainTyped, PTL
  <2> QED
    BY <2>1, <2>2 DEF TypeInv, TypeOK
<1>2. (Stuck <=> Refused(Chain) /\ ~Found(Chain)) /\ (Stuck <=> Refused(Chain) /\ ~Found(Chain))'
  <2>1. TypeInv => (Stuck <=> Refused(Chain) /\ ~Found(Chain))
    BY RoundsMean
  <2>2. (TypeInv => (Stuck <=> Refused(Chain) /\ ~Found(Chain)))'
    BY RoundsMean, PTL
  <2> QED
    BY <2>1, <2>2
<1>3. CASE UNCHANGED turn /\ pc' \notin {"ask", "tools", "wrapup"}
  <2>1. Chain' = Chain
    BY <1>3 DEF turn, Chain
  <2>2. Sourced(Chain', seen', cache') /\ Agree(Chain')
    BY <1>3, <2>1 DEF turn, RoundsInv
  <2> QED
    BY <1>3, <2>2 DEF RoundsInv, ToolsUntilStuck, ToldWhatIsLeft
<1>4. CASE Start
  <2>1. /\ turnStart' = Len(messages') /\ rounds' = 0 /\ pc' = "ask"
        /\ \A c \in Calls : seen'[c] = 0
    BY <1>4 DEF Start
  <2>2. Len(messages') \in Nat /\ budget' > 0
    BY <2>1 DEF TypeInv, TypeOK
  <2>3. Chain' = <<>>
    BY <2>1, <2>2 DEF Chain
  <2>4. Sourced(Chain', seen', cache') /\ Agree(Chain') /\ ~Refused(Chain')
    BY <2>1, <2>3, NoRounds
  <2> QED
    BY <1>2, <2>1, <2>2, <2>4 DEF RoundsInv, ToolsUntilStuck, ToldWhatIsLeft
<1>5. CASE AskTools
  <2>1. PICK calls \in CallLists :
          messages' = Append(messages, AsksFor(calls)) /\ todo' = calls
    BY <1>5 DEF AskTools
  <2>2. /\ turnStart' = turnStart /\ pc' = "tools" /\ seen' = seen /\ cache' = cache
        /\ fresh' = FALSE /\ capped' = FALSE
    BY <1>5 DEF AskTools
  <2>3. AsksFor(calls) \in Messages /\ AsksFor(calls).role # "tool" /\ AsksFor(calls).calls # <<>>
    BY MessagesMade, CallListsAreCalls
  <2>4. Chain' = Append(Chain, AsksFor(calls))
    <3>1. SubSeq(Append(messages, AsksFor(calls)), turnStart + 1,
                 Len(Append(messages, AsksFor(calls))))
            = Append(Chain, AsksFor(calls))
      BY <1>1, <2>3, AfterAppend DEF Chain
    <3> QED
      BY <2>1, <2>2, <3>1 DEF Chain
  <2>5. /\ Tools(Chain') = Tools(Chain) /\ LastTools(Chain') = {}
        /\ \A i \in Tools(Chain) : Chain'[i] = Chain[i]
    BY <1>1, <2>3, <2>4, AskAdded
  <2>6. Sourced(Chain', seen', cache') /\ Agree(Chain') /\ ~Found(Chain') /\ ~Refused(Chain')
    <3>1. Sourced(Chain, seen, cache) /\ Agree(Chain)
      BY DEF RoundsInv
    <3>2. Sourced(Chain', seen', cache')
      BY <2>2, <2>5, <3>1 DEF Sourced
    <3>3. Agree(Chain')
      BY <2>5, <3>1 DEF Agree
    <3> QED
      BY <2>5, <3>2, <3>3 DEF Found, Refused
  <2> QED
    BY <2>2, <2>6 DEF RoundsInv, ToolsUntilStuck, ToldWhatIsLeft
<1>6. CASE Fetch \/ Recall \/ Refuse
  <2> DEFINE c == Head(todo)
  <2>1. pc = "tools" /\ c \in Calls /\ UNCHANGED <<turnStart, budget>>
    BY <1>6, ToolStep
  <2>2. PICK r \in {"none", "ok", "error", "refused"}, new \in BOOLEAN, cap \in BOOLEAN :
          /\ Result(c, r) \in Messages
          /\ Onward(Append(messages, Result(c, r)), new, cap)
          /\ Answered(c, r, new, cap)
    BY <1>6, ToolStep
  <2> DEFINE b == Append(Chain, Result(c, r))
  <2>3. /\ Goes(b, new, cap) /\ Like(b, Chain')
        /\ rounds' \in 0 .. budget /\ fresh' = new /\ capped' = cap
    BY <2>1, <2>2, OnwardEffect
  <2>4. /\ Sourced(b, seen', cache') /\ Agree(b)
        /\ new <=> Found(b)
        /\ cap <=> Refused(b)
    BY <1>1, <2>1, <2>2, AnsweredRounds DEF RoundsInv
  <2>5. b \in Seq(Messages)
    BY <1>1, <2>2
  <2> HIDE DEF b, c
  <2>6. /\ Sourced(Chain', seen', cache') /\ Agree(Chain')
        /\ new <=> Found(Chain')
        /\ cap <=> Refused(Chain')
    BY <1>1, <2>3, <2>4, <2>5, LikeRounds
  <2>7. ToolsUntilStuck'
    BY <1>2, <2>1, <2>3, <2>6 DEF Goes, ToolsUntilStuck
  <2>8. ToldWhatIsLeft'
    BY <2>1, <2>3 DEF Goes, ToldWhatIsLeft
  <2> QED
    BY <2>3, <2>6, <2>7, <2>8 DEF RoundsInv
<1>7. CASE UNCHANGED vars
  <2>1. Chain' = Chain
    BY <1>7 DEF vars, turn, Chain
  <2> QED
    BY <1>2, <1>7, <2>1 DEF vars, turn, RoundsInv, ToolsUntilStuck, ToldWhatIsLeft
<1>8. ASSUME Send \/ Answer \/ Receive \/ Fail
      PROVE  UNCHANGED turn /\ pc' \notin {"ask", "tools", "wrapup"}
  BY <1>8 DEF Send, Answer, Receive, Fail
<1> QED
  BY <1>3, <1>4, <1>5, <1>6, <1>7, <1>8 DEF Next

\* The loop answers a repetition as it answered the first time until it refuses
\* it; it takes the tools away exactly when a round was refused a call and
\* brought nothing new, or the rounds are used up; and it says how many are left
\* before the last: for any budget, warning and cap, whatever the model asks.
THEOREM ChatRoundsSound == Spec => []RoundsSound
<1>1. TypeInv /\ RoundsInv => RoundsSound
  BY RoundsMean DEF RoundsInv, RoundsSound
<1> QED
  BY <1>1, TypeInit, TypeStep, RoundsInit, RoundsStep, PTL DEF Spec

-----------------------------------------------------------------------------
(* Pairing: every tool call has its result, and every result its call.      *)

\* b has the calls and results of a, in the same places.
SameCalls(a, b) ==
  /\ Len(a) <= Len(b)
  /\ \A i \in 1 .. Len(a) :
       b[i].role = a[i].role /\ b[i].calls = a[i].calls /\ b[i].call = a[i].call
  /\ \A i \in Len(a) + 1 .. Len(b) : b[i].role # "tool" /\ b[i].calls = <<>>

LEMMA LikeSameCalls == ASSUME NEW a, NEW b, Like(a, b) PROVE SameCalls(a, b)
  BY DEF Like, SameCalls

\* The indices of the calls of a message.
LEMMA CallsDomain ==
  ASSUME NEW m \in Messages
  PROVE  /\ m.calls \in Seq(Calls) /\ Len(m.calls) \in Nat
         /\ DOMAIN m.calls = 1 .. Len(m.calls)
<1>1. m.calls \in CallLists \cup {<<>>}
  BY DEF Messages
<1>2. m.calls \in Seq(Calls)
  <2>1. CASE m.calls \in CallLists
    BY <2>1, CallListsAreCalls
  <2>2. CASE m.calls = <<>>
    BY <2>2, EmptySeq
  <2> QED
    BY <1>1, <2>1, <2>2
<1> QED
  BY <1>2

LEMMA SamePaired ==
  ASSUME NEW a \in Seq(Messages), NEW b \in Seq(Messages), SameCalls(a, b)
  PROVE  Paired(b) <=> Paired(a)
<1>1. /\ Len(a) \in Nat /\ Len(b) \in Nat /\ Len(a) <= Len(b)
      /\ DOMAIN a = 1 .. Len(a) /\ DOMAIN b = 1 .. Len(b)
      /\ \A i \in 1 .. Len(a) :
           b[i].role = a[i].role /\ b[i].calls = a[i].calls /\ b[i].call = a[i].call
      /\ \A i \in Len(a) + 1 .. Len(b) : b[i].role # "tool" /\ b[i].calls = <<>>
  BY DEF SameCalls
<1>2. \A i \in 1 .. Len(b) : i \in 1 .. Len(a) \/ i \in Len(a) + 1 .. Len(b)
  BY <1>1
<1>3. \A i \in 1 .. Len(a) : i \in 1 .. Len(b)
  BY <1>1
<1>4. DOMAIN <<>> = {}
  OBVIOUS
<1>5. ASSUME Paired(a) PROVE Paired(b)
  <2>1. ASSUME NEW i \in 1 .. Len(b), NEW k \in DOMAIN b[i].calls
        PROVE  i + k \in 1 .. Len(b) /\ b[i + k].role = "tool"
                 /\ b[i + k].call = b[i].calls[k]
    <3>1. i \in 1 .. Len(a)
      BY <1>1, <1>2, <1>4, <2>1
    <3>2. i + k \in 1 .. Len(a) /\ a[i + k].role = "tool" /\ a[i + k].call = a[i].calls[k]
      BY <1>1, <1>5, <2>1, <3>1 DEF Paired
    <3> QED
      BY <1>1, <1>3, <3>1, <3>2
  <2>2. ASSUME NEW j \in 1 .. Len(b), b[j].role = "tool"
        PROVE  \E i \in 1 .. j - 1 : j - i \in DOMAIN b[i].calls
    <3>1. j \in 1 .. Len(a) /\ a[j].role = "tool"
      BY <1>1, <1>2, <2>2
    <3>2. PICK i \in 1 .. j - 1 : j - i \in DOMAIN a[i].calls
      BY <1>1, <1>5, <3>1 DEF Paired
    <3>3. i \in 1 .. Len(a)
      BY <1>1, <3>1, <3>2
    <3> QED
      BY <1>1, <3>2, <3>3
  <2> QED
    BY <1>1, <2>1, <2>2 DEF Paired
<1>6. ASSUME Paired(b) PROVE Paired(a)
  <2>1. ASSUME NEW i \in 1 .. Len(a), NEW k \in DOMAIN a[i].calls
        PROVE  i + k \in 1 .. Len(a) /\ a[i + k].role = "tool"
                 /\ a[i + k].call = a[i].calls[k]
    <3>1. i + k \in 1 .. Len(b) /\ b[i + k].role = "tool" /\ b[i + k].call = b[i].calls[k]
      BY <1>1, <1>3, <1>6, <2>1 DEF Paired
    <3>2. i + k \in 1 .. Len(a)
      BY <1>1, <1>2, <3>1
    <3> QED
      BY <1>1, <3>1, <3>2
  <2>2. ASSUME NEW j \in 1 .. Len(a), a[j].role = "tool"
        PROVE  \E i \in 1 .. j - 1 : j - i \in DOMAIN a[i].calls
    <3>1. j \in 1 .. Len(b) /\ b[j].role = "tool"
      BY <1>1, <1>3, <2>2
    <3>2. PICK i \in 1 .. j - 1 : j - i \in DOMAIN b[i].calls
      BY <1>1, <1>6, <3>1 DEF Paired
    <3>3. i \in 1 .. Len(a)
      BY <1>1, <2>2, <3>2
    <3> QED
      BY <1>1, <3>2, <3>3
  <2> QED
    BY <1>1, <2>1, <2>2 DEF Paired
<1> QED
  BY <1>5, <1>6

LEMMA PairedConcat ==
  ASSUME NEW a \in Seq(Messages), NEW b \in Seq(Messages), Paired(a), Paired(b)
  PROVE  Paired(a \o b)
<1> DEFINE s == a \o b
           n == Len(a)
<1>1. /\ n \in Nat /\ Len(b) \in Nat /\ Len(s) = n + Len(b)
      /\ DOMAIN a = 1 .. n /\ DOMAIN b = 1 .. Len(b) /\ DOMAIN s = 1 .. Len(s)
      /\ \A i \in 1 .. n : s[i] = a[i]
      /\ \A i \in 1 .. Len(b) : s[n + i] = b[i]
  OBVIOUS
<1> HIDE DEF s, n
<1>2. ASSUME NEW i \in 1 .. Len(s)
      PROVE  i \in 1 .. n \/ (i - n \in 1 .. Len(b) /\ i = n + (i - n))
  BY <1>1
<1>3. /\ \A i \in 1 .. n : i \in 1 .. Len(s)
      /\ \A i \in 1 .. Len(b) : n + i \in 1 .. Len(s)
  BY <1>1
<1>4. ASSUME NEW i \in 1 .. Len(s), NEW k \in DOMAIN s[i].calls
      PROVE  i + k \in 1 .. Len(s) /\ s[i + k].role = "tool" /\ s[i + k].call = s[i].calls[k]
  <2>1. CASE i \in 1 .. n
    <3>1. i + k \in 1 .. n /\ a[i + k].role = "tool" /\ a[i + k].call = a[i].calls[k]
      BY <1>1, <1>4, <2>1 DEF Paired
    <3> QED
      BY <1>1, <1>3, <2>1, <3>1
  <2>2. CASE i \notin 1 .. n
    <3> DEFINE l == i - n
    <3>1. l \in 1 .. Len(b) /\ i = n + l /\ s[i] = b[l]
      BY <1>1, <1>2, <2>2
    <3>2. l + k \in 1 .. Len(b) /\ b[l + k].role = "tool" /\ b[l + k].call = b[l].calls[k]
      BY <1>1, <1>4, <3>1 DEF Paired
    <3>3. k \in Nat
      <4>1. b[l] \in Messages
        BY <1>1, <3>1
      <4>2. DOMAIN b[l].calls = 1 .. Len(b[l].calls)
        BY <4>1, CallsDomain
      <4> QED
        BY <1>4, <3>1, <4>2
    <3>4. i + k = n + (l + k)
      BY <1>1, <3>1, <3>3
    <3>5. s[n + (l + k)] = b[l + k] /\ n + (l + k) \in 1 .. Len(s)
      BY <1>1, <1>3, <3>2
    <3> QED
      BY <3>1, <3>2, <3>4, <3>5
  <2> QED
    BY <2>1, <2>2
<1>5. ASSUME NEW j \in 1 .. Len(s), s[j].role = "tool"
      PROVE  \E i \in 1 .. j - 1 : j - i \in DOMAIN s[i].calls
  <2>1. CASE j \in 1 .. n
    <3>1. PICK i \in 1 .. j - 1 : j - i \in DOMAIN a[i].calls
      BY <1>1, <1>5, <2>1 DEF Paired
    <3>2. i \in 1 .. n
      BY <1>1, <2>1, <3>1
    <3> QED
      BY <1>1, <3>1, <3>2
  <2>2. CASE j \notin 1 .. n
    <3> DEFINE l == j - n
    <3>1. l \in 1 .. Len(b) /\ j = n + l /\ s[j] = b[l]
      BY <1>1, <1>2, <2>2
    <3>2. PICK i \in 1 .. l - 1 : l - i \in DOMAIN b[i].calls
      BY <1>1, <1>5, <3>1 DEF Paired
    <3>3. i \in 1 .. Len(b) /\ n + i \in 1 .. j - 1 /\ j - (n + i) = l - i
      <4> HIDE DEF l
      <4> QED
        BY <1>1, <3>1, <3>2
    <3> QED
      BY <1>1, <3>2, <3>3
  <2> QED
    BY <2>1, <2>2
<1>6. Paired(s)
  BY <1>1, <1>4, <1>5 DEF Paired
<1> QED
  BY <1>6 DEF s

\* The results that calls still to be run will get.
Owed(rest) == [k \in 1 .. Len(rest) |-> Result(rest[k], "none")]

LEMMA OwedFacts ==
  ASSUME NEW rest \in Seq(Calls)
  PROVE  /\ Owed(rest) \in Seq(Messages) /\ Len(Owed(rest)) = Len(rest)
         /\ \A k \in 1 .. Len(rest) :
              /\ Owed(rest)[k].role = "tool" /\ Owed(rest)[k].calls = <<>>
              /\ Owed(rest)[k].call = rest[k]
<1>1. Len(rest) \in Nat /\ \A k \in 1 .. Len(rest) : rest[k] \in Calls
  OBVIOUS
<1>2. \A k \in 1 .. Len(rest) :
        /\ Result(rest[k], "none") \in Messages
        /\ Result(rest[k], "none").role = "tool" /\ Result(rest[k], "none").calls = <<>>
        /\ Result(rest[k], "none").call = rest[k]
  BY <1>1, MessagesMade
<1> DEFINE n == Len(rest)
<1> HIDE DEF n
<1>3. /\ n \in Nat /\ \A k \in 1 .. n : Result(rest[k], "none") \in Messages
      /\ Owed(rest) = [k \in 1 .. n |-> Result(rest[k], "none")]
  BY <1>1, <1>2 DEF Owed, n
<1>4. Owed(rest) \in Seq(Messages) /\ Len(Owed(rest)) = n
  BY <1>3
<1>5. \A k \in 1 .. n : Owed(rest)[k] = Result(rest[k], "none")
  BY <1>3
<1> QED
  BY <1>2, <1>4, <1>5 DEF n

\* An assistant's calls with the results they will get.
LEMMA AskOwed ==
  ASSUME NEW calls \in CallLists
  PROVE  /\ <<AsksFor(calls)>> \o Owed(calls) \in Seq(Messages)
         /\ Paired(<<AsksFor(calls)>> \o Owed(calls))
<1> DEFINE m == AsksFor(calls)
           o == Owed(calls)
           s == <<m>> \o o
           n == Len(calls)
<1>1. /\ m \in Messages /\ m.role = "assistant" /\ m.calls = calls /\ calls \in Seq(Calls)
  BY MessagesMade, CallListsAreCalls
<1>2. /\ o \in Seq(Messages) /\ Len(o) = n
      /\ \A k \in 1 .. n : o[k].role = "tool" /\ o[k].calls = <<>> /\ o[k].call = calls[k]
  BY <1>1, OwedFacts
<1> HIDE DEF m, o
<1>3. /\ n \in Nat /\ DOMAIN calls = 1 .. n /\ s \in Seq(Messages) /\ Len(s) = 1 + n
      /\ s[1] = m /\ \A k \in 1 .. n : s[1 + k] = o[k]
      /\ DOMAIN s = 1 .. 1 + n
  BY <1>1, <1>2
<1> HIDE DEF s, n
<1>4. ASSUME NEW i \in 1 .. 1 + n PROVE i = 1 \/ (i - 1 \in 1 .. n /\ i = 1 + (i - 1))
  BY <1>3
<1>5. ASSUME NEW i \in 1 .. 1 + n, NEW k \in DOMAIN s[i].calls
      PROVE  i + k \in 1 .. 1 + n /\ s[i + k].role = "tool" /\ s[i + k].call = s[i].calls[k]
  <2>1. i = 1
    <3>1. CASE i - 1 \in 1 .. n /\ i = 1 + (i - 1)
      <4>1. s[i].calls = <<>>
        BY <1>2, <1>3, <3>1
      <4> QED
        BY <1>5, <4>1
    <3> QED
      BY <1>4, <3>1
  <2>2. k \in 1 .. n /\ 1 + k \in 1 .. 1 + n
    BY <1>1, <1>3, <1>5, <2>1
  <2> QED
    BY <1>1, <1>2, <1>3, <2>1, <2>2
<1>6. ASSUME NEW j \in 1 .. 1 + n, s[j].role = "tool"
      PROVE  \E i \in 1 .. j - 1 : j - i \in DOMAIN s[i].calls
  <2>1. j # 1
    BY <1>1, <1>3, <1>6
  <2>2. j - 1 \in 1 .. n /\ 1 \in 1 .. j - 1
    BY <1>3, <1>4, <2>1
  <2> QED
    BY <1>1, <1>3, <2>2
<1>7. Paired(s)
  BY SMTT(30), <1>3, <1>5, <1>6 DEF Paired
<1> QED
  BY <1>3, <1>7 DEF s, m, o

\* A result takes the place of one that was owed.
LEMMA OwedPaid ==
  ASSUME NEW ch \in Seq(Messages), NEW rest \in Seq(Calls), rest # <<>>,
         NEW m \in Messages, m.role = "tool", m.calls = <<>>, m.call = Head(rest)
  PROVE  /\ Append(ch, m) \o Owed(Tail(rest)) \in Seq(Messages)
         /\ ch \o Owed(rest) \in Seq(Messages)
         /\ SameCalls(ch \o Owed(rest), Append(ch, m) \o Owed(Tail(rest)))
<1> DEFINE p == Tail(rest)
           o == Owed(rest)
           q == Owed(p)
           n == Len(ch)
           l == Len(rest)
           a == ch \o o
           c == Append(ch, m)
           b == c \o q
<1>1. /\ p \in Seq(Calls) /\ Len(p) = l - 1 /\ l \in Nat /\ l >= 1
      /\ \A k \in 1 .. l - 1 : p[k] = rest[k + 1]
      /\ rest[1] = Head(rest)
  OBVIOUS
<1>2. /\ o \in Seq(Messages) /\ Len(o) = l
      /\ \A k \in 1 .. l : o[k].role = "tool" /\ o[k].calls = <<>> /\ o[k].call = rest[k]
  BY SMTT(30), OwedFacts
<1>3. /\ q \in Seq(Messages) /\ Len(q) = l - 1
      /\ \A k \in 1 .. l - 1 : q[k].role = "tool" /\ q[k].calls = <<>> /\ q[k].call = p[k]
  BY <1>1, OwedFacts
<1> HIDE DEF o, p, q
<1>4. /\ n \in Nat /\ c \in Seq(Messages) /\ Len(c) = n + 1 /\ c[n + 1] = m
      /\ \A i \in 1 .. n : c[i] = ch[i]
  OBVIOUS
<1> HIDE DEF c, l
<1>5. /\ a \in Seq(Messages) /\ Len(a) = n + l
      /\ \A i \in 1 .. n : a[i] = ch[i]
      /\ \A k \in 1 .. l : a[n + k] = o[k]
  <2>1. /\ a \in Seq(Messages) /\ Len(a) = Len(ch) + Len(o)
        /\ \A i \in 1 .. Len(ch) + Len(o) :
             a[i] = IF i <= Len(ch) THEN ch[i] ELSE o[i - Len(ch)]
    BY <1>2, ConcatProperties
  <2>2. ASSUME NEW k \in 1 .. l PROVE a[n + k] = o[k]
    <3>1. n + k \in 1 .. n + l /\ ~(n + k <= n) /\ (n + k) - n = k
      BY <1>1, <1>4
    <3> QED
      BY <1>2, <2>1, <3>1
  <2>3. \A i \in 1 .. n : i \in 1 .. n + l /\ i <= n
    BY <1>1, <1>4
  <2> QED
    BY <1>2, <2>1, <2>2, <2>3
<1>6. /\ b \in Seq(Messages) /\ Len(b) = n + l
      /\ \A i \in 1 .. n + 1 : b[i] = c[i]
      /\ \A k \in 1 .. l - 1 : b[n + 1 + k] = q[k]
  <2>1. b \in Seq(Messages) /\ Len(b) = Len(c) + Len(q)
    BY <1>3, <1>4, ConcatProperties
  <2>2. \A i \in 1 .. Len(c) : b[i] = c[i]
    BY <1>3, <1>4
  <2>3. \A k \in 1 .. Len(q) : b[Len(c) + k] = q[k]
    BY <1>3, <1>4
  <2> QED
    BY <1>1, <1>3, <1>4, <2>1, <2>2, <2>3
<1> HIDE DEF a, b, n
<1>7. ASSUME NEW i \in 1 .. n + l
      PROVE  b[i].role = a[i].role /\ b[i].calls = a[i].calls /\ b[i].call = a[i].call
  <2>1. CASE i \in 1 .. n
    <3>1. i \in 1 .. n + 1
      BY <1>4, <2>1
    <3> QED
      BY <1>4, <1>5, <1>6, <2>1, <3>1
  <2>2. CASE i = n + 1
    <3>1. b[i] = m /\ a[i] = o[1] /\ 1 \in 1 .. l
      <4>1. 1 \in 1 .. l /\ n + 1 \in 1 .. n + 1
        BY <1>1, <1>4
      <4> QED
        BY <1>4, <1>5, <1>6, <2>2, <4>1
    <3> QED
      BY <1>1, <1>2, <3>1
  <2>3. CASE i \notin 1 .. n /\ i # n + 1
    <3> DEFINE k == i - n - 1
    <3>1. /\ k \in 1 .. l - 1 /\ k + 1 \in 1 .. l
          /\ i = n + 1 + k /\ i = n + (k + 1)
      <4>1. i \in Int /\ n \in Int /\ l \in Int /\ i > n + 1 /\ i <= n + l
        BY <1>1, <1>4, <2>3
      <4> QED
        BY <4>1
    <3> HIDE DEF k
    <3>2. b[i] = q[k] /\ a[i] = o[k + 1]
      BY <1>5, <1>6, <3>1
    <3> QED
      BY <1>1, <1>2, <1>3, <3>1, <3>2
  <2> QED
    BY <2>1, <2>2, <2>3
<1>8. \A i \in n + l + 1 .. n + l : FALSE
  BY <1>1, <1>4
<1>9. n + l <= n + l
  BY <1>1, <1>4
<1>10. SameCalls(a, b)
  BY <1>5, <1>6, <1>7, <1>8, <1>9 DEF SameCalls
<1> QED
  BY <1>5, <1>6, <1>10 DEF a, b, c, o, q, p

\* The chain is paired once the calls still to be run have their results.
PairInv ==
  /\ pc = "tools" => Paired(Chain \o Owed(todo))
  /\ TurnPaired

LEMMA PairedNone == Paired(<<>>)
  BY DEF Paired

LEMMA OwedNone == Owed(<<>>) = <<>>
<1>1. Len(<<>>) = 0 /\ \A S : <<>> \in Seq(S)
  OBVIOUS
<1>2. Owed(<<>>) \in Seq(Messages) /\ Len(Owed(<<>>)) = 0
  BY <1>1, OwedFacts
<1> QED
  BY <1>2, EmptySeq

LEMMA PairStep == TypeInv /\ TypeInv' /\ PairInv /\ [Next]_vars => PairInv'
<1> SUFFICES ASSUME TypeInv, TypeInv', PairInv, [Next]_vars PROVE PairInv'
  OBVIOUS
<1>1. /\ Chain \in Seq(Messages) /\ Chain' \in Seq(Messages)
      /\ messages \in Seq(Messages) /\ turnStart \in 0 .. Len(messages)
  <2>1. Chain \in Seq(Messages)
    BY ChainTyped
  <2>2. (TypeInv => Chain \in Seq(Messages))'
    BY ChainTyped, PTL
  <2> QED
    BY <2>1, <2>2 DEF TypeInv, TypeOK
<1>2. CASE Start
  <2>1. turnStart' = Len(messages') /\ pc' = "ask"
    BY <1>2 DEF Start
  <2>2. Chain' = <<>>
    BY <2>1 DEF Chain, TypeInv, TypeOK
  <2> QED
    BY <2>1, <2>2, PairedNone DEF PairInv, TurnPaired
<1>3. CASE AskTools
  <2>1. PICK calls \in CallLists :
          messages' = Append(messages, AsksFor(calls)) /\ todo' = calls
    BY <1>3 DEF AskTools
  <2>2. turnStart' = turnStart /\ pc' = "tools" /\ pc = "ask"
    BY <1>3 DEF AskTools
  <2>3. AsksFor(calls) \in Messages
    BY MessagesMade
  <2>4. Chain' = Append(Chain, AsksFor(calls))
    <3>1. SubSeq(Append(messages, AsksFor(calls)), turnStart + 1,
                 Len(Append(messages, AsksFor(calls))))
            = Append(Chain, AsksFor(calls))
      BY <1>1, <2>3, AfterAppend DEF Chain
    <3> QED
      BY <2>1, <2>2, <3>1 DEF Chain
  <2>5. Paired(Chain \o (<<AsksFor(calls)>> \o Owed(calls)))
    <3>1. Paired(Chain)
      BY <2>2 DEF PairInv, TurnPaired
    <3> QED
      BY <1>1, <3>1, AskOwed, PairedConcat
  <2>6. Chain' \o Owed(calls) = Chain \o (<<AsksFor(calls)>> \o Owed(calls))
    <3> DEFINE m == AsksFor(calls)
               o == Owed(calls)
    <3>1. o \in Seq(Messages) /\ m \in Messages
      BY <2>3, CallListsAreCalls, OwedFacts
    <3> HIDE DEF m, o
    <3>2. Append(Chain, m) \o o = Chain \o (<<m>> \o o)
      BY <1>1, <3>1
    <3> QED
      BY <2>4, <3>2 DEF m, o
  <2> QED
    BY <2>1, <2>2, <2>5, <2>6 DEF PairInv, TurnPaired
<1>4. CASE Fetch \/ Recall \/ Refuse
  <2> DEFINE c == Head(todo)
  <2>1. pc = "tools" /\ c \in Calls /\ UNCHANGED <<turnStart, budget>>
    BY <1>4, ToolStep
  <2>2. PICK r \in {"none", "ok", "error", "refused"}, new \in BOOLEAN, cap \in BOOLEAN :
          /\ Result(c, r) \in Messages
          /\ Onward(Append(messages, Result(c, r)), new, cap)
    BY <1>4, ToolStep
  <2> DEFINE m == Result(c, r)
             b == Append(Chain, m)
  <2>3. Goes(b, new, cap) /\ Like(b, Chain') /\ todo' = Tail(todo)
    BY <2>1, <2>2, OnwardEffect
  <2>4. m.role = "tool" /\ m.calls = <<>> /\ m.call = c
    BY <2>1, MessagesMade
  <2>5. todo \in Seq(Calls) /\ todo # <<>>
    BY <2>1, CallListsAreCalls DEF TypeInv, TypeOK
  <2>6. b \in Seq(Messages)
    BY <1>1, <2>2
  <2>7. Paired(b \o Owed(todo'))
    <3> HIDE DEF m
    <3>1. /\ b \o Owed(Tail(todo)) \in Seq(Messages) /\ Chain \o Owed(todo) \in Seq(Messages)
          /\ SameCalls(Chain \o Owed(todo), b \o Owed(Tail(todo)))
      BY <1>1, <2>2, <2>4, <2>5, OwedPaid DEF m
    <3>2. Paired(Chain \o Owed(todo))
      BY <2>1 DEF PairInv
    <3>3. Paired(b \o Owed(Tail(todo)))
      BY <3>1, <3>2, SamePaired
    <3> QED
      BY <2>3, <3>3
  <2> HIDE DEF b, c, m
  <2>8. CASE pc' = "tools"
    <3>1. Chain' = b
      BY <2>3, <2>8 DEF Goes
    <3> QED
      BY <2>7, <2>8, <3>1 DEF PairInv, TurnPaired
  <2>9. CASE pc' # "tools"
    <3>1. todo' = <<>>
      BY <2>3, <2>9 DEF Goes
    <3>2. Paired(b)
      BY <2>6, <2>7, <3>1, OwedNone, ConcatEmptySeq
    <3>3. Paired(Chain')
      BY <1>1, <2>3, <2>6, <3>2, LikeSameCalls, SamePaired
    <3> QED
      BY <2>9, <3>3 DEF PairInv, TurnPaired
  <2> QED
    BY <2>8, <2>9
<1>5. CASE UNCHANGED vars
  <2>1. Chain' = Chain
    BY <1>5 DEF vars, turn, Chain
  <2> QED
    BY <1>5, <2>1 DEF vars, turn, PairInv, TurnPaired
<1>6. ASSUME Send \/ Answer \/ Receive \/ Fail
      PROVE  pc' \notin {"ask", "tools", "wrapup"}
  BY <1>6 DEF Send, Answer, Receive, Fail
<1> QED
  BY <1>2, <1>3, <1>4, <1>5, <1>6 DEF Next, PairInv, TurnPaired

\* Whatever the model asks for and whatever comes back, each of its tool calls
\* has its one result, in its place, whenever the model is asked again.
THEOREM ChatTurnPaired == Spec => []TurnPaired
<1>1. Init => PairInv
  BY DEF Init, PairInv, TurnPaired
<1>2. PairInv => TurnPaired
  BY DEF PairInv
<1> QED
  BY <1>1, <1>2, TypeInit, TypeStep, PairStep, PTL DEF Spec

-----------------------------------------------------------------------------
(* The history: what the browser keeps, and what the model is sent of it.   *)

\* The first n messages are calls and results, and only results say anything.
Linked(ch, n) ==
  \A i \in 1 .. n : InChain(ch[i]) /\ (ch[i].result # "none" => ch[i].role = "tool")

HistoryInv ==
  /\ HistoryReplayable
  /\ \A i \in 1 .. Len(history) : history[i].result # "none" => history[i].role = "tool"
  /\ pc \in {"ask", "tools"} => Linked(Chain, Len(Chain))
  /\ pc = "wrapup" => /\ Len(Chain) > 0 /\ Chain[Len(Chain)] = Nudge
                      /\ Linked(Chain, Len(Chain) - 1)
  /\ pc = "reply" => \E ch \in Seq(Messages) :
                       /\ reply = Append(ch, Plain("assistant"))
                       /\ Linked(ch, Len(ch)) /\ Paired(ch)

\* The answer comes after what is left of the chain without the nudge: all.
LEMMA TurnAnswered ==
  ASSUME TypeInv, HistoryInv, TurnPaired, pc \in {"ask", "wrapup"}
  PROVE  \E ch \in Seq(Messages) :
           /\ TurnMessages = Append(ch, Plain("assistant"))
           /\ Linked(ch, Len(ch)) /\ Paired(ch)
<1> DEFINE keep(s) == {i \in DOMAIN s : s[i] # Nudge}
<1>1. Chain \in Seq(Messages) /\ Len(Chain) \in Nat /\ DOMAIN Chain = 1 .. Len(Chain)
  BY ChainTyped
<1>2. Paired(Chain)
  BY DEF TurnPaired
<1>3. \A m : InChain(m) => m # Nudge
  BY MessagesMade DEF InChain
<1>4. CASE pc = "ask"
  <2>1. Linked(Chain, Len(Chain))
    BY <1>4 DEF HistoryInv
  <2>2. keep(Chain) = 1 .. Len(Chain)
    BY <1>1, <1>3, <2>1 DEF Linked
  <2>3. Select(Chain, keep(Chain)) = Chain
    BY <1>1, <2>2, SelectAll
  <2>4. TurnMessages = Append(Chain, Plain("assistant"))
    BY <2>3 DEF TurnMessages
  <2> QED
    BY <1>1, <1>2, <2>1, <2>4
<1>5. CASE pc = "wrapup"
  <2> DEFINE ch == SubSeq(Chain, 1, Len(Chain) - 1)
             n == Len(Chain) - 1
  <2>1. /\ Len(Chain) > 0 /\ Chain[Len(Chain)] = Nudge /\ Linked(Chain, n)
    BY SMTT(30), <1>5 DEF HistoryInv
  <2>2. /\ n \in Nat /\ Len(Chain) = n + 1 /\ ch \in Seq(Messages) /\ Len(ch) = n
        /\ \A i \in 1 .. n : ch[i] = Chain[i] /\ i \in 1 .. Len(Chain)
        /\ \A i \in 1 .. Len(Chain) : i \in 1 .. n \/ i = Len(Chain)
    <3>1. n \in Nat /\ Len(Chain) = n + 1
      BY <1>1, <2>1
    <3>2. /\ \A i \in 1 .. n : i \in 1 .. Len(Chain)
          /\ \A i \in 1 .. Len(Chain) : i \in 1 .. n \/ i = Len(Chain)
      <4> HIDE DEF n
      <4> QED
        BY <3>1
    <3>3. ch \in Seq(Messages) /\ Len(ch) = n /\ \A i \in 1 .. n : ch[i] = Chain[i]
      <4> HIDE DEF n
      <4>1. ASSUME NEW i \in 1 .. n PROVE Chain[i] \in Messages
        <5>1. i \in 1 .. Len(Chain)
          BY <3>2
        <5> QED
          BY <1>1, <5>1
      <4>2. /\ SubSeq(Chain, 1, n) \in Seq(Messages) /\ Len(SubSeq(Chain, 1, n)) = n
            /\ \A i \in 1 .. n : SubSeq(Chain, 1, n)[i] = Chain[i]
        BY <3>1, <4>1
      <4> QED
        BY <4>2 DEF n
    <3> QED
      BY <3>1, <3>2, <3>3
  <2>3. Chain = Append(ch, Nudge)
    <3>1. Chain # <<>>
      BY <1>1, <2>1
    <3>2. Append(SubSeq(Chain, 1, Len(Chain) - 1), Chain[Len(Chain)]) = Chain
      BY <1>1, <3>1
    <3> QED
      BY <2>1, <3>2
  <2> HIDE DEF ch, n
  <2>4. keep(Chain) = 1 .. Len(ch)
    <3>1. ASSUME NEW i \in 1 .. n PROVE Chain[i] # Nudge
      BY <1>3, <2>1, <3>1 DEF Linked
    <3>2. \A i \in 1 .. n : i # Len(Chain)
      BY <2>2
    <3> QED
      BY <1>1, <2>1, <2>2, <3>1, <3>2
  <2>5. Select(Chain, keep(Chain)) = ch
    <3>1. Select(Append(ch, Nudge), 1 .. Len(ch)) = Select(ch, 1 .. Len(ch))
      <4> DEFINE all == 1 .. Len(ch)
      <4>1. all \in SUBSET (1 .. Len(ch))
        OBVIOUS
      <4> HIDE DEF all
      <4>2. Nudge \in Messages /\ ch \in Seq(Messages)
        BY <2>2, MessagesMade
      <4>3. Select(Append(ch, Nudge), all) = Select(ch, all)
        BY ZenonT(60), <4>1, <4>2, SelectAppend
      <4> QED
        BY <4>3 DEF all
    <3>2. Select(ch, 1 .. Len(ch)) = ch
      BY <2>2, SelectAll
    <3> QED
      BY <2>3, <2>4, <3>1, <3>2
  <2>6. Linked(ch, Len(ch))
    BY <2>1, <2>2 DEF Linked
  <2>7. Paired(ch)
    <3>1. Like(ch, Chain)
      BY <2>2, <2>3, LikeAppend, MessagesMade
    <3> QED
      BY <1>1, <1>2, <2>2, <3>1, LikeSameCalls, SamePaired
  <2>8. TurnMessages = Append(ch, Plain("assistant"))
    BY <2>5 DEF TurnMessages
  <2> QED
    BY <2>2, <2>6, <2>7, <2>8
<1> QED
  BY <1>4, <1>5

\* A question is a history's new end.
LEMMA HistoryAsked ==
  ASSUME TypeInv, HistoryInv, history' = Append(history, Plain("user"))
  PROVE  /\ HistoryReplayable'
         /\ \A i \in 1 .. Len(history') :
              history'[i].result # "none" => history'[i].role = "tool"
<1> DEFINE m == Plain("user")
           n == Len(history)
           h == history'
<1>1. m \in Messages /\ m.role = "user" /\ m.calls = <<>> /\ m.result = "none"
  BY MessagesMade
<1>2. history \in Seq(Messages)
  BY DEF TypeInv, TypeOK
<1> HIDE DEF m
<1>3. /\ n \in Nat /\ h \in Seq(Messages) /\ Len(h) = n + 1 /\ h = Append(history, m)
      /\ \A i \in 1 .. n : h[i] = history[i]
      /\ h[n + 1] = m /\ DOMAIN h = 1 .. n + 1 /\ DOMAIN history = 1 .. n
      /\ \A i \in 1 .. n + 1 : i \in 1 .. n \/ i = n + 1
  BY <1>1, <1>2 DEF m
<1> HIDE DEF n, h
<1>4. /\ Paired(history)
      /\ \A i \in 1 .. n :
           /\ history[i] # Nudge
           /\ (history[i].role = "assistant" /\ history[i].calls = <<>>) =>
                \E q \in 1 .. i - 1 : /\ history[q].role = "user"
                                      /\ \A k \in q + 1 .. i - 1 : InChain(history[k])
      /\ \A i \in 1 .. n : history[i].result # "none" => history[i].role = "tool"
  BY <1>3 DEF HistoryInv, HistoryReplayable, n
<1>5. Paired(h)
  BY <1>1, <1>2, <1>3, <1>4, LikeAppend, LikeSameCalls, SamePaired
<1>6. \A i \in 1 .. n + 1 : h[i].result # "none" => h[i].role = "tool"
  BY <1>1, <1>3, <1>4
<1>7. \A i \in 1 .. n + 1 : h[i] # Nudge
  BY <1>6, MessagesMade
<1>8. ASSUME NEW i \in 1 .. n + 1, h[i].role = "assistant", h[i].calls = <<>>
      PROVE  \E q \in 1 .. i - 1 : /\ h[q].role = "user"
                                   /\ \A k \in q + 1 .. i - 1 : InChain(h[k])
  <2>1. i \in 1 .. n
    BY <1>1, <1>3, <1>8
  <2>2. PICK q \in 1 .. i - 1 : /\ history[q].role = "user"
                                /\ \A k \in q + 1 .. i - 1 : InChain(history[k])
    BY <1>3, <1>4, <1>8, <2>1
  <2>3. q \in 1 .. n /\ \A k \in q + 1 .. i - 1 : k \in 1 .. n
    BY <1>3, <2>1, <2>2
  <2> QED
    BY <1>3, <2>2, <2>3
<1>9. HistoryReplayable'
  BY <1>3, <1>5, <1>7, <1>8 DEF HistoryReplayable, h
<1> QED
  BY <1>3, <1>6, <1>9 DEF h

\* A turn's messages are kept after its question.
LEMMA HistoryKept ==
  ASSUME TypeInv, HistoryInv, pc = "reply", history' = history \o reply
  PROVE  /\ HistoryReplayable'
         /\ \A i \in 1 .. Len(history') :
              history'[i].result # "none" => history'[i].role = "tool"
<1> DEFINE n == Len(history)
           h == history'
           m == Plain("assistant")
<1>1. m \in Messages /\ m.role = "assistant" /\ m.calls = <<>> /\ m.result = "none"
  BY MessagesMade
<1>2. /\ history \in Seq(Messages) /\ reply \in Seq(Messages)
      /\ history # <<>> /\ history[Len(history)] = Plain("user")
  BY DEF TypeInv, TypeOK
<1>3. PICK ch \in Seq(Messages) :
        reply = Append(ch, m) /\ Linked(ch, Len(ch)) /\ Paired(ch)
  BY DEF HistoryInv
<1> HIDE DEF m
<1> DEFINE l == Len(ch)
<1>4. /\ l \in Nat /\ Len(reply) = l + 1 /\ reply[l + 1] = m
      /\ \A j \in 1 .. l : reply[j] = ch[j]
  BY <1>1, <1>3
<1>5. n \in Nat /\ n >= 1 /\ history[n].role = "user"
  BY <1>2, MessagesMade
<1>6. /\ h \in Seq(Messages) /\ Len(h) = n + (l + 1)
      /\ \A i \in 1 .. Len(history) + Len(reply) :
           h[i] = IF i <= Len(history) THEN history[i] ELSE reply[i - Len(history)]
  <2>1. /\ history \o reply \in Seq(Messages)
        /\ Len(history \o reply) = Len(history) + Len(reply)
        /\ \A i \in 1 .. Len(history) + Len(reply) : (history \o reply)[i] =
             IF i <= Len(history) THEN history[i] ELSE reply[i - Len(history)]
    BY <1>2, ConcatProperties
  <2> QED
    BY <1>4, <2>1
<1> HIDE DEF h, l
<1>7. /\ \A i \in 1 .. n : i \in 1 .. n + (l + 1) /\ h[i] = history[i]
      /\ DOMAIN h = 1 .. n + (l + 1) /\ DOMAIN history = 1 .. n
  BY <1>2, <1>4, <1>5, <1>6
<1>8. ASSUME NEW j \in 1 .. l + 1
      PROVE  n + j \in 1 .. n + (l + 1) /\ h[n + j] = reply[j]
  <2>1. /\ n + j \in 1 .. n + (l + 1) /\ ~(n + j <= n) /\ (n + j) - n = j
    BY <1>4, <1>5
  <2> QED
    BY <1>4, <1>6, <2>1
<1> HIDE DEF n
<1>9. ASSUME NEW i \in 1 .. n + (l + 1)
      PROVE  i \in 1 .. n \/ i = n + (l + 1) \/ \E j \in 1 .. l : i = n + j
  <2>1. CASE i > n /\ i # n + (l + 1)
    <3>1. i - n \in 1 .. l /\ i = n + (i - n)
      BY <1>4, <1>5, <2>1
    <3> QED
      BY <3>1
  <2> QED
    BY <1>5, <2>1
<1>10. /\ Paired(history)
       /\ \A i \in 1 .. n :
            /\ history[i] # Nudge
            /\ (history[i].role = "assistant" /\ history[i].calls = <<>>) =>
                 \E q \in 1 .. i - 1 : /\ history[q].role = "user"
                                       /\ \A k \in q + 1 .. i - 1 : InChain(history[k])
       /\ \A i \in 1 .. n : history[i].result # "none" => history[i].role = "tool"
  BY <1>7 DEF HistoryInv, HistoryReplayable, n
<1>11. ASSUME NEW j \in 1 .. l
       PROVE  /\ InChain(h[n + j]) /\ (h[n + j].result # "none" => h[n + j].role = "tool")
  <2>1. j \in 1 .. l + 1
    BY <1>4
  <2>2. h[n + j] = ch[j]
    BY <1>4, <1>8, <2>1
  <2> QED
    BY <1>3, <2>2 DEF Linked, l
<1>12. h[n + (l + 1)] = m
  <2>1. l + 1 \in 1 .. l + 1
    BY <1>4
  <2> QED
    BY <1>4, <1>8, <2>1
<1>13. Paired(h)
  <2>1. Like(ch, Append(ch, m))
    BY <1>1, LikeAppend
  <2>2. Paired(reply)
    BY <1>2, <1>3, <2>1, LikeSameCalls, SamePaired
  <2> QED
    BY <1>2, <1>10, <2>2, PairedConcat DEF h
<1>14. ASSUME NEW i \in 1 .. n + (l + 1) PROVE h[i].result # "none" => h[i].role = "tool"
  <2>1. CASE i \in 1 .. n
    BY <1>7, <1>10, <2>1
  <2>2. CASE i = n + (l + 1)
    BY <1>1, <1>12, <2>2
  <2>3. CASE \E j \in 1 .. l : i = n + j
    BY <1>11, <2>3
  <2> QED
    BY <1>9, <2>1, <2>2, <2>3
<1>15. \A i \in 1 .. n + (l + 1) : h[i] # Nudge
  BY <1>14, MessagesMade
<1>16. ASSUME NEW i \in 1 .. n + (l + 1), h[i].role = "assistant", h[i].calls = <<>>
       PROVE  \E q \in 1 .. i - 1 : /\ h[q].role = "user"
                                    /\ \A k \in q + 1 .. i - 1 : InChain(h[k])
  <2>1. CASE i \in 1 .. n
    <3>1. PICK q \in 1 .. i - 1 : /\ history[q].role = "user"
                                  /\ \A k \in q + 1 .. i - 1 : InChain(history[k])
      BY <1>7, <1>10, <1>16, <2>1
    <3>2. q \in 1 .. n /\ \A k \in q + 1 .. i - 1 : k \in 1 .. n
      BY <1>5, <2>1, <3>1
    <3> QED
      BY <1>7, <3>1, <3>2
  <2>2. CASE i = n + (l + 1)
    <3>1. n \in 1 .. i - 1 /\ n \in 1 .. n
      BY <1>4, <1>5, <2>2
    <3>2. h[n].role = "user"
      BY <1>5, <1>7, <3>1
    <3>3. ASSUME NEW k \in n + 1 .. i - 1 PROVE InChain(h[k])
      <4>1. k - n \in 1 .. l /\ k = n + (k - n)
        BY <1>4, <1>5, <2>2, <3>3
      <4> QED
        BY <1>11, <4>1
    <3> QED
      BY <3>1, <3>2, <3>3
  <2>3. CASE \E j \in 1 .. l : i = n + j
    <3>1. InChain(h[i])
      BY <1>11, <2>3
    <3> QED
      BY <1>16, <3>1 DEF InChain
  <2> QED
    BY <1>9, <2>1, <2>2, <2>3
<1>17. HistoryReplayable'
  BY <1>7, <1>13, <1>15, <1>16 DEF HistoryReplayable, h
<1> QED
  BY <1>6, <1>14, <1>17 DEF h

\* The indices of the questions and answers.
TalkAt(ms) == {i \in 1 .. Len(ms) : IsTalk(ms[i])}

LEMMA TalkSelects ==
  ASSUME NEW ms \in Seq(Messages)
  PROVE  Talk(ms) = Select(ms, TalkAt(ms)) /\ TalkAt(ms) \in SUBSET (1 .. Len(ms))
<1>1. DOMAIN ms = 1 .. Len(ms)
  OBVIOUS
<1> QED
  BY <1>1 DEF Talk, TalkAt

\* Nothing that is talk is part of a tool chain.
LEMMA TalkApart == \A m : IsTalk(m) => ~InChain(m)
  BY DEF IsTalk, InChain

LEMMA TalkAsked ==
  ASSUME NEW ms \in Seq(Messages), NEW m \in Messages, m.role = "user"
  PROVE  Talk(Append(ms, m)) = Append(Talk(ms), m)
<1> DEFINE s == Append(ms, m)
           n == Len(ms)
           D == TalkAt(ms)
<1>1. /\ n \in Nat /\ s \in Seq(Messages) /\ Len(s) = n + 1 /\ s[n + 1] = m
      /\ \A i \in 1 .. n : s[i] = ms[i]
      /\ \A i \in 1 .. n + 1 : i \in 1 .. n \/ i = n + 1
      /\ \A i \in 1 .. n : i \in 1 .. n + 1
      /\ n + 1 \in 1 .. n + 1
  OBVIOUS
<1>2. IsTalk(m)
  BY DEF IsTalk
<1> HIDE DEF s, n
<1>3. TalkAt(s) = D \cup {n + 1}
  BY <1>1, <1>2 DEF TalkAt, n
<1>4. Talk(ms) = Select(ms, D) /\ D \in SUBSET (1 .. Len(ms)) /\ Talk(s) = Select(s, TalkAt(s))
  BY <1>1, TalkSelects
<1> HIDE DEF D
<1>5. Select(Append(ms, m), D \cup {Len(ms) + 1}) = Append(Select(ms, D), m)
  BY <1>4, SelectAppend
<1> QED
  BY <1>3, <1>4, <1>5 DEF s, n

\* The instructions before a history are not talk.
LEMMA TalkInstructed ==
  ASSUME NEW ms \in Seq(Messages), NEW m \in Messages, m.role = "system"
  PROVE  Talk(<<m>> \o ms) = Talk(ms)
<1> DEFINE s == <<m>>
           t == s \o ms
           D == TalkAt(ms)
           F == TalkAt(t)
<1>1. s \in Seq(Messages) /\ Len(s) = 1 /\ s[1] = m
  OBVIOUS
<1>2. ~IsTalk(m)
  BY DEF IsTalk
<1> HIDE DEF s
<1>3. /\ t \in Seq(Messages) /\ Len(t) = 1 + Len(ms) /\ Len(ms) \in Nat
      /\ t[1] = m /\ \A j \in 1 .. Len(ms) : t[1 + j] = ms[j]
  <2>1. /\ t \in Seq(Messages) /\ Len(t) = Len(s) + Len(ms) /\ Len(ms) \in Nat
        /\ \A i \in 1 .. Len(s) + Len(ms) :
             t[i] = IF i <= Len(s) THEN s[i] ELSE ms[i - Len(s)]
    BY <1>1, ConcatProperties
  <2>2. 1 \in 1 .. 1 + Len(ms) /\ 1 <= 1
    BY <2>1
  <2>3. ASSUME NEW j \in 1 .. Len(ms) PROVE t[1 + j] = ms[j]
    <3>1. 1 + j \in 1 .. 1 + Len(ms) /\ ~(1 + j <= 1) /\ (1 + j) - 1 = j
      BY <2>1
    <3> QED
      BY <1>1, <2>1, <3>1
  <2> QED
    BY <1>1, <2>1, <2>2, <2>3
<1> HIDE DEF t
<1>4. /\ Talk(ms) = Select(ms, D) /\ D \in SUBSET (1 .. Len(ms))
      /\ Talk(t) = Select(t, F)
  BY <1>3, TalkSelects
<1> DEFINE g == [j \in D |-> 1 + j]
<1>5. ASSUME NEW j \in D PROVE j \in Nat /\ 1 + j \in F /\ ms[j] = t[1 + j]
  <2>1. j \in 1 .. Len(ms) /\ IsTalk(ms[j])
    BY <1>5 DEF TalkAt
  <2>2. j \in Nat /\ 1 + j \in 1 .. 1 + Len(ms) /\ t[1 + j] = ms[j]
    BY <1>3, <2>1
  <2> QED
    BY <1>3, <2>1, <2>2 DEF TalkAt
<1>6. ASSUME NEW i \in F PROVE \E j \in D : 1 + j = i
  <2>1. i \in 1 .. 1 + Len(ms) /\ IsTalk(t[i])
    BY <1>3, <1>6 DEF TalkAt
  <2>2. i # 1
    BY <1>2, <1>3, <2>1
  <2>3. i - 1 \in 1 .. Len(ms) /\ i = 1 + (i - 1)
    BY <1>3, <2>1, <2>2
  <2>4. i - 1 \in D
    BY <1>3, <2>1, <2>3 DEF TalkAt
  <2> QED
    BY <2>3, <2>4
<1>7. F \in SUBSET (1 .. Len(t))
  BY <1>3, TalkSelects
<1> HIDE DEF D, F
<1>8. g \in [D -> F] /\ \A j \in D : g[j] = 1 + j
  BY <1>5
<1> HIDE DEF g
<1>9. /\ \A i, j \in D : i < j => g[i] < g[j]
      /\ \A i \in F : \E j \in D : g[j] = i
      /\ \A j \in D : ms[j] = t[g[j]]
  BY <1>5, <1>6, <1>8
<1>10. Select(ms, D) = Select(t, F)
  <2>1. t \in Seq(Messages) /\ D \in SUBSET (1 .. Len(ms)) /\ g \in [D -> F]
    BY <1>3, <1>4, <1>8
  <2> QED
    BY <2>1, <1>7, <1>9, SelectMatch
<1> QED
  BY <1>4, <1>10 DEF t, s

\* Shortening and dropping leave the talk as it is.
LEMMA TalkFitted ==
  ASSUME NEW ms \in Seq(Messages), NEW cut, NEW drop,
         \A i \in 1 .. Len(ms) : ms[i].result # "none" => ms[i].role = "tool"
  PROVE  Talk(Select(Shortened(ms, cut), Undropped(ms, drop))) = Talk(ms)
<1> DEFINE x == Shortened(ms, cut)
           U == Undropped(ms, drop)
           s == Select(x, U)
           T == TalkAt(ms)
           n == Cardinality(U)
           K == {k \in 1 .. n : Nth(U, k) \in T}
<1>1. /\ x \in Seq(Messages) /\ Len(x) = Len(ms) /\ U \in SUBSET (1 .. Len(ms))
      /\ s \in Seq(Messages)
  BY FittedFacts
<1>2. /\ Len(s) = n /\ n \in Nat
      /\ \A k \in 1 .. n : Nth(U, k) \in U /\ s[k] = x[Nth(U, k)]
  BY <1>1, SelectProperties
<1>3. /\ Talk(ms) = Select(ms, T) /\ T \in SUBSET (1 .. Len(ms))
      /\ Talk(s) = Select(s, TalkAt(s))
  BY <1>1, TalkSelects
<1>4. ASSUME NEW i \in 1 .. Len(ms)
      PROVE  /\ IsTalk(x[i]) <=> IsTalk(ms[i])
             /\ IsTalk(ms[i]) => x[i] = ms[i]
  <2>1. DOMAIN ms = 1 .. Len(ms) /\ ms[i] \in Messages
    BY <1>4
  <2>2. x[i] = IF i <= cut /\ Size(ms[i]) > 1 THEN [ms[i] EXCEPT !.short = TRUE] ELSE ms[i]
    BY <2>1 DEF Shortened
  <2>3. [ms[i] EXCEPT !.short = TRUE].role = ms[i].role
        /\ [ms[i] EXCEPT !.short = TRUE].calls = ms[i].calls
    BY <2>1 DEF Messages
  <2>4. CASE x[i] = ms[i]
    BY <2>4
  <2>5. CASE x[i] # ms[i]
    <3>1. Size(ms[i]) > 1 /\ x[i] = [ms[i] EXCEPT !.short = TRUE]
      BY <2>2, <2>5
    <3>2. ms[i].result = "ok"
      <4>1. CASE ms[i].result # "ok"
        <5>1. Size(ms[i]) = 1
          BY <4>1 DEF Size
        <5> QED
          BY <3>1, <5>1
      <4> QED
        BY <4>1
    <3>3. ms[i].role = "tool"
      BY <1>4, <3>2
    <3> QED
      BY <2>3, <3>1, <3>3 DEF IsTalk
  <2> QED
    BY <2>4, <2>5
<1>5. T \in SUBSET U
  <2>1. ASSUME NEW i \in T PROVE i \in U
    <3>1. i \in 1 .. Len(ms) /\ IsTalk(ms[i]) /\ i \in DOMAIN ms
      BY <2>1 DEF TalkAt
    <3>2. ~InChain(ms[i])
      BY <3>1, TalkApart
    <3> QED
      BY <3>1, <3>2 DEF Undropped
  <2> QED
    BY <2>1
<1> HIDE DEF x, U
<1>6. TalkAt(s) = K
  <2>1. ASSUME NEW k \in 1 .. n PROVE IsTalk(s[k]) <=> Nth(U, k) \in T
    <3>1. Nth(U, k) \in 1 .. Len(ms) /\ s[k] = x[Nth(U, k)]
      BY <1>1, <1>2
    <3> QED
      BY <1>4, <3>1 DEF TalkAt
  <2> QED
    BY <1>2, <2>1 DEF TalkAt
<1> HIDE DEF T
<1>7. Select(s, K) = Select(x, T)
  <2>1. U \in SUBSET (1 .. Len(x))
    BY <1>1
  <2> QED
    BY <1>1, <1>5, <2>1, SelectSelect
<1>8. Select(x, T) = Select(ms, T)
  <2> DEFINE g == [i \in T |-> i]
  <2>1. /\ g \in [T -> T] /\ \A i \in T : g[i] = i /\ i \in Nat
        /\ T \in SUBSET (1 .. Len(x))
    BY <1>1, <1>3
  <2>2. \A i \in T : x[i] = ms[i]
    BY <1>3, <1>4 DEF T, TalkAt
  <2> HIDE DEF g
  <2>3. /\ \A i, j \in T : i < j => g[i] < g[j]
        /\ \A j \in T : \E i \in T : g[i] = j
        /\ \A i \in T : x[i] = ms[g[i]]
    BY <2>1, <2>2
  <2> QED
    BY <1>1, <1>3, <2>1, <2>3, SelectMatch
<1> QED
  BY <1>3, <1>6, <1>7, <1>8 DEF x, U

\* Results lengthen a chain of calls and results.
LEMMA LinkedOn ==
  ASSUME NEW ch \in Seq(Messages), Linked(ch, Len(ch)), NEW m \in Messages,
         InChain(m), m.result # "none" => m.role = "tool",
         NEW b \in Seq(Messages), Like(Append(ch, m), b)
  PROVE  Linked(b, Len(ch) + 1)
<1> DEFINE c == Append(ch, m)
           n == Len(ch)
<1>1. /\ n \in Nat /\ Len(c) = n + 1 /\ c[n + 1] = m
      /\ \A i \in 1 .. n : c[i] = ch[i]
      /\ \A i \in 1 .. n + 1 : i \in 1 .. n \/ i = n + 1
  OBVIOUS
<1>2. \A i \in 1 .. Len(c) :
        b[i].role = c[i].role /\ b[i].calls = c[i].calls /\ b[i].result = c[i].result
  BY DEF Like
<1>3. \A i \in 1 .. n : InChain(ch[i]) /\ (ch[i].result # "none" => ch[i].role = "tool")
  BY DEF Linked
<1> HIDE DEF c, n
<1>4. ASSUME NEW i \in 1 .. n + 1
      PROVE  InChain(b[i]) /\ (b[i].result # "none" => b[i].role = "tool")
  <2>1. InChain(c[i]) /\ (c[i].result # "none" => c[i].role = "tool")
    BY <1>1, <1>3
  <2> QED
    BY <1>1, <1>2, <2>1 DEF InChain
<1> QED
  BY <1>4 DEF Linked, n

LEMMA HistoryStep == TypeInv /\ TypeInv' /\ TurnPaired /\ HistoryInv /\ [Next]_vars => HistoryInv'
<1> SUFFICES ASSUME TypeInv, TypeInv', TurnPaired, HistoryInv, [Next]_vars PROVE HistoryInv'
  OBVIOUS
<1> DEFINE Kept ==
         /\ HistoryReplayable'
         /\ \A i \in 1 .. Len(history') :
              history'[i].result # "none" => history'[i].role = "tool"
<1>1. /\ Chain \in Seq(Messages) /\ Chain' \in Seq(Messages)
      /\ messages \in Seq(Messages) /\ turnStart \in 0 .. Len(messages)
  <2>1. Chain \in Seq(Messages)
    BY ChainTyped
  <2>2. (TypeInv => Chain \in Seq(Messages))'
    BY ChainTyped, PTL
  <2> QED
    BY <2>1, <2>2 DEF TypeInv, TypeOK
<1>2. ASSUME history' = history PROVE Kept
  BY <1>2 DEF HistoryInv, HistoryReplayable
<1>3. CASE Send
  <2>1. history' = Append(history, Plain("user")) /\ pc' = "start"
    BY <1>3 DEF Send
  <2>2. Kept
    BY <2>1, HistoryAsked
  <2> QED
    BY <2>1, <2>2 DEF HistoryInv
<1>4. CASE Start
  <2>1. turnStart' = Len(messages') /\ pc' = "ask" /\ history' = history
    BY <1>4 DEF Start
  <2>2. Chain' = <<>> /\ Len(Chain') = 0
    <3>1. Chain' = <<>>
      BY <2>1 DEF Chain, TypeInv, TypeOK
    <3> QED
      BY <3>1
  <2>3. Linked(Chain', Len(Chain'))
    BY <2>2 DEF Linked
  <2> QED
    BY <1>2, <2>1, <2>3 DEF HistoryInv
<1>5. CASE Answer
  <2>1. pc \in {"ask", "wrapup"} /\ reply' = TurnMessages /\ pc' = "reply" /\ history' = history
    BY <1>5 DEF Answer
  <2>2. \E ch \in Seq(Messages) :
          /\ reply' = Append(ch, Plain("assistant"))
          /\ Linked(ch, Len(ch)) /\ Paired(ch)
    BY <2>1, TurnAnswered
  <2> QED
    BY <1>2, <2>1, <2>2 DEF HistoryInv
<1>6. CASE AskTools
  <2>1. PICK calls \in CallLists : messages' = Append(messages, AsksFor(calls))
    BY <1>6 DEF AskTools
  <2>2. turnStart' = turnStart /\ pc' = "tools" /\ pc = "ask" /\ history' = history
    BY <1>6 DEF AskTools
  <2> DEFINE m == AsksFor(calls)
  <2>3. m \in Messages /\ m.result = "none" /\ m.role = "assistant" /\ m.calls # <<>>
    BY MessagesMade, CallListsAreCalls
  <2>4. Chain' = Append(Chain, m)
    <3>1. SubSeq(Append(messages, m), turnStart + 1, Len(Append(messages, m)))
            = Append(Chain, m)
      BY <1>1, <2>3, AfterAppend DEF Chain
    <3> QED
      BY <2>1, <2>2, <3>1 DEF Chain
  <2> HIDE DEF m
  <2>5. InChain(m)
    BY <2>3 DEF InChain
  <2>6. Linked(Chain', Len(Chain) + 1)
    <3>1. Linked(Chain, Len(Chain))
      BY <2>2 DEF HistoryInv
    <3>2. Like(Append(Chain, m), Chain')
      BY <1>1, <2>4, LikeSame
    <3> QED
      BY <1>1, <2>3, <2>5, <3>1, <3>2, LinkedOn
  <2>7. Len(Chain') = Len(Chain) + 1
    BY <1>1, <2>3, <2>4
  <2> QED
    BY <1>2, <2>2, <2>6, <2>7 DEF HistoryInv
<1>7. CASE Fetch \/ Recall \/ Refuse
  <2> DEFINE c == Head(todo)
  <2>1. pc = "tools" /\ c \in Calls /\ UNCHANGED <<history, turnStart, budget>>
    BY <1>7, ToolStep
  <2>2. PICK r \in {"none", "ok", "error", "refused"}, new \in BOOLEAN, cap \in BOOLEAN :
          /\ Result(c, r) \in Messages
          /\ Onward(Append(messages, Result(c, r)), new, cap)
    BY <1>7, ToolStep
  <2> DEFINE m == Result(c, r)
             b == Append(Chain, m)
  <2>3. Goes(b, new, cap) /\ Like(b, Chain') /\ rounds' \in 0 .. budget
    BY <2>1, <2>2, OnwardEffect
  <2>4. m.role = "tool" /\ m \in Messages
    BY <2>1, <2>2, MessagesMade
  <2> HIDE DEF m
  <2>5. InChain(m)
    BY <2>4 DEF InChain
  <2>6. Linked(Chain', Len(Chain) + 1)
    <3>1. Linked(Chain, Len(Chain))
      BY <2>1 DEF HistoryInv
    <3> QED
      BY <1>1, <2>3, <2>4, <2>5, <3>1, LinkedOn
  <2>7. b \in Seq(Messages) /\ Len(b) = Len(Chain) + 1 /\ Len(Chain) \in Nat /\ b # <<>>
    BY <1>1, <2>4
  <2> HIDE DEF b, c
  <2>8. CASE pc' = "tools"
    <3>1. Chain' = b
      BY <2>3, <2>8 DEF Goes
    <3> QED
      BY <1>2, <2>1, <2>6, <2>7, <2>8, <3>1 DEF HistoryInv
  <2>9. CASE pc' = "ask"
    <3>1. Chain' = Noted(b, budget - rounds')
      BY <2>3, <2>9 DEF Goes
    <3>2. budget - rounds' \in Nat
      <4>1. budget \in Nat /\ rounds' \in 0 .. budget
        BY <2>3 DEF TypeInv, TypeOK
      <4>2. \A x \in Nat : \A y \in 0 .. x : x - y \in Nat
        OBVIOUS
      <4> QED
        BY <4>1, <4>2, Zenon
    <3>3. Len(Chain') = Len(b)
      BY <2>7, <3>1, <3>2, NotedFacts
    <3> QED
      BY <1>2, <2>1, <2>6, <2>7, <2>9, <3>3 DEF HistoryInv
  <2>10. CASE pc' = "wrapup"
    <3>1. Chain' = Append(b, Nudge)
      BY <2>3, <2>10 DEF Goes
    <3>2. /\ Len(Chain') = Len(b) + 1 /\ Chain'[Len(Chain')] = Nudge
          /\ Len(Chain') > 0 /\ Len(Chain') - 1 = Len(Chain) + 1
      <4>1. Len(Chain') = Len(b) + 1 /\ Chain'[Len(b) + 1] = Nudge
        BY <2>7, <3>1, MessagesMade
      <4> QED
        BY <2>7, <4>1
    <3> QED
      BY <1>2, <2>1, <2>6, <2>10, <3>2 DEF HistoryInv
  <2> QED
    BY <2>3, <2>8, <2>9, <2>10 DEF Goes
<1>8. CASE Receive
  <2>1. pc = "reply" /\ history' = history \o reply /\ pc' = "idle"
    BY <1>8 DEF Receive
  <2>2. Kept
    BY <2>1, HistoryKept
  <2> QED
    BY <2>1, <2>2 DEF HistoryInv
<1>9. CASE Fail
  BY <1>2, <1>9 DEF Fail, HistoryInv
<1>10. CASE UNCHANGED vars
  <2>1. Chain' = Chain /\ reply' = reply /\ pc' = pc /\ history' = history
    BY <1>10 DEF vars, turn, Chain
  <2> QED
    BY <1>2, <2>1 DEF HistoryInv
<1> QED
  BY <1>3, <1>4, <1>5, <1>6, <1>7, <1>8, <1>9, <1>10 DEF Next

\* What was said before this turn is what the model is sent of it.
LEMMA TalkStep ==
  TypeInv /\ TypeInv' /\ HistoryInv /\ TalkKept /\ [Next]_vars => TalkKept'
<1> SUFFICES ASSUME TypeInv, TypeInv', HistoryInv, TalkKept, [Next]_vars PROVE TalkKept'
  OBVIOUS
<1>1. /\ messages \in Seq(Messages) /\ messages' \in Seq(Messages)
      /\ turnStart \in 0 .. Len(messages) /\ history \in Seq(Messages)
  BY DEF TypeInv, TypeOK
<1>2. ASSUME pc \in {"ask", "tools"}, UNCHANGED <<history, turnStart>>,
             Len(messages) <= Len(messages'),
             \A i \in 1 .. Len(messages) : messages'[i] = messages[i]
      PROVE  TalkKept'
  <2> DEFINE a == SubSeq(messages, 1, turnStart)
             b == SubSeq(messages', 1, turnStart)
  <2>1. /\ turnStart \in Int /\ 1 \in Int /\ turnStart \in Nat
        /\ \A i \in 1 .. turnStart : i \in 1 .. Len(messages) /\ i \in 1 .. Len(messages')
    BY <1>1, <1>2
  <2>2. \A i \in 1 .. turnStart : messages[i] \in Messages /\ messages'[i] \in Messages
    BY <1>1, <2>1
  <2>3. /\ a \in Seq(Messages) /\ Len(a) = turnStart
        /\ \A i \in 1 .. turnStart : a[i] = messages[i]
    <3>1. \A i \in 1 .. turnStart : messages[i] \in Messages
      BY <2>2
    <3> QED
      BY <2>1, <3>1
  <2>4. /\ b \in Seq(Messages) /\ Len(b) = turnStart
        /\ \A i \in 1 .. turnStart : b[i] = messages'[i]
    <3>1. \A i \in 1 .. turnStart : messages'[i] \in Messages
      BY <2>2
    <3> QED
      BY <2>1, <3>1
  <2>5. a = b
    <3> HIDE DEF a, b
    <3>1. \A i \in 1 .. Len(a) : a[i] = b[i]
      BY <1>2, <2>1, <2>3, <2>4
    <3> QED
      BY <2>3, <2>4, <3>1, SeqEqual
  <2> QED
    BY <1>2, <2>5 DEF TalkKept
<1>3. CASE Start
  <2>1. PICK cut \in 0 .. Len(Earlier), drop \in 0 .. Len(Earlier) :
          messages' = Append(Select(Shortened(Earlier, cut), Undropped(Earlier, drop)),
                             Last(history))
    BY <1>3 DEF Start
  <2>2. turnStart' = Len(messages') /\ history' = history /\ pc = "start"
    BY <1>3 DEF Start
  <2>3. history # <<>> /\ history[Len(history)] = Plain("user")
    BY <2>2 DEF TypeInv
  <2> DEFINE q == Last(history)
             f == Front(history)
             s == Select(Shortened(Earlier, cut), Undropped(Earlier, drop))
  <2>4. /\ f \in Seq(Messages) /\ Earlier \in Seq(Messages)
        /\ q \in Messages /\ q.role = "user"
        /\ Earlier = <<Plain("system")>> \o f /\ history = Append(f, q)
    BY <1>1, <2>3, EarlierFacts, MessagesMade
  <2>5. s \in Seq(Messages)
    BY <2>4, FittedFacts
  <2> HIDE DEF q, f
  <2>6. \A i \in 1 .. Len(Earlier) : Earlier[i].result # "none" => Earlier[i].role = "tool"
    <3> DEFINE e == Earlier
    <3>1. Plain("system") \in Messages /\ Plain("system").result = "none"
      BY MessagesMade
    <3> DEFINE p == Plain("system")
    <3> HIDE DEF p
    <3>2. <<p>> \in Seq(Messages) /\ Len(<<p>>) = 1 /\ <<p>>[1] = p
      BY <3>1 DEF p
    <3>3. /\ Len(<<p>> \o f) = 1 + Len(f) /\ Len(f) \in Nat
          /\ \A i \in 1 .. 1 + Len(f) :
               (<<p>> \o f)[i] = IF i <= 1 THEN <<p>>[i] ELSE f[i - 1]
      BY <2>4, <3>2, ConcatProperties
    <3>4. \A i \in 1 .. Len(f) : f[i] = history[i] /\ i \in 1 .. Len(history)
      BY <2>4
    <3>5. ASSUME NEW i \in 1 .. 1 + Len(f)
          PROVE  Earlier[i].result # "none" => Earlier[i].role = "tool"
      <4>1. CASE i = 1
        <5>1. Earlier[i] = p
          BY <2>4, <3>2, <3>3, <3>5, <4>1 DEF p
        <5> QED
          BY <3>1, <5>1 DEF p
      <4>2. CASE i # 1
        <5>1. i - 1 \in 1 .. Len(f) /\ ~(i <= 1)
          BY <3>3, <3>5, <4>2
        <5>2. Earlier[i] = history[i - 1] /\ i - 1 \in 1 .. Len(history)
          BY <2>4, <3>3, <3>4, <3>5, <5>1 DEF p
        <5> QED
          BY <5>2 DEF HistoryInv
      <4> QED
        BY <4>1, <4>2
    <3> QED
      BY <2>4, <3>3, <3>5 DEF p
  <2>7. Talk(s) = Talk(Earlier)
    BY ZenonT(60), <2>4, <2>6, TalkFitted
  <2>8. Talk(Earlier) = Talk(f)
    BY <2>4, TalkInstructed, MessagesMade
  <2> HIDE DEF s
  <2>9. messages' = Append(s, q)
    BY <2>1 DEF s, q
  <2>10. Talk(messages') = Append(Talk(s), q) /\ Talk(history) = Append(Talk(f), q)
    BY <2>4, <2>5, <2>9, TalkAsked
  <2>11. SubSeq(messages', 1, Len(messages')) = messages'
    BY <1>1
  <2> QED
    BY <2>2, <2>7, <2>8, <2>10, <2>11 DEF TalkKept
<1>4. CASE AskTools
  <2>1. PICK calls \in CallLists : messages' = Append(messages, AsksFor(calls))
    BY <1>4 DEF AskTools
  <2>2. /\ Len(messages) <= Len(messages')
        /\ \A i \in 1 .. Len(messages) : messages'[i] = messages[i]
    <3>1. AsksFor(calls) \in Messages
      BY MessagesMade
    <3> QED
      BY <1>1, <2>1, <3>1
  <2>3. pc = "ask" /\ UNCHANGED <<history, turnStart>>
    BY <1>4 DEF AskTools
  <2> QED
    BY <1>2, <2>2, <2>3
<1>5. CASE Fetch \/ Recall \/ Refuse
  <2>1. pc = "tools" /\ UNCHANGED <<history, turnStart, budget>>
    BY <1>5, ToolStep
  <2>2. PICK r \in {"none", "ok", "error", "refused"}, new \in BOOLEAN, cap \in BOOLEAN :
          /\ Result(Head(todo), r) \in Messages
          /\ Onward(Append(messages, Result(Head(todo), r)), new, cap)
    BY <1>5, ToolStep
  <2>3. /\ Len(messages) < Len(messages')
        /\ \A i \in 1 .. Len(messages) : messages'[i] = messages[i]
    BY <2>1, <2>2, OnwardEffect
  <2>4. Len(messages) <= Len(messages')
    BY <1>1, <2>3
  <2> QED
    BY <1>2, <2>1, <2>3, <2>4
<1>6. CASE UNCHANGED vars
  BY <1>6 DEF vars, turn, TalkKept
<1>7. ASSUME Send \/ Answer \/ Receive \/ Fail
      PROVE  pc' \notin {"ask", "tools"}
  BY <1>7 DEF Send, Answer, Receive, Fail
<1> QED
  BY <1>3, <1>4, <1>5, <1>6, <1>7 DEF Next, TalkKept

LEMMA HistoryInit == Init => HistoryInv /\ TalkKept
<1> SUFFICES ASSUME Init PROVE HistoryInv /\ TalkKept
  OBVIOUS
<1>1. history = <<>> /\ pc = "idle" /\ Len(history) = 0 /\ DOMAIN history = {}
  BY DEF Init
<1> QED
  BY <1>1, PairedNone DEF HistoryInv, HistoryReplayable, TalkKept

\* What the browser keeps of a chat can be sent again, with every chain whole
\* and every answer after its question, and however little of it a model can
\* take, no question and no answer is left out: for any contexts and budgets.
THEOREM ChatHistorySound == Spec => []HistorySound
<1>1. TypeInv /\ HistoryInv /\ TalkKept => HistorySound
  BY DEF TypeInv, HistoryInv, HistorySound
<1>2. Init => PairInv
  BY DEF Init, PairInv, TurnPaired
<1>3. PairInv => TurnPaired
  BY DEF PairInv
<1> QED
  BY <1>1, <1>2, <1>3, TypeInit, TypeStep, PairStep, HistoryInit, HistoryStep, TalkStep,
     PTL DEF Spec

-----------------------------------------------------------------------------
(***************************************************************************)
(* McpSession.  The argument follows a session from the response that names *)
(* it: either the coroutine that asked for it has not gone on yet, and then *)
(* nobody else has heard of the session, or its notification has been sent  *)
(* and is on its way until champions-mcp knows the session as ready.        *)
(***************************************************************************)
Steps == Requests \union {"off", "begin", "sleep", "body"}

\* Sessions that champions-mcp would still refuse to use.
Unopened == known \ ready

\* The notification of this session is on its way.
Opening(id) ==
  \E t \in Tasks : /\ task[t].step = "notify" /\ task[t].got = "none"
                   /\ task[t].sent = id

\* What a coroutine may know of a session nobody has opened: nothing, but for
\* the answer to its own initialize.
Told(t) ==
  /\ task[t].sent \in Unopened => Opening(task[t].sent)
  /\ task[t].step # "initialize" /\ task[t].got \in {"ok", "refused"}
       /\ task[t].back \in Unopened => Opening(task[t].back)

SessionInv ==
  /\ McpTypeOK
  /\ ~up => known = {}
  /\ \A t \in Tasks : /\ task[t].step = "initialize" => task[t].got # "refused"
                      /\ task[t].step = "sleep" => task[t].attempt < MaxAttempts
                      /\ Told(t)
  /\ held \in Unopened => Opening(held)

LEMMA StartupIsTask == Startup \in Tasks /\ Chats \subseteq Tasks
  BY DEF Tasks

\* Nothing is open, and nothing known, when the backend comes up.
LEMMA SessionInit == McpInit => SessionInv
<1> SUFFICES ASSUME McpInit PROVE SessionInv
  OBVIOUS
<1>1. McpTypeOK
  <2>1. 1 \in 1 .. MaxAttempts /\ 0 \in 0 .. MaxRestarts /\ 0 \in 0 .. issued
    BY BoundsAssumption DEF McpInit
  <2>2. task \in [Tasks -> [step : Requests \union {"off", "begin", "sleep", "body"},
                           sent : 0 .. issued, got : {"none", "ok", "refused", "fail"},
                           back : 0 .. issued, attempt : 1 .. MaxAttempts]]
    BY <2>1 DEF McpInit, Requests
  <2> QED
    BY <2>1, <2>2 DEF McpInit, McpTypeOK
<1>2. Unopened = {}
  BY DEF McpInit, Unopened
<1>3. \A t \in Tasks : task[t].got = "none" /\ task[t].step # "sleep"
  BY DEF McpInit
<1> QED
  BY <1>1, <1>2, <1>3 DEF SessionInv, Told, McpInit

\* A coroutine that is not itself waiting for a notification to arrive may go on,
\* and take over a session, when that session is open, or being opened by
\* another coroutine or by this very step.
LEMMA GoingOn ==
  ASSUME SessionInv, UNCHANGED server,
         NEW t \in Tasks, NEW s \in Steps, NEW n \in 1 .. MaxAttempts, task' = Sent(t, s, held', n),
         ~(task[t].step = "notify" /\ task[t].got = "none"),
         s = "sleep" => n < MaxAttempts,
         held' \in 0 .. issued, tools' \in BOOLEAN, guide' \in BOOLEAN,
         s # "notify" => (held' \in Unopened => Opening(held'))
  PROVE  SessionInv'
<1>1. McpTypeOK'
  <2> DEFINE r == [step |-> s, sent |-> held', got |-> "none", back |-> 0, attempt |-> n]
             R == [step : Steps, sent : 0 .. issued, got : {"none", "ok", "refused", "fail"},
                   back : 0 .. issued, attempt : 1 .. MaxAttempts]
  <2>1. issued \in Nat /\ issued' = issued
    BY DEF SessionInv, McpTypeOK, server
  <2>2. r \in R
    BY <2>1
  <2>3. task \in [Tasks -> R] /\ task' = [task EXCEPT ![t] = r]
    BY DEF SessionInv, McpTypeOK, Steps, Sent
  <2> HIDE DEF r, R
  <2>4. task' \in [Tasks -> R]
    BY <2>2, <2>3
  <2> QED
    BY <2>1, <2>4 DEF SessionInv, McpTypeOK, server, R, Steps
<1>2. Unopened' = Unopened /\ up' = up /\ known' = known
  BY DEF Unopened, server
<1>3. /\ task'[t] = [step |-> s, sent |-> held', got |-> "none", back |-> 0, attempt |-> n]
      /\ \A u \in Tasks \ {t} : task'[u] = task[u]
  BY DEF SessionInv, McpTypeOK, Sent
<1>4. ASSUME NEW id, Opening(id)
      PROVE  \E u \in Tasks : task'[u].step = "notify" /\ task'[u].got = "none" /\ task'[u].sent = id
  <2>1. PICK u \in Tasks : task[u].step = "notify" /\ task[u].got = "none" /\ task[u].sent = id
    BY <1>4 DEF Opening
  <2>2. u # t
    BY <2>1
  <2> QED
    BY <2>1, <2>2, <1>3 DEF Opening
<1>5. held' \in Unopened => Opening(held)'
  <2>1. CASE s = "notify"
    BY <2>1, <1>3 DEF Opening
  <2>2. CASE s # "notify"
    <3> SUFFICES ASSUME held' \in Unopened PROVE Opening(held)'
      OBVIOUS
    <3>1. PICK u \in Tasks :
            task[u].step = "notify" /\ task[u].got = "none" /\ task[u].sent = held'
      BY <2>2 DEF Opening
    <3>2. u # t
      BY <3>1
    <3> QED
      BY <3>1, <3>2, <1>3 DEF Opening
  <2> QED BY <2>1, <2>2
<1>6. ASSUME NEW u \in Tasks PROVE Told(u)'
  <2>1. CASE u = t
    <3>1. task'[u].sent = held' /\ task'[u].got = "none"
      BY <2>1, <1>3
    <3>2. held' \in Unopened' =>
            \E v \in Tasks : task'[v].step = "notify" /\ task'[v].got = "none" /\ task'[v].sent = held'
      BY <1>2, <1>5 DEF Opening
    <3> QED BY <3>1, <3>2 DEF Told, Opening
  <2>2. CASE u # t
    <3>1. task'[u] = task[u]
      BY <2>2, <1>3
    <3>2. Told(u)
      BY DEF SessionInv
    <3>3. task'[u].sent \in Unopened' => Opening(task[u].sent)
      BY <3>1, <3>2, <1>2 DEF Told
    <3>4. task'[u].step # "initialize" /\ task'[u].got \in {"ok", "refused"}
            /\ task'[u].back \in Unopened' => Opening(task[u].back)
      BY <3>1, <3>2, <1>2 DEF Told
    <3> QED BY <3>1, <3>3, <3>4, <1>4 DEF Told, Opening
  <2> QED BY <2>1, <2>2
<1>7. \A u \in Tasks : /\ task'[u].step = "initialize" => task'[u].got # "refused"
                       /\ task'[u].step = "sleep" => task'[u].attempt < MaxAttempts
  BY <1>3 DEF SessionInv
<1>8. ~up' => known' = {}
  BY <1>2 DEF SessionInv
<1>9. held' \in Unopened' => Opening(held)'
  BY <1>2, <1>5
<1> QED
  BY <1>1, <1>6, <1>7, <1>8, <1>9 DEF SessionInv

\* A coroutine in a step that can go on, with the session it takes over.
LEMMA Adopting ==
  ASSUME SessionInv, NEW t \in Tasks, task[t].got # "none", task[t].step # "initialize"
  PROVE  /\ Adopted(t) \in 0 .. issued
         /\ Adopted(t) \in Unopened => Opening(Adopted(t))
<1>1. /\ held \in 0 .. issued
      /\ task[t].got \in {"none", "ok", "refused", "fail"} /\ task[t].back \in 0 .. issued
  BY DEF SessionInv, McpTypeOK
<1>2. Told(t) /\ (held \in Unopened => Opening(held))
  BY DEF SessionInv
<1>3. CASE task[t].got = "fail"
  BY <1>1, <1>2, <1>3 DEF Adopted
<1>4. CASE task[t].got \in {"ok", "refused"}
  BY <1>1, <1>2, <1>4 DEF Adopted, Told
<1> QED
  BY <1>1, <1>3, <1>4

\* Going on in the same attempt.
LEMMA Going ==
  ASSUME SessionInv, UNCHANGED server, NEW t \in Tasks, NEW s \in Steps \ {"notify"},
         Proceeds(t, s),
         ~(task[t].step = "notify" /\ task[t].got = "none"),
         s = "sleep" => task[t].attempt < MaxAttempts,
         held' \in 0 .. issued, tools' \in BOOLEAN, guide' \in BOOLEAN,
         held' \in Unopened => Opening(held')
  PROVE  SessionInv'
<1>1. task[t].attempt \in 1 .. MaxAttempts
  BY DEF SessionInv, McpTypeOK
<1> QED
  BY <1>1, GoingOn DEF Proceeds

\* Into the chat, or off it for the startup hook.
LEMMA GoingIntoChat ==
  ASSUME SessionInv, UNCHANGED server, NEW t \in Tasks, IntoChat(t),
         ~(task[t].step = "notify" /\ task[t].got = "none"),
         held' \in 0 .. issued, tools' \in BOOLEAN, guide' \in BOOLEAN,
         held' \in Unopened => Opening(held')
  PROVE  SessionInv'
<1>1. PICK s \in {"off", "body", "prompt"} : Proceeds(t, s)
  BY DEF IntoChat
<1>2. s \in Steps \ {"notify"} /\ s # "sleep"
  BY DEF Steps, Requests
<1> QED
  BY <1>1, <1>2, Going

\* Every step of the backend goes on with a session that is open or being opened.
LEMMA BackendKeepsInv ==
  ASSUME SessionInv, NEW t \in Tasks, Backend(t) PROVE SessionInv'
<1>1. /\ held \in 0 .. issued /\ tools \in BOOLEAN /\ guide \in BOOLEAN
      /\ held \in Unopened => Opening(held)
      /\ task[t].attempt \in 1 .. MaxAttempts /\ task[t].back \in 0 .. issued
      /\ task[t].got \in {"none", "ok", "refused", "fail"}
  BY DEF SessionInv, McpTypeOK
<1>2. Requests \subseteq Steps /\ {"off", "begin", "sleep", "body"} \subseteq Steps
  BY DEF Steps
<1>3. CASE Initialized(t)
  <2>1. held' \in 0 .. issued /\ UNCHANGED <<tools, guide>> /\ UNCHANGED server
    BY <1>1, <1>3 DEF Initialized, Adopted
  <2>2. task' = Sent(t, "notify", held', task[t].attempt) /\ task[t].step # "notify"
    BY <1>3 DEF Initialized, Proceeds
  <2>3. "notify" \in Steps
    BY <1>2 DEF Requests
  <2> QED
    BY <1>1, <2>1, <2>2, <2>3, GoingOn
<1>4. CASE Notified(t)
  <2>1. Proceeds(t, "list") /\ UNCHANGED server /\ UNCHANGED backend /\ task[t].got # "none"
    BY <1>4 DEF Notified
  <2>2. "list" \in Steps \ {"notify"}
    BY <1>2 DEF Requests
  <2>3. held' = held /\ tools' = tools /\ guide' = guide
    BY <2>1 DEF backend
  <2> QED
    BY <1>1, <2>1, <2>2, <2>3, Going
<1>5. CASE Listed(t)
  <2>1. Proceeds(t, "guide") /\ UNCHANGED server /\ task[t].step = "list" /\ task[t].got = "ok"
        /\ held' = Adopted(t) /\ tools' = TRUE /\ guide' = guide
    BY <1>5 DEF Listed
  <2>2. "guide" \in Steps \ {"notify"}
    BY <1>2 DEF Requests
  <2>3. held' \in 0 .. issued /\ (held' \in Unopened => Opening(held'))
    BY <2>1, Adopting
  <2> QED
    BY <1>1, <2>1, <2>2, <2>3, Going
<1>6. CASE InitFailed(t)
  <2>1. /\ task[t].step \in {"initialize", "list"} /\ task[t].got \notin {"none", "ok"}
        /\ held' = Adopted(t) /\ tools' = tools /\ guide' = guide /\ UNCHANGED server
    BY <1>6 DEF InitFailed
  <2>2. held' \in 0 .. issued /\ (held' \in Unopened => Opening(held'))
    <3>1. CASE task[t].step = "list"
      BY <2>1, <3>1, Adopting
    <3>2. CASE task[t].step = "initialize"
      <4>1. task[t].got = "fail"
        BY <1>1, <2>1, <3>2 DEF SessionInv
      <4> QED
        BY <1>1, <2>1, <4>1 DEF Adopted
    <3> QED
      BY <2>1, <3>1, <3>2
  <2>3. CASE task[t].attempt < MaxAttempts
    <3>1. Proceeds(t, "sleep") /\ "sleep" \in Steps \ {"notify"}
      BY <1>2, <1>6, <2>3 DEF InitFailed
    <3> QED
      BY <1>1, <2>1, <2>2, <2>3, <3>1, Going
  <2>4. CASE ~(task[t].attempt < MaxAttempts)
    <3>1. IntoChat(t)
      BY <1>6, <2>4 DEF InitFailed
    <3> QED
      BY <1>1, <2>1, <2>2, <3>1, GoingIntoChat
  <2> QED
    BY <2>3, <2>4
<1>7. CASE Retry(t)
  <2>1. task[t].step = "sleep" /\ UNCHANGED server /\ UNCHANGED backend
        /\ task' = Sent(t, "initialize", held, task[t].attempt + 1)
    BY <1>7 DEF Retry
  <2>2. held' = held /\ tools' = tools /\ guide' = guide
    BY <2>1 DEF backend
  <2>3. task[t].attempt < MaxAttempts
    BY <2>1 DEF SessionInv
  <2>4. task[t].attempt + 1 \in 1 .. MaxAttempts
    BY <1>1, <2>3, BoundsAssumption
  <2>5. "initialize" \in Steps
    BY <1>2 DEF Requests
  <2> QED
    BY <1>1, <2>1, <2>2, <2>4, <2>5, GoingOn
<1>8. CASE Guided(t)
  <2>1. /\ task[t].step \in {"guide", "prompt"} /\ task[t].got # "none"
        /\ held' = Adopted(t) /\ guide' \in BOOLEAN /\ tools' = tools /\ UNCHANGED server
    BY <1>8 DEF Guided
  <2>2. held' \in 0 .. issued /\ (held' \in Unopened => Opening(held'))
    BY <2>1, Adopting
  <2>3. CASE task[t].step = "guide"
    <3>1. IntoChat(t)
      BY <1>8, <2>3 DEF Guided
    <3> QED
      BY <1>1, <2>1, <2>2, <3>1, GoingIntoChat
  <2>4. CASE task[t].step = "prompt"
    <3>1. Proceeds(t, "body") /\ "body" \in Steps \ {"notify"}
      BY <1>2, <1>8, <2>4 DEF Guided
    <3> QED
      BY <1>1, <2>1, <2>2, <2>4, <3>1, Going
  <2> QED
    BY <2>1, <2>3, <2>4
<1> QED
  BY <1>3, <1>4, <1>5, <1>6, <1>7, <1>8 DEF Backend

\* A chat comes, begins, calls a tool, gets its result or ends.
LEMMA ChatKeepsInv ==
  ASSUME SessionInv, NEW c \in Chats,
         Open(c) \/ Begin(c) \/ Call(c) \/ Returned(c) \/ End(c)
  PROVE  SessionInv'
<1>1. /\ held \in 0 .. issued /\ tools \in BOOLEAN /\ guide \in BOOLEAN
      /\ held \in Unopened => Opening(held)
      /\ c \in Tasks
  BY StartupIsTask DEF SessionInv, McpTypeOK
<1>2. Requests \subseteq Steps /\ {"off", "begin", "sleep", "body"} \subseteq Steps
  BY DEF Steps
<1>3. CASE Open(c)
  <2>1. /\ task[c].step = "off" /\ UNCHANGED server /\ UNCHANGED backend
        /\ task' = [task EXCEPT ![c].step = "begin", ![c].attempt = 1]
    BY <1>3 DEF Open
  <2>2. /\ \A t \in Tasks : /\ task'[t].sent = task[t].sent
                            /\ task'[t].got = task[t].got /\ task'[t].back = task[t].back
                            /\ t # c => task'[t] = task[t]
        /\ task'[c].step = "begin"
    BY <1>1, <2>1 DEF SessionInv, McpTypeOK
  <2>3. McpTypeOK'
    <3>1. 1 \in 1 .. MaxAttempts
      BY BoundsAssumption
    <3> DEFINE R == [step : Requests \union {"off", "begin", "sleep", "body"},
                     sent : 0 .. issued, got : {"none", "ok", "refused", "fail"},
                     back : 0 .. issued, attempt : 1 .. MaxAttempts]
               r == [task[c] EXCEPT !.step = "begin", !.attempt = 1]
    <3>2. task \in [Tasks -> R]
      BY DEF SessionInv, McpTypeOK
    <3>3. r \in R
      BY <1>1, <3>1, <3>2
    <3>4. task' = [task EXCEPT ![c] = r]
      BY <1>1, <2>1, <3>2
    <3> HIDE DEF r
    <3>5. task' \in [Tasks -> R]
      BY <3>2, <3>3, <3>4
    <3>6. UNCHANGED <<up, tools, guide, restarts, issued, known, ready, held>>
      BY <2>1 DEF server, backend
    <3> QED
      BY <3>5, <3>6 DEF SessionInv, McpTypeOK
  <2>4. up' = up /\ known' = known /\ Unopened' = Unopened /\ held' = held
    BY <2>1 DEF server, backend, Unopened
  <2>5. ASSUME NEW id, Opening(id)
        PROVE  \E u \in Tasks : task'[u].step = "notify" /\ task'[u].got = "none" /\ task'[u].sent = id
    BY <2>1, <2>2, <2>5 DEF Opening
  <2>6. ASSUME NEW t \in Tasks PROVE Told(t)'
    <3>1. Told(t)
      BY DEF SessionInv
    <3>2. task'[t].sent \in Unopened' => Opening(task[t].sent)
      BY <2>2, <2>4, <3>1 DEF Told
    <3>3. task'[t].step # "initialize" /\ task'[t].got \in {"ok", "refused"}
            /\ task'[t].back \in Unopened' => Opening(task[t].back)
      BY <2>1, <2>2, <2>4, <3>1 DEF Told
    <3> QED
      BY <2>2, <2>5, <3>2, <3>3 DEF Told, Opening
  <2>7. held' \in Unopened' => Opening(held)'
    BY <1>1, <2>4, <2>5 DEF Opening
  <2>8. \A t \in Tasks : /\ task'[t].step = "initialize" => task'[t].got # "refused"
                         /\ task'[t].step = "sleep" => task'[t].attempt < MaxAttempts
    BY <2>2 DEF SessionInv
  <2>9. ~up' => known' = {}
    BY <2>4 DEF SessionInv
  <2> QED
    BY <2>3, <2>6, <2>7, <2>8, <2>9 DEF SessionInv
<1>4. CASE Begin(c)
  <2>1. task[c].step = "begin" /\ UNCHANGED server /\ held' = held /\ tools' = tools /\ guide' = guide
    BY <1>4 DEF Begin, backend
  <2>2. CASE tools
    BY <1>1, <1>4, <2>1, <2>2, GoingIntoChat DEF Begin
  <2>3. CASE ~tools
    <3>1. Proceeds(c, "initialize") /\ "initialize" \in Steps \ {"notify"}
      BY <1>2, <1>4, <2>3 DEF Begin, Requests
    <3> QED
      BY <1>1, <2>1, <3>1, Going
  <2> QED
    BY <2>2, <2>3
<1>5. CASE Call(c)
  <2>1. /\ task[c].step = "body" /\ UNCHANGED server /\ held' = held /\ tools' = tools /\ guide' = guide
        /\ Proceeds(c, "call")
    BY <1>5 DEF Call, backend
  <2>2. "call" \in Steps \ {"notify"}
    BY <1>2 DEF Requests
  <2> QED
    BY <1>1, <2>1, <2>2, Going
<1>6. CASE Returned(c)
  <2>1. /\ task[c].step = "call" /\ task[c].got # "none" /\ UNCHANGED server
        /\ held' = Adopted(c) /\ tools' = tools /\ guide' = guide /\ Proceeds(c, "body")
    BY <1>6 DEF Returned
  <2>2. "body" \in Steps \ {"notify"}
    BY <1>2
  <2>3. held' \in 0 .. issued /\ (held' \in Unopened => Opening(held'))
    BY <1>1, <2>1, Adopting
  <2> QED
    BY <1>1, <2>1, <2>2, <2>3, Going
<1>7. CASE End(c)
  <2>1. /\ task[c].step = "body" /\ UNCHANGED server /\ held' = held /\ tools' = tools /\ guide' = guide
        /\ Proceeds(c, "off")
    BY <1>7 DEF End, backend
  <2>2. "off" \in Steps \ {"notify"}
    BY <1>2
  <2> QED
    BY <1>1, <2>1, <2>2, Going
<1> QED
  BY <1>3, <1>4, <1>5, <1>6, <1>7

\* champions-mcp coming up or going down knows no session.
LEMMA OutageKeepsInv ==
  ASSUME SessionInv, Up \/ Restart PROVE SessionInv'
<1>1. /\ UNCHANGED <<issued, backend, task>> /\ up' \in BOOLEAN
      /\ restarts' \in 0 .. MaxRestarts /\ known' = {} /\ ready' \subseteq known'
  <2>1. CASE Up
    <3>1. restarts' = restarts /\ known' = known /\ ready' = ready /\ ~up
      BY <2>1 DEF Up
    <3>2. known = {} /\ ready \subseteq known /\ restarts \in 0 .. MaxRestarts
      BY <3>1 DEF SessionInv, McpTypeOK
    <3> QED
      BY <2>1, <3>1, <3>2 DEF Up
  <2>2. CASE Restart
    <3>1. restarts \in 0 .. MaxRestarts /\ restarts < MaxRestarts /\ restarts' = restarts + 1
      BY <2>2 DEF Restart, SessionInv, McpTypeOK
    <3>2. restarts' \in 0 .. MaxRestarts
      BY <3>1, BoundsAssumption
    <3> QED
      BY <2>2, <3>2 DEF Restart
  <2> QED
    BY <2>1, <2>2
<1>2. Unopened' = {}
  BY <1>1 DEF Unopened
<1>3. McpTypeOK'
  BY <1>1 DEF SessionInv, McpTypeOK, backend
<1> QED
  BY <1>1, <1>2, <1>3 DEF SessionInv, Told, backend

\* An answer changes nothing of the coroutine but what it got.
LEMMA AnswerIs ==
  ASSUME McpTypeOK, NEW t \in Tasks, NEW got, NEW id, Responded(t, got, id)
  PROVE  /\ \A u \in Tasks : /\ task'[u].step = task[u].step
                             /\ task'[u].sent = task[u].sent
                             /\ task'[u].attempt = task[u].attempt
                             /\ u # t => task'[u] = task[u]
         /\ task'[t].got = got /\ task'[t].back = id
  BY DEF McpTypeOK, Responded

\* An answer of champions-mcp opens no session but by the notification of it,
\* and names no session to a coroutine that did not ask for a new one or know
\* it already.
LEMMA AnswerKeepsInv ==
  ASSUME SessionInv, NEW t \in Tasks, NEW got \in {"ok", "refused", "fail"}, NEW id \in 0 .. issued',
         Responded(t, got, id), UNCHANGED up, UNCHANGED restarts, UNCHANGED backend,
         task[t].got = "none",
         issued' \in Nat, issued <= issued', known' \subseteq 1 .. issued', ready' \subseteq known',
         ~up' => known' = {},
         \A old \in 0 .. issued : old \in Unopened' => old \in Unopened,
         task[t].step = "notify" => task[t].sent \notin Unopened',
         task[t].step = "initialize" => got # "refused",
         task[t].step # "initialize" /\ got # "fail" => id = task[t].sent
  PROVE  SessionInv'
<1>1. /\ \A u \in Tasks : /\ task'[u].step = task[u].step
                          /\ task'[u].sent = task[u].sent
                          /\ task'[u].attempt = task[u].attempt
                          /\ u # t => task'[u] = task[u]
      /\ task'[t].got = got /\ task'[t].back = id
  BY AnswerIs DEF SessionInv
<1>2. McpTypeOK'
  <2> DEFINE R(n) == [step : Steps, sent : 0 .. n, got : {"none", "ok", "refused", "fail"},
                      back : 0 .. n, attempt : 1 .. MaxAttempts]
  <2>1. 0 .. issued \subseteq 0 .. issued' /\ issued \in Nat
    BY DEF SessionInv, McpTypeOK
  <2>2. task \in [Tasks -> R(issued')]
    <3>1. task \in [Tasks -> R(issued)]
      BY DEF SessionInv, McpTypeOK, Steps
    <3>2. R(issued) \subseteq R(issued')
      BY <2>1
    <3> HIDE DEF R
    <3> QED
      BY <3>1, <3>2
  <2>3. task' \in [Tasks -> R(issued')]
    BY <2>2 DEF Responded
  <2> QED
    BY <2>1, <2>3 DEF SessionInv, McpTypeOK, backend, Steps
<1>3. ASSUME NEW old \in 0 .. issued, old \in Unopened', Opening(old)
      PROVE  \E u \in Tasks : task'[u].step = "notify" /\ task'[u].got = "none" /\ task'[u].sent = old
  <2>1. PICK u \in Tasks : task[u].step = "notify" /\ task[u].got = "none" /\ task[u].sent = old
    BY <1>3 DEF Opening
  <2>2. u # t
    BY <1>3, <2>1
  <2> QED
    BY <1>1, <2>1, <2>2
<1>4. \A u \in Tasks : task[u].sent \in 0 .. issued /\ task[u].back \in 0 .. issued
  BY DEF SessionInv, McpTypeOK
<1>5. held' = held /\ held \in 0 .. issued
  BY DEF SessionInv, McpTypeOK, backend
<1>6. held' \in Unopened' => Opening(held)'
  BY <1>3, <1>5 DEF Opening, SessionInv
<1>7. ASSUME NEW u \in Tasks PROVE Told(u)'
  <2>1. Told(u)
    BY DEF SessionInv
  <2>2. task'[u].sent \in Unopened' => Opening(task[u].sent)
    BY <1>1, <1>4, <2>1 DEF Told
  <2>3. task'[u].sent \in Unopened' =>
          \E v \in Tasks : task'[v].step = "notify" /\ task'[v].got = "none"
                           /\ task'[v].sent = task'[u].sent
    BY <1>1, <1>3, <1>4, <2>2
  <2>4. task'[u].step # "initialize" /\ task'[u].got \in {"ok", "refused"}
          /\ task'[u].back \in Unopened' =>
            \E v \in Tasks : task'[v].step = "notify" /\ task'[v].got = "none"
                             /\ task'[v].sent = task'[u].back
    <3> SUFFICES ASSUME task'[u].step # "initialize", task'[u].got \in {"ok", "refused"},
                        task'[u].back \in Unopened'
                 PROVE  \E v \in Tasks : task'[v].step = "notify" /\ task'[v].got = "none"
                                         /\ task'[v].sent = task'[u].back
      OBVIOUS
    <3>1. CASE u = t
      <4>1. task'[u].back = task'[u].sent
        BY <1>1, <3>1
      <4> QED
        BY <2>3, <4>1
    <3>2. CASE u # t
      <4>1. task'[u] = task[u]
        BY <1>1, <3>2
      <4>2. Opening(task[u].back)
        BY <1>4, <2>1, <4>1 DEF Told
      <4> QED
        BY <1>3, <1>4, <4>1, <4>2
    <3> QED
      BY <3>1, <3>2
  <2> QED
    BY <2>3, <2>4 DEF Told, Opening
<1>8. \A u \in Tasks : /\ task'[u].step = "initialize" => task'[u].got # "refused"
                       /\ task'[u].step = "sleep" => task'[u].attempt < MaxAttempts
  BY <1>1 DEF SessionInv
<1> QED
  BY <1>2, <1>6, <1>7, <1>8 DEF SessionInv

\* The four answers of champions-mcp.
LEMMA ServeKeepsInv ==
  ASSUME SessionInv, NEW t \in Tasks, Serve(t) PROVE SessionInv'
<1> DEFINE s == task[t].step
           id == task[t].sent
<1>1. /\ issued \in Nat /\ known \subseteq 1 .. issued /\ ready \subseteq known
      /\ id \in 0 .. issued /\ (~up => known = {})
  BY DEF SessionInv, McpTypeOK
<1>2. /\ task[t].got = "none" /\ up' = up /\ restarts' = restarts /\ UNCHANGED backend
  BY DEF Serve
<1>3. CASE /\ \/ ~up \/ (id # 0 /\ id \notin known)
              \/ id = 0 /\ s # "initialize"
           /\ Responded(t, "fail", 0)
           /\ UNCHANGED <<issued, known, ready>>
  <2>1. Unopened' = Unopened /\ issued' = issued /\ known' = known /\ ready' = ready
    BY <1>3 DEF Unopened
  <2>2. id \notin Unopened
    BY <1>1, <1>3 DEF Unopened
  <2>3. 0 \in 0 .. issued' /\ issued' \in Nat /\ issued <= issued' /\ "fail" \in {"ok", "refused", "fail"}
    BY <1>1, <2>1
  <2>4. /\ known' \subseteq 1 .. issued' /\ ready' \subseteq known' /\ (~up' => known' = {})
        /\ task[t].step = "notify" => id \notin Unopened'
        /\ \A old \in 0 .. issued : old \in Unopened' => old \in Unopened
    BY <1>1, <1>2, <2>1, <2>2
  <2> HIDE DEF id, s
  <2> QED
    BY <1>2, <1>3, <2>3, <2>4, AnswerKeepsInv DEF id
<1>4. CASE /\ up /\ id = 0 /\ s = "initialize"
           /\ issued' = issued + 1 /\ known' = known \union {issued'}
           /\ Responded(t, "ok", issued')
           /\ UNCHANGED ready
  <2>1. /\ issued' \in Nat /\ issued <= issued' /\ issued' \in 0 .. issued'
        /\ known' \subseteq 1 .. issued' /\ ready' \subseteq known'
    BY <1>1, <1>4
  <2>2. \A old \in 0 .. issued : old \in Unopened' => old \in Unopened
    BY <1>1, <1>4 DEF Unopened
  <2>3. ~up' => known' = {}
    BY <1>2, <1>4
  <2> QED
    BY <1>2, <1>4, <2>1, <2>2, <2>3, AnswerKeepsInv
<1>5. CASE /\ up /\ id \in known /\ s \in {"initialize", "notify"}
           /\ ready' = IF s = "notify" THEN ready \union {id} ELSE ready
           /\ Responded(t, "ok", id)
           /\ UNCHANGED <<issued, known>>
  <2>1. /\ issued' = issued /\ known' = known /\ id \in 0 .. issued' /\ ready' \subseteq known'
        /\ (s = "notify" => id \notin Unopened')
        /\ Unopened' \subseteq Unopened
    BY <1>1, <1>5 DEF Unopened
  <2> QED
    BY <1>1, <1>2, <1>5, <2>1, AnswerKeepsInv
<1>6. CASE /\ up /\ id \in known /\ s \notin {"initialize", "notify"}
           /\ \E got \in {"ok", "refused"} :
                /\ id \notin ready => got = "refused"
                /\ id \in ready /\ s \in {"list", "call"} => got = "ok"
                /\ Responded(t, got, id)
           /\ UNCHANGED <<issued, known, ready>>
  <2>1. PICK got \in {"ok", "refused"} : Responded(t, got, id)
    BY <1>6
  <2>2. Unopened' = Unopened /\ issued' = issued /\ known' = known /\ ready' = ready
    BY <1>6 DEF Unopened
  <2>3. /\ id \in 0 .. issued' /\ issued' \in Nat /\ issued <= issued'
        /\ got \in {"ok", "refused", "fail"} /\ task[t].step \notin {"initialize", "notify"}
    BY <1>1, <1>6, <2>1, <2>2
  <2>4. /\ known' \subseteq 1 .. issued' /\ ready' \subseteq known' /\ (~up' => known' = {})
        /\ \A old \in 0 .. issued : old \in Unopened' => old \in Unopened
    BY <1>1, <1>2, <2>2
  <2> QED
    BY <1>2, <2>1, <2>3, <2>4, AnswerKeepsInv
<1> QED
  BY <1>3, <1>4, <1>5, <1>6 DEF Serve

LEMMA SessionNext == SessionInv /\ [McpNext]_mcpVars => SessionInv'
<1> SUFFICES ASSUME SessionInv, [McpNext]_mcpVars PROVE SessionInv'
  OBVIOUS
<1>1. CASE Up \/ Restart
  BY <1>1, OutageKeepsInv
<1>2. CASE \E t \in Tasks : Serve(t) \/ Backend(t)
  BY <1>2, ServeKeepsInv, BackendKeepsInv
<1>3. CASE \E c \in Chats : Open(c) \/ Begin(c) \/ Call(c) \/ Returned(c) \/ End(c)
  BY <1>3, ChatKeepsInv
<1>4. CASE UNCHANGED mcpVars
  BY <1>4 DEF SessionInv, McpTypeOK, Told, Opening, Unopened, mcpVars, server, backend
<1> QED
  BY <1>1, <1>2, <1>3, <1>4 DEF McpNext

\* In the model's states every session and coroutine is of its kind, and no
\* attempt beyond the last is made.
THEOREM SessionTypeOK == McpSpec => []McpTypeOK
<1>1. SessionInv => McpTypeOK
  BY DEF SessionInv
<1> QED
  BY <1>1, SessionInit, SessionNext, PTL DEF McpSpec

\* However many chats find no tools at the same time, fail and try again, the
\* session the backend holds is usable, or is being made so: _init_mcp notifies
\* the session that mcp_rpc has just stored.
THEOREM SessionHeldIsOpened == McpSpec => []HeldIsOpened
<1>1. SessionInv => HeldIsOpened
  BY DEF SessionInv, HeldIsOpened, Unopened, Opening
<1> QED
  BY <1>1, SessionInit, SessionNext, PTL DEF McpSpec
-----------------------------------------------------------------------------
(* The routing of a turn (ModelRouting), for any models, tiers, pools and   *)
(* price rules: what is replayed is a prefix of what was sent, whose part   *)
(* from before the turn was capped as the turn began; the pick of a router  *)
(* is no tier, so that it is made once.                                     *)
RoutedMessages ==
  [turn : Nat, reasoning : {"none", "short", "long", "cut"},
   details : {"none", "short", "long"}]

\* A router answers with a model, and a tier's with a candidate of its own.
RoutingPick ==
  /\ named \notin Tiers
  /\ routePc = "turn" => model \in {asked, Default, named}
  /\ routePc = "turn" /\ named # Unnamed => model \notin Tiers
  /\ tier \in Tiers /\ Pools[tier] # {} => model = tier \/ model \in Pools[tier]
  /\ tier \in Tiers /\ model \in Tiers => model = tier

RoutingStart ==
  /\ provider \in {"auto", "llama", "openrouter"}
  /\ routePc = "starting" => tier = Unnamed /\ ~listRead /\ request = NoRequest
  /\ listRead => provider = "openrouter" /\ context = Learnt
  /\ routePc = "turn" /\ provider = "openrouter" => tier = AutoTier(Promised)

\* Nothing the browser keeps was cut, and it is of turns already over.
RoutingPast ==
  /\ routed \in Nat
  /\ kept \in Seq(RoutedMessages)
  /\ \A i \in 1 .. Len(kept) :
       /\ kept[i].reasoning # "cut"
       /\ kept[i].turn <= routed
       /\ routePc = "turn" => kept[i].turn < routed

RoutingMemory ==
  /\ sent \in Seq(RoutedMessages)
  /\ Cardinality(FromBefore(sent)) <= ReasoningTurns
  /\ \A i \in FromBefore(sent) : sent[i].reasoning # "long"
  /\ \A i \in 1 .. Len(sent) : sent[i].turn = routed => sent[i].reasoning # "cut"
  /\ routePc = "turn" =>
       /\ Len(kept) <= Len(sent)
       /\ \A i \in Len(kept) + 1 .. Len(sent) : sent[i].turn = routed

\* The last request holds the beginning of what is sent by now.
RoutingAsked ==
  request # NoRequest =>
    \E n \in 0 .. Len(sent) :
      request.replay = [i \in 1 .. n |-> [turn |-> sent[i].turn, reasoning |-> Preserved(sent[i])]]

RoutingInv ==
  RoutingPick /\ RoutingStart /\ RoutingPast /\ RoutingMemory /\ RoutingAsked /\ PriceKept

\* What is capped has at most ReasoningTurns messages with reasoning: the first of
\* more would have too many after it.
LEMMA LastReasonedBound ==
  ASSUME NEW ms \in Seq(RoutedMessages)
  PROVE  /\ IsFiniteSet(LastReasoned(ms)) /\ Cardinality(LastReasoned(ms)) \in Nat
         /\ Cardinality(LastReasoned(ms)) <= ReasoningTurns
<1> DEFINE K == LastReasoned(ms)
           D == Reasoned(ms)
<1>1. D \in SUBSET (1 .. Len(ms)) /\ K \in SUBSET D /\ Len(ms) \in Nat
  BY DEF LastReasoned, Reasoned
<1>2. IsFiniteSet(D) /\ \A i \in D : i \in Nat
  BY <1>1, IndexSetFinite
<1>3. IsFiniteSet(K) /\ Cardinality(K) \in Nat /\ K \in SUBSET Nat
  BY <1>1, <1>2, FS_Subset, FS_CardinalityType
<1>4. SUFFICES ASSUME ReasoningTurns < Cardinality(K)
               PROVE  FALSE
  BY <1>3, RoutingAssumption
<1>5. 1 \in 1 .. Cardinality(K)
  BY <1>3, <1>4, RoutingAssumption
<1>6. PICK i \in K : \A j \in K : j = i \/ i < j
  <2>1. Nth(K, 1) \in K
    BY <1>3, <1>5, NthProperties
  <2>2. ASSUME NEW j \in K PROVE j = Nth(K, 1) \/ Nth(K, 1) < j
    <3>1. PICK k \in 1 .. Cardinality(K) : Nth(K, k) = j
      BY <1>3, NthProperties
    <3>2. k = 1 \/ 1 < k
      BY <1>3
    <3>3. \A a, b \in 1 .. Cardinality(K) : a < b => Nth(K, a) < Nth(K, b)
      BY <1>3, NthProperties
    <3> QED
      BY <3>1, <3>2, <3>3, <1>5
  <2> QED
    BY <2>1, <2>2
<1> DEFINE A == {j \in D : i < j}
<1>7. Cardinality(A) < ReasoningTurns
  BY <1>6 DEF LastReasoned
<1>8. K \ {i} \in SUBSET A
  BY <1>1, <1>6
<1>9. IsFiniteSet(A) /\ Cardinality(A) \in Nat
  BY <1>2, FS_Subset, FS_CardinalityType
<1>10. Cardinality(K \ {i}) = Cardinality(K) - 1
  BY <1>3, <1>6, FS_RemoveElement
<1>11. Cardinality(K \ {i}) <= Cardinality(A)
  BY <1>8, <1>9, FS_Subset
<1> HIDE DEF K, D, A
<1> QED
  BY <1>3, <1>4, <1>7, <1>9, <1>10, <1>11, RoutingAssumption

\* Capping leaves the turns and the details, and no reasoning is long.
LEMMA CapFacts ==
  ASSUME NEW ms \in Seq(RoutedMessages)
  PROVE  /\ CapReasoning(ms) \in Seq(RoutedMessages) /\ Len(CapReasoning(ms)) = Len(ms)
         /\ \A i \in 1 .. Len(ms) :
              /\ CapReasoning(ms)[i].turn = ms[i].turn
              /\ CapReasoning(ms)[i].reasoning # "long"
              /\ CapReasoning(ms)[i].reasoning # "none" => i \in LastReasoned(ms)
<1>1. DOMAIN ms = 1 .. Len(ms) /\ Len(ms) \in Nat /\ \A i \in 1 .. Len(ms) : ms[i] \in RoutedMessages
  OBVIOUS
<1> DEFINE To(i) == IF i \notin LastReasoned(ms) THEN "none"
                    ELSE IF ms[i].reasoning = "long" THEN "cut" ELSE ms[i].reasoning
<1>2. CapReasoning(ms) = [i \in 1 .. Len(ms) |-> [ms[i] EXCEPT !.reasoning = To(i)]]
  BY <1>1 DEF CapReasoning
<1>3. ASSUME NEW i \in 1 .. Len(ms)
      PROVE  /\ [ms[i] EXCEPT !.reasoning = To(i)] \in RoutedMessages
             /\ [ms[i] EXCEPT !.reasoning = To(i)].turn = ms[i].turn
             /\ [ms[i] EXCEPT !.reasoning = To(i)].reasoning = To(i)
             /\ To(i) # "long" /\ (To(i) # "none" => i \in LastReasoned(ms))
  <2>1. ms[i] \in RoutedMessages
    BY <1>1
  <2>2. To(i) \in {"none", "short", "cut"} /\ (To(i) # "none" => i \in LastReasoned(ms))
    BY <2>1 DEF RoutedMessages
  <2> HIDE DEF To
  <2> QED
    BY <2>1, <2>2 DEF RoutedMessages
<1>4. \A i \in 1 .. Len(ms) : CapReasoning(ms)[i] = [ms[i] EXCEPT !.reasoning = To(i)]
  BY <1>2
<1>5. CapReasoning(ms) \in [1 .. Len(ms) -> RoutedMessages]
  <2> HIDE DEF To
  <2> QED
    BY <1>2, <1>3
<1>6. CapReasoning(ms) \in Seq(RoutedMessages) /\ Len(CapReasoning(ms)) = Len(ms)
  BY <1>1, <1>5
<1> HIDE DEF To
<1> QED
  BY <1>3, <1>4, <1>6

LEMMA RoutingInitially == RoutingInit => RoutingInv
<1> SUFFICES ASSUME RoutingInit PROVE RoutingInv
  OBVIOUS
<1>1. /\ <<>> \in Seq(RoutedMessages) /\ Len(<<>>) = 0
  OBVIOUS
<1>2. FromBefore(sent) = {}
  BY DEF RoutingInit, FromBefore
<1>3. Cardinality({}) = 0
  BY FS_EmptySet
<1>4. RoutingMemory
  <2>1. sent = <<>> /\ routePc = "starting" /\ 0 <= ReasoningTurns
    BY RoutingAssumption DEF RoutingInit
  <2>2. \A i \in 1 .. Len(sent) : FALSE
    BY <1>1, <2>1
  <2> QED
    BY <1>1, <1>2, <1>3, <2>1, <2>2 DEF RoutingMemory
<1>5. RoutingPast /\ RoutingAsked /\ PriceKept
  BY <1>1 DEF RoutingInit, RoutingPast, RoutingAsked, PriceKept
<1>6. RoutingPick /\ RoutingStart
  BY RoutingAssumption DEF RoutingInit, RoutingPick, RoutingStart
<1> QED
  BY <1>4, <1>5, <1>6 DEF RoutingInv

LEMMA ChoiceKeepsRouting ==
  ASSUME RoutingInv, NEW local \in BOOLEAN, NEW list \in BOOLEAN, ChooseProvider(local, list)
  PROVE  RoutingInv'
<1>1. /\ routePc = "starting" /\ routePc' = "idle"
      /\ provider' = IF local THEN "llama" ELSE "openrouter"
      /\ listRead' = (~local /\ list)
      /\ context' = IF ~local /\ list THEN Learnt ELSE context
      /\ kept' = kept /\ routed' = routed /\ asked' = asked /\ model' = model /\ tier' = tier
      /\ sent' = sent /\ named' = named /\ request' = request
  BY DEF ChooseProvider, routing
<1>2. request = NoRequest /\ tier = Unnamed
  BY <1>1 DEF RoutingInv, RoutingStart
<1>3. RoutingPick'
  BY <1>1, <1>2, RoutingAssumption DEF RoutingInv, RoutingPick
<1>4. RoutingStart'
  BY <1>1 DEF RoutingStart, Learnt, TierContext, PoolContexts
<1>5. RoutingPast'
  BY <1>1 DEF RoutingInv, RoutingPast
<1>6. RoutingMemory'
  BY <1>1 DEF RoutingInv, RoutingMemory, FromBefore
<1>7. RoutingAsked' /\ PriceKept'
  BY <1>1, <1>2 DEF RoutingAsked, PriceKept, NoRequest
<1> QED
  BY <1>3, <1>4, <1>5, <1>6, <1>7 DEF RoutingInv

LEMMA RouteKeepsRouting ==
  ASSUME RoutingInv, NEW m, RouteTurn(m)
  PROVE  RoutingInv'
<1>1. /\ routePc = "idle" /\ routePc' = "turn" /\ routed' = routed + 1
      /\ asked' = m /\ model' = Chosen(m) /\ tier' = AutoTier(Chosen(m))
      /\ sent' = CapReasoning(kept) /\ named' = Unnamed /\ request' = NoRequest
      /\ provider' = provider /\ context' = context /\ listRead' = listRead /\ kept' = kept
  BY DEF RouteTurn
<1>2. /\ routed \in Nat /\ kept \in Seq(RoutedMessages) /\ Len(kept) \in Nat
      /\ \A i \in 1 .. Len(kept) : /\ kept[i].reasoning # "cut" /\ kept[i].turn <= routed
                                   /\ kept[i].turn \in Nat
  <2>1. \A i \in 1 .. Len(kept) : kept[i] \in RoutedMessages
    BY DEF RoutingInv, RoutingPast
  <2> QED
    BY <2>1 DEF RoutingInv, RoutingPast, RoutedMessages
<1>3. \A i \in 1 .. Len(kept) : kept[i].turn < routed + 1
  BY <1>2
<1>4. RoutingPick'
  <2>1. Chosen(m) = m \/ Chosen(m) = Default
    BY DEF Chosen
  <2>2. AutoTier(Chosen(m)) = Chosen(m) \/ AutoTier(Chosen(m)) = Unnamed
    BY DEF AutoTier
  <2>3. Chosen(m) \in Tiers => AutoTier(Chosen(m)) = Chosen(m)
    BY DEF AutoTier
  <2> QED
    BY <1>1, <2>1, <2>2, <2>3, RoutingAssumption DEF RoutingPick
<1>5. RoutingStart'
  <2>1. provider = "openrouter" => Chosen(m) = IF m \in Offered THEN m ELSE Default
    BY DEF Chosen
  <2> QED
    BY <1>1, <2>1 DEF RoutingInv, RoutingStart, Promised, Offered, AutoTier, Learnt, TierContext, PoolContexts
<1>6. RoutingPast'
  BY <1>1, <1>2, <1>3 DEF RoutingPast
<1>7. RoutingMemory'
  <2>1. /\ CapReasoning(kept) \in Seq(RoutedMessages) /\ Len(CapReasoning(kept)) = Len(kept)
        /\ \A i \in 1 .. Len(kept) :
             /\ CapReasoning(kept)[i].turn = kept[i].turn
             /\ CapReasoning(kept)[i].reasoning # "long"
             /\ CapReasoning(kept)[i].reasoning # "none" => i \in LastReasoned(kept)
    BY <1>2, CapFacts
  <2>2. FromBefore(sent)' \in SUBSET LastReasoned(kept)
    BY <1>1, <2>1 DEF FromBefore
  <2>3. Cardinality(FromBefore(sent)') <= ReasoningTurns
    <3>1. /\ IsFiniteSet(LastReasoned(kept)) /\ Cardinality(LastReasoned(kept)) \in Nat
          /\ Cardinality(LastReasoned(kept)) <= ReasoningTurns
      BY <1>2, LastReasonedBound
    <3>2. /\ IsFiniteSet(FromBefore(sent)')
          /\ Cardinality(FromBefore(sent)') <= Cardinality(LastReasoned(kept))
      BY <3>1, <2>2, FS_Subset
    <3>3. Cardinality(FromBefore(sent)') \in Nat
      BY <3>2, FS_CardinalityType
    <3> QED
      BY <3>1, <3>2, <3>3, RoutingAssumption
  <2>4. \A i \in FromBefore(sent)' : sent'[i].reasoning # "long"
    BY <1>1, <2>1 DEF FromBefore
  <2>5. \A i \in 1 .. Len(sent') : sent'[i].turn # routed'
    BY <1>1, <1>2, <1>3, <2>1
  <2>6. sent' \in Seq(RoutedMessages) /\ Len(kept') <= Len(sent') /\ Len(sent') = Len(kept')
    BY <1>1, <1>2, <2>1
  <2>7. \A i \in Len(kept') + 1 .. Len(sent') : sent'[i].turn = routed'
    BY <1>1, <1>2, <2>6
  <2> QED
    BY <2>3, <2>4, <2>5, <2>6, <2>7 DEF RoutingMemory
<1>8. RoutingAsked' /\ PriceKept'
  BY <1>1 DEF RoutingAsked, PriceKept, NoRequest
<1> QED
  BY <1>4, <1>5, <1>6, <1>7, <1>8 DEF RoutingInv

\* What a response names is no tier, and for a tier one of its candidates.
LEMMA AnswererIs ==
  ASSUME NEW name \in Answering(model), name # Unnamed
  PROVE  /\ name \notin Tiers
         /\ model \in Tiers => Pools[model] = {} \/ name \in Pools[model]
         /\ model \notin Tiers => name = model
<1>1. \A t \in Tiers : Pools[t] \in SUBSET Routable
  BY RoutingAssumption
<1> QED
  BY <1>1, RoutingAssumption DEF Answering

LEMMA AskKeepsPick ==
  ASSUME RoutingInv, NEW name \in Answering(model), NEW r, NEW outcome,
         Ask(name, r, outcome)
  PROVE  RoutingPick'
<1>1. /\ routePc = "turn" /\ asked' = asked /\ tier' = tier
      /\ outcome = "tools" => requests < rounded
  BY DEF Ask
<1>2. CASE outcome = "failed"
  <2>1. routePc' = "idle" /\ model' = model /\ named' = named
    BY <1>2 DEF Ask
  <2> QED
    BY <1>1, <2>1 DEF RoutingInv, RoutingPick
<1>3. CASE outcome # "failed"
  <2>1. /\ named' = Named(name)
        /\ model' = IF requests < rounded THEN Pinned(model, Named(name)) ELSE model
        /\ routePc' = IF outcome = "tools" THEN "turn" ELSE "idle"
    BY <1>3 DEF Ask
  <2>2. /\ name # Unnamed => named' = name
        /\ name = Unnamed => named' = named
    BY <2>1 DEF Named
  <2>3. model' = model \/ (requests < rounded /\ model \in Tiers /\ named' # Unnamed /\ model' = named')
    BY <2>1 DEF Pinned
  <2>4. routePc' = "turn" => requests < rounded
    BY <1>1, <2>1
  <2>5. requests < rounded /\ model \in Tiers /\ named' # Unnamed => model' = named'
    BY <2>1 DEF Pinned
  <2>6. named' \notin Tiers
    BY <2>2, AnswererIs DEF RoutingInv, RoutingPick
  <2>7. model \in {asked, Default, named} /\ (named # Unnamed => model \notin Tiers)
    BY <1>1 DEF RoutingInv, RoutingPick
  <2>8. routePc' = "turn" => model' \in {asked', Default, named'}
    <3>1. CASE name = Unnamed
      BY <1>1, <2>2, <2>3, <2>7, <3>1
    <3>2. CASE name # Unnamed
      <4>1. model \notin Tiers => name = model
        BY <3>2, AnswererIs
      <4>2. routePc' = "turn" /\ model \in Tiers => model' = named'
        BY <2>2, <2>4, <2>5, <3>2
      <4> QED
        BY <1>1, <2>2, <2>3, <3>2, <4>1, <4>2
    <3> QED
      BY <3>1, <3>2
  <2>9. routePc' = "turn" /\ named' # Unnamed => model' \notin Tiers
    BY <2>3, <2>4, <2>5, <2>6
  <2>10. /\ tier \in Tiers /\ Pools[tier] # {} => model = tier \/ model \in Pools[tier]
         /\ tier \in Tiers /\ model \in Tiers => model = tier
    BY DEF RoutingInv, RoutingPick
  <2>11. tier \in Tiers /\ Pools[tier] # {} => model' = tier \/ model' \in Pools[tier]
    <3>1. SUFFICES ASSUME tier \in Tiers, Pools[tier] # {}, model' # model
                   PROVE  model' \in Pools[tier]
      BY <2>10
    <3>2. model \in Tiers /\ named' # Unnamed /\ model' = named' /\ model = tier
      BY <2>3, <2>10, <3>1
    <3>3. name # Unnamed /\ named' = name
      BY <2>2, <2>7, <3>2
    <3> QED
      BY <3>1, <3>2, <3>3, AnswererIs
  <2>12. tier \in Tiers /\ model' \in Tiers => model' = tier
    BY <2>3, <2>6, <2>10
  <2> QED
    BY <1>1, <2>6, <2>8, <2>9, <2>11, <2>12 DEF RoutingPick
<1> QED
  BY <1>2, <1>3

\* A response is added to what is sent, and what was sent stays.
LEMMA SentGrows ==
  ASSUME RoutingInv, NEW name, NEW r \in {"none", "short", "long"}, NEW outcome,
         Ask(name, r, outcome)
  PROVE  /\ sent \in Seq(RoutedMessages) /\ sent' \in Seq(RoutedMessages)
         /\ Len(sent) \in Nat /\ Len(sent') \in Nat /\ Len(sent) <= Len(sent')
         /\ \A i \in 1 .. Len(sent) : sent'[i] = sent[i]
         /\ \A i \in 1 .. Len(sent') : i \in 1 .. Len(sent) \/ (i > Len(sent) /\ sent'[i] = Said(r))
         /\ Said(r) \in RoutedMessages /\ Said(r).turn = routed /\ Said(r).reasoning # "cut"
<1>1. sent \in Seq(RoutedMessages) /\ Len(sent) \in Nat /\ routed \in Nat
  BY DEF RoutingInv, RoutingMemory, RoutingPast
<1>2. Said(r) \in RoutedMessages /\ Said(r).turn = routed /\ Said(r).reasoning # "cut"
  BY <1>1 DEF Said, RoutedMessages
<1>3. CASE outcome = "failed"
  <2>1. sent' = sent
    BY <1>3 DEF Ask
  <2> QED
    BY <1>1, <1>2, <2>1
<1>4. CASE outcome # "failed"
  <2>1. sent' = Append(sent, Said(r))
    BY <1>4 DEF Ask
  <2>2. /\ Append(sent, Said(r)) \in Seq(RoutedMessages)
        /\ Len(Append(sent, Said(r))) = Len(sent) + 1
        /\ \A i \in 1 .. Len(sent) : Append(sent, Said(r))[i] = sent[i]
        /\ Append(sent, Said(r))[Len(sent) + 1] = Said(r)
    BY <1>1, <1>2, AppendProperties
  <2>3. \A i \in 1 .. Len(sent) + 1 : i \in 1 .. Len(sent) \/ i = Len(sent) + 1
    BY <1>1
  <2> HIDE DEF Said
  <2> QED
    BY <1>1, <1>2, <2>1, <2>2, <2>3
<1> QED
  BY <1>3, <1>4

LEMMA AskKeepsMemory ==
  ASSUME RoutingInv, NEW name, NEW r \in {"none", "short", "long"}, NEW outcome,
         Ask(name, r, outcome)
  PROVE  RoutingMemory' /\ RoutingPast'
<1>1. /\ sent \in Seq(RoutedMessages) /\ sent' \in Seq(RoutedMessages)
      /\ Len(sent) \in Nat /\ Len(sent') \in Nat /\ Len(sent) <= Len(sent')
      /\ \A i \in 1 .. Len(sent) : sent'[i] = sent[i]
      /\ \A i \in 1 .. Len(sent') : i \in 1 .. Len(sent) \/ (i > Len(sent) /\ sent'[i] = Said(r))
      /\ Said(r) \in RoutedMessages /\ Said(r).turn = routed /\ Said(r).reasoning # "cut"
  BY SentGrows
<1>2. routePc = "turn" /\ routed' = routed
  BY DEF Ask
<1>3. /\ kept \in Seq(RoutedMessages) /\ Len(kept) \in Nat /\ Len(kept) <= Len(sent)
      /\ routed \in Nat
      /\ \A i \in 1 .. Len(kept) : kept[i].reasoning # "cut" /\ kept[i].turn < routed
      /\ \A i \in Len(kept) + 1 .. Len(sent) : sent[i].turn = routed
      /\ \A i \in 1 .. Len(sent) : sent[i].turn = routed => sent[i].reasoning # "cut"
  BY <1>2 DEF RoutingInv, RoutingPast, RoutingMemory
<1> HIDE DEF Said
<1>4. FromBefore(sent)' = FromBefore(sent)
  <2>1. /\ FromBefore(sent) = {i \in 1 .. Len(sent) : sent[i].turn # routed /\ sent[i].reasoning # "none"}
        /\ FromBefore(sent)' = {i \in 1 .. Len(sent') : sent'[i].turn # routed /\ sent'[i].reasoning # "none"}
    BY <1>1, <1>2 DEF FromBefore
  <2>2. \A i \in 1 .. Len(sent) : i \in 1 .. Len(sent')
    BY <1>1
  <2> QED
    BY <1>1, <2>1, <2>2
<1>5. \A i \in FromBefore(sent) : i \in 1 .. Len(sent)
  BY <1>1 DEF FromBefore
<1>6. \A i \in 1 .. Len(sent') : sent'[i].turn = routed' => sent'[i].reasoning # "cut"
  BY <1>1, <1>2, <1>3
<1>7. outcome = "failed" \/ outcome = "tools" => kept' = kept
  BY DEF Ask
<1>8. outcome # "tools" => routePc' = "idle"
  BY DEF Ask
<1>9. RoutingMemory'
  <2>1. Cardinality(FromBefore(sent)') <= ReasoningTurns
    BY <1>4 DEF RoutingInv, RoutingMemory
  <2>2. \A i \in FromBefore(sent)' : sent'[i].reasoning # "long"
    BY <1>1, <1>4, <1>5 DEF RoutingInv, RoutingMemory
  <2>3. ASSUME routePc' = "turn"
        PROVE  /\ Len(kept') <= Len(sent')
               /\ \A i \in Len(kept') + 1 .. Len(sent') : sent'[i].turn = routed'
    <3>1. kept' = kept
      BY <1>7, <1>8, <2>3
    <3>2. Len(kept) <= Len(sent')
      BY <1>1, <1>3
    <3>3. ASSUME NEW i \in Len(kept) + 1 .. Len(sent')
          PROVE  sent'[i].turn = routed
      <4>1. i \in 1 .. Len(sent') /\ (i \in 1 .. Len(sent) => i \in Len(kept) + 1 .. Len(sent))
        BY <1>1, <1>3
      <4> QED
        BY <1>1, <1>3, <4>1
    <3> QED
      BY <1>2, <3>1, <3>2, <3>3
  <2> QED
    BY <1>1, <1>6, <2>1, <2>2, <2>3 DEF RoutingMemory
<1>10. RoutingPast'
  <2>1. CASE kept' = kept
    BY <1>2, <1>3, <2>1 DEF RoutingInv, RoutingPast
  <2>2. CASE kept' # kept
    <3>1. kept' = kept \o Append(OwnChain, Said(r)) /\ routePc' = "idle"
      <4>1. outcome # "failed" /\ outcome # "tools"
        BY <1>7, <2>2
      <4> QED
        BY <4>1, <1>8 DEF Ask
    <3>2. /\ OwnChain \in Seq(RoutedMessages)
          /\ \A i \in 1 .. Len(OwnChain) : OwnChain[i].turn = routed /\ OwnChain[i].reasoning # "cut"
      <4>1. Len(kept) + 1 \in Int /\ Len(sent) \in Int
        BY <1>1, <1>3
      <4>2. \A i \in Len(kept) + 1 .. Len(sent) : sent[i] \in RoutedMessages /\ i \in 1 .. Len(sent)
        BY <1>1, <1>3
      <4>3. /\ OwnChain \in Seq(RoutedMessages)
            /\ Len(OwnChain) = IF Len(kept) + 1 <= Len(sent) THEN Len(sent) - (Len(kept) + 1) + 1 ELSE 0
            /\ \A i \in 1 .. Len(sent) - (Len(kept) + 1) + 1 : OwnChain[i] = sent[Len(kept) + 1 + i - 1]
        BY <4>1, <4>2, SubSeqProperties DEF OwnChain
      <4>4. ASSUME NEW i \in 1 .. Len(OwnChain)
            PROVE  OwnChain[i].turn = routed /\ OwnChain[i].reasoning # "cut"
        <5>1. /\ i \in 1 .. Len(sent) - (Len(kept) + 1) + 1
              /\ Len(kept) + 1 + i - 1 \in Len(kept) + 1 .. Len(sent)
          BY <1>1, <1>3, <4>3
        <5>2. OwnChain[i] = sent[Len(kept) + 1 + i - 1]
          BY <4>3, <5>1
        <5> QED
          BY <1>3, <4>2, <5>1, <5>2
      <4> QED
        BY <4>3, <4>4
    <3> DEFINE own == Append(OwnChain, Said(r))
    <3>3. /\ own \in Seq(RoutedMessages) /\ Len(own) \in Nat
          /\ \A i \in 1 .. Len(own) : own[i].turn = routed /\ own[i].reasoning # "cut"
      <4>1. /\ own \in Seq(RoutedMessages) /\ Len(own) = Len(OwnChain) + 1
            /\ \A i \in 1 .. Len(OwnChain) : own[i] = OwnChain[i]
            /\ own[Len(OwnChain) + 1] = Said(r)
        BY <1>1, <3>2, AppendProperties
      <4>2. Len(OwnChain) \in Nat
        BY <3>2
      <4>3. \A i \in 1 .. Len(OwnChain) + 1 : i \in 1 .. Len(OwnChain) \/ i = Len(OwnChain) + 1
        BY <4>2
      <4> HIDE DEF own
      <4> QED
        BY <1>1, <3>2, <4>1, <4>2, <4>3
    <3> HIDE DEF own
    <3>4. /\ kept \o own \in Seq(RoutedMessages)
          /\ Len(kept \o own) = Len(kept) + Len(own)
          /\ \A i \in 1 .. Len(kept) + Len(own) :
               (kept \o own)[i] = IF i <= Len(kept) THEN kept[i] ELSE own[i - Len(kept)]
      BY <1>3, <3>3, ConcatProperties
    <3>5. ASSUME NEW i \in 1 .. Len(kept \o own)
          PROVE  (kept \o own)[i].reasoning # "cut" /\ (kept \o own)[i].turn <= routed
      <4>1. i \in 1 .. Len(kept) \/ i - Len(kept) \in 1 .. Len(own)
        BY <1>3, <3>3, <3>4
      <4>2. CASE i \in 1 .. Len(kept)
        <5>1. (kept \o own)[i] = kept[i]
          BY <1>3, <3>3, <3>4, <4>2
        <5>2. kept[i] \in RoutedMessages
          BY <1>3, <4>2
        <5>3. kept[i].turn \in Nat
          BY <5>2 DEF RoutedMessages
        <5> QED
          BY <1>3, <4>2, <5>1, <5>3
      <4>3. CASE i - Len(kept) \in 1 .. Len(own)
        <5>1. (kept \o own)[i] = own[i - Len(kept)]
          BY <1>3, <3>3, <3>4, <4>3
        <5> QED
          BY <1>3, <3>3, <4>3, <5>1
      <4> QED
        BY <4>1, <4>2, <4>3
    <3>6. kept' = kept \o own
      BY <3>1 DEF own
    <3> QED
      BY <1>2, <1>3, <3>1, <3>4, <3>5, <3>6 DEF RoutingPast
  <2> QED
    BY <2>1, <2>2
<1> QED
  BY <1>9, <1>10

LEMMA AskKeepsRouting ==
  ASSUME RoutingInv, NEW name \in Answering(model), NEW r \in {"none", "short", "long"},
         NEW outcome, Ask(name, r, outcome)
  PROVE  RoutingInv'
<1>1. /\ routePc = "turn" /\ routePc' # "starting"
      /\ request' = [to |-> model, price |-> Price(model), cap |-> ResultCap(model),
                     replay |-> Replay(sent)]
      /\ provider' = provider /\ context' = context /\ listRead' = listRead
      /\ asked' = asked /\ tier' = tier
  BY DEF Ask
<1>2. RoutingPick'
  BY AskKeepsPick
<1>3. RoutingMemory' /\ RoutingPast'
  BY AskKeepsMemory
<1>4. RoutingStart'
  BY <1>1 DEF RoutingInv, RoutingStart, Promised, AutoTier, Learnt, TierContext, PoolContexts
<1>5. RoutingAsked'
  <2>1. /\ sent \in Seq(RoutedMessages) /\ Len(sent) \in Nat /\ Len(sent') \in Nat
        /\ Len(sent) <= Len(sent') /\ \A i \in 1 .. Len(sent) : sent'[i] = sent[i]
    BY SentGrows
  <2>2. Len(sent) \in 0 .. Len(sent')
    BY <2>1
  <2>3. Replay(sent) = [i \in 1 .. Len(sent) |-> [turn |-> sent[i].turn, reasoning |-> Preserved(sent[i])]]
    BY <2>1 DEF Replay
  <2>4. \A i \in 1 .. Len(sent) : Preserved(sent[i]) = Preserved(sent[i])'
    BY <1>1, <2>1 DEF Preserved
  <2>5. request'.replay = [i \in 1 .. Len(sent) |-> [turn |-> sent'[i].turn, reasoning |-> Preserved(sent[i])']]
    BY <1>1, <2>1, <2>3, <2>4
  <2> QED
    BY <2>2, <2>5 DEF RoutingAsked
<1>6. PriceKept'
  <2>1. SUFFICES ASSUME provider = "openrouter", model \notin Routes
                 PROVE  Price(model) = IF Promised \in Tiers THEN MaxPrices[Promised] ELSE MaxPrice
    BY <1>1 DEF PriceKept, Price, Promised
  <2>2. tier = AutoTier(Promised)
    BY <1>1, <2>1 DEF RoutingInv, RoutingStart
  <2> QED
    BY <2>1, <2>2, RoutingAssumption DEF Price, PriceTier, AutoTier
<1> QED
  BY <1>2, <1>3, <1>4, <1>5, <1>6 DEF RoutingInv

LEMMA RoutingStep == RoutingInv /\ [RoutingNext]_routingVars => RoutingInv'
<1> SUFFICES ASSUME RoutingInv, [RoutingNext]_routingVars PROVE RoutingInv'
  OBVIOUS
<1>1. CASE \E local, list \in BOOLEAN : ChooseProvider(local, list)
  BY <1>1, ChoiceKeepsRouting
<1>2. CASE \E m \in Offered \cup {Stale} : RouteTurn(m)
  BY <1>2, RouteKeepsRouting
<1>3. CASE \E name \in Answering(model), r \in {"none", "short", "long"},
              outcome \in {"tools", "answer", "failed"} : Ask(name, r, outcome)
  BY <1>3, AskKeepsRouting
<1>4. CASE UNCHANGED routingVars
  <2>1. /\ provider' = provider /\ context' = context /\ listRead' = listRead
        /\ kept' = kept /\ routed' = routed /\ routePc' = routePc /\ asked' = asked
        /\ model' = model /\ tier' = tier /\ sent' = sent /\ named' = named /\ request' = request
    BY <1>4 DEF routingVars, routing
  <2>2. RoutingPick' /\ RoutingPast'
    BY <2>1 DEF RoutingInv, RoutingPick, RoutingPast
  <2>3. RoutingStart'
    BY <2>1 DEF RoutingInv, RoutingStart, Promised, AutoTier, Learnt, TierContext, PoolContexts
  <2>4. RoutingMemory'
    BY <2>1 DEF RoutingInv, RoutingMemory, FromBefore
  <2>5. RoutingAsked' /\ PriceKept'
    BY <2>1 DEF RoutingInv, RoutingAsked, PriceKept, Promised, Preserved
  <2> QED
    BY <2>2, <2>3, <2>4, <2>5 DEF RoutingInv
<1> QED
  BY <1>1, <1>2, <1>3, <1>4 DEF RoutingNext

\* The smallest of a tier's listed candidates is one of them and below the others.
LEMMA TierContextBound ==
  ASSUME NEW t \in Tiers, NEW m \in Pools[t], m \in DOMAIN ListedContext
  PROVE  TierContext(t) <= ListedContext[m]
<1> DEFINE P == Pools[t] \cap DOMAIN ListedContext
           C == PoolContexts(t)
           f == [x \in P |-> ListedContext[x]]
<1>1. IsFiniteSet(P)
  <2>1. Pools[t] \in SUBSET Routable /\ IsFiniteSet(Routable)
    BY RoutingAssumption
  <2> QED
    BY <2>1, FS_Subset
<1>2. C = {ListedContext[x] : x \in P} /\ C \in SUBSET Nat
  BY RoutingAssumption DEF PoolContexts
<1>3. f \in Surjection(P, C)
  BY <1>2 DEF Surjection
<1>4. IsFiniteSet(C)
  BY <1>1, <1>3, FS_Surjection
<1>5. ListedContext[m] \in C
  BY <1>2
<1>6. Cardinality(C) \in Nat /\ Cardinality(C) # 0
  BY <1>4, <1>5, FS_CardinalityType, FS_EmptySet
<1>7. 1 \in 1 .. Cardinality(C)
  BY <1>6
<1>8. \E x \in C : \A y \in C : x <= y
  <2>1. Nth(C, 1) \in C
    BY <1>2, <1>4, <1>7, NthProperties
  <2>2. ASSUME NEW y \in C PROVE Nth(C, 1) <= y
    <3>1. PICK k \in 1 .. Cardinality(C) : Nth(C, k) = y
      BY <1>2, <1>4, NthProperties
    <3>2. k = 1 \/ 1 < k
      BY <1>6
    <3>3. \A a, b \in 1 .. Cardinality(C) : a < b => Nth(C, a) < Nth(C, b)
      BY <1>2, <1>4, NthProperties
    <3>4. y \in Nat /\ Nth(C, 1) \in Nat
      BY <1>2, <2>1
    <3> QED
      BY <3>1, <3>2, <3>3, <3>4, <1>7
  <2> QED
    BY <2>1, <2>2
<1>9. TierContext(t) = Min(C)
  BY <1>5 DEF TierContext
<1>10. Min(C) \in C /\ \A y \in C : Min(C) <= y
  <2> HIDE DEF C
  <2> QED
    BY <1>8 DEF Min
<1> QED
  BY <1>5, <1>9, <1>10

LEMMA RoutingMeans == RoutingInv => RoutingSound
<1> SUFFICES ASSUME RoutingInv PROVE RoutingSound
  OBVIOUS
<1>1. RoutedOnce
  BY DEF RoutingInv, RoutingPick, RoutedOnce
<1>2. PriceKept
  BY DEF RoutingInv
<1>3. ReasoningReplayed
  <2>1. SUFFICES ASSUME request # NoRequest
                 PROVE  /\ provider = "llama" =>
                             /\ Cardinality(FromBefore(request.replay)) <= ReasoningTurns
                             /\ \A i \in FromBefore(request.replay) : request.replay[i].reasoning # "long"
                        /\ \A i \in DOMAIN request.replay : request.replay[i].turn = routed =>
                             request.replay[i].reasoning = Preserved(sent[i]) /\ Preserved(sent[i]) # "cut"
    BY DEF ReasoningReplayed
  <2>2. PICK n \in 0 .. Len(sent) :
          request.replay = [i \in 1 .. n |-> [turn |-> sent[i].turn, reasoning |-> Preserved(sent[i])]]
    BY <2>1 DEF RoutingInv, RoutingAsked
  <2>3. sent \in Seq(RoutedMessages) /\ Len(sent) \in Nat /\ n \in Nat
    BY <2>2 DEF RoutingInv, RoutingMemory
  <2>4. \A i \in 1 .. n : i \in 1 .. Len(sent) /\ sent[i] \in RoutedMessages
    BY <2>2, <2>3
  <2>5. /\ DOMAIN request.replay = 1 .. n
        /\ \A i \in 1 .. n : /\ request.replay[i].turn = sent[i].turn
                             /\ request.replay[i].reasoning = Preserved(sent[i])
    BY <2>2
  <2>6. ASSUME provider = "llama"
        PROVE  /\ Cardinality(FromBefore(request.replay)) <= ReasoningTurns
               /\ \A i \in FromBefore(request.replay) : request.replay[i].reasoning # "long"
    <3>1. \A i \in 1 .. n : request.replay[i].reasoning = sent[i].reasoning
      BY <2>5, <2>6 DEF Preserved
    <3>2. DOMAIN sent = 1 .. Len(sent)
      BY <2>3
    <3>3. FromBefore(request.replay) \in SUBSET FromBefore(sent)
      BY <2>4, <2>5, <3>1, <3>2 DEF FromBefore
    <3>4. FromBefore(sent) \in SUBSET (1 .. Len(sent))
      BY <3>2 DEF FromBefore
    <3>5. IsFiniteSet(FromBefore(sent)) /\ Cardinality(FromBefore(sent)) \in Nat
      BY <2>3, <3>4, IndexSetFinite
    <3>6. /\ IsFiniteSet(FromBefore(request.replay))
          /\ Cardinality(FromBefore(request.replay)) <= Cardinality(FromBefore(sent))
      BY <3>3, <3>5, FS_Subset
    <3>7. Cardinality(FromBefore(request.replay)) \in Nat
      BY <3>6, FS_CardinalityType
    <3>8. Cardinality(FromBefore(sent)) <= ReasoningTurns
      BY DEF RoutingInv, RoutingMemory
    <3>9. \A i \in FromBefore(request.replay) : i \in 1 .. n
      BY <2>5 DEF FromBefore
    <3> QED
      BY <3>1, <3>3, <3>5, <3>6, <3>7, <3>8, <3>9, RoutingAssumption DEF RoutingInv, RoutingMemory
  <2>7. ASSUME NEW i \in 1 .. n, request.replay[i].turn = routed
        PROVE  request.replay[i].reasoning = Preserved(sent[i]) /\ Preserved(sent[i]) # "cut"
    <3>1. sent[i].turn = routed /\ i \in 1 .. Len(sent) /\ sent[i] \in RoutedMessages
      BY <2>4, <2>5, <2>7
    <3>2. sent[i].reasoning # "cut" /\ sent[i].details # "cut"
      BY <3>1 DEF RoutingInv, RoutingMemory, RoutedMessages
    <3> QED
      BY <2>5, <3>2 DEF Preserved
  <2> QED
    BY <2>5, <2>6, <2>7
<1>4. MeterIsSafe
  <2>1. SUFFICES ASSUME tier \in Tiers, listRead, Pools[tier] # {},
                        model \in DOMAIN ListedContext, model \notin Tiers
                 PROVE  ContextSize(tier) <= ListedContext[model]
    BY DEF MeterIsSafe
  <2>2. model \in Pools[tier] /\ context = Learnt
    BY <2>1 DEF RoutingInv, RoutingPick, RoutingStart
  <2>3. ContextSize(tier) = TierContext(tier)
    BY <2>1, <2>2 DEF ContextSize, Learnt
  <2> QED
    BY <2>1, <2>2, <2>3, TierContextBound
<1> QED
  BY <1>1, <1>2, <1>3, <1>4 DEF RoutingSound

\* For any models, tiers, pools, price rules, contexts and number of turns: a turn
\* is routed once, its requests keep the price of what was chosen, llama-server is
\* replayed no more earlier reasoning than the bound and all of the turn's own, and
\* a tier with candidates is metered against no more than the picked one has.
THEOREM RoutingIsSound == RoutingSpec => []RoutingSound
<1> QED
  BY RoutingInitially, RoutingStep, RoutingMeans, PTL DEF RoutingSpec
=============================================================================
